---------------------------- MODULE ProgramLoader ----------------------------
(***************************************************************************)
(* AccountLoader::replenish_program_cache: the programs among the accounts *)
(* of some messages, and the builtins, are taken from the executor's cache *)
(* or loaded from their accounts, and put into a batch for the run.  The   *)
(* cache outlives the call; Init is MessageExecutor::new.                  *)
(*                                                                         *)
(* An account is what the loader reads of it: its owner, the state its     *)
(* data holds, the slot and the address in that state, and its ELF.  The   *)
(* closure `g' is the caller's and may answer the same key differently     *)
(* each time.  Every fetch is a step of its own.                           *)
(*                                                                         *)
(* `answers' and `before' are history variables.                           *)
(***************************************************************************)
EXTENDS Naturals, Sequences

CONSTANTS
  Keys,                        \* the pubkeys
  LoaderV4, Upgradeable,       \* loader_v4::id(), bpf_loader_upgradeable::id()
  BpfLoaders,                  \* bpf_loader::id() and its deprecated version
  Features,                    \* features a caller may enable
  DelayVisibility,             \* the one delaying new programs by a slot
  BuiltinFeature,              \* the feature each of BUILTINS needs, or None
  Answers,                     \* what g may answer for each key
  Elfs, BadElf,                \* programs; the one that does not verify
  KeyLists,                    \* account_keys of the messages of a call
  Slots, ROOT,                 \* slots of calls; the cache's latest_root_slot
  MaxCalls,                    \* bound: calls on one executor
  None

ProgramOwners == {LoaderV4, Upgradeable} \union BpfLoaders
Builtins == DOMAIN BuiltinFeature
Accounts == [owner : Keys, slot : Nat, target : Keys,
             elf : Elfs \union {BadElf},
             state : {"Program", "ProgramData", "Deployed", "Other"}]

ASSUME LoaderAssumption ==
  /\ ProgramOwners \subseteq Keys /\ Builtins \subseteq Keys
  /\ LoaderV4 # Upgradeable /\ {LoaderV4, Upgradeable} \cap BpfLoaders = {}
  /\ DelayVisibility \in Features
  /\ \A b \in Builtins : BuiltinFeature[b] \in Features \union {None}
  /\ \A k \in Keys : Answers[k] \subseteq Accounts \union {None}
  /\ DOMAIN Answers = Keys
  /\ BadElf \notin Elfs /\ None \notin Elfs \union {BadElf} \union Keys
  /\ None \notin Accounts
  /\ KeyLists \subseteq Seq(Keys)
  /\ Slots \subseteq Nat /\ ROOT \in Nat /\ MaxCalls \in Nat

VARIABLES
  features,   \* feature_set
  entries,    \* loaded_programs: for each key, oldest effective slot first
  pc,         \* "idle", "scan", "load", "data" or "dead"
  slot, keys, \* arguments of the call
  scanned,    \* what g answered for the first of the keys
  missing,    \* missing_programs
  loading,    \* the key whose account was fetched last, and the account
  loaded,     \* loaded_programs, the vector: entry of each key so far
  batch,      \* loaded_programs_for_txs: entry of each key
  result,
  answers,    \* history: what g answered, for each key, to load_program
  before,     \* history: the cache when the call began
  calls

args == <<slot, keys>>
vars == <<features, entries, pc, slot, keys, scanned, missing, loading,
          loaded, batch, result, answers, before, calls>>

Types == {"Loaded", "Builtin", "Closed", "FailedVerification",
          "DelayVisibility"}
Entry(type, dep, eff, elf) ==
  [type |-> type, dep |-> dep, eff |-> eff, elf |-> elf]
Tombstone(dep, type) == Entry(type, dep, dep, None)

builtin_programs ==
  {b \in Builtins : BuiltinFeature[b] \in features \union {None}}

(* A function extended by one more argument. *)
With(f, k, e) ==
  [j \in DOMAIN f \union {k} |-> IF j = k THEN e ELSE f[j]]
Empty == [k \in {} |-> None]

(* MessageExecutor::new: the builtins whose feature is enabled are in the  *)
(* cache from the start.                                                   *)
Preloaded_Nothing == [k \in Keys |-> <<>>]
Preloaded ==
  [k \in Keys |->
     IF k \in builtin_programs THEN <<Entry("Builtin", 0, 0, None)>> ELSE <<>>]
Init ==
  /\ features \in SUBSET Features
  /\ entries = Preloaded
  /\ pc = "idle"
  /\ slot = 0 /\ keys = <<>>
  /\ scanned = <<>>
  /\ missing = {}
  /\ loading = [key |-> None, account |-> None]
  /\ loaded = Empty
  /\ batch = Empty
  /\ result = "none"
  /\ answers = [k \in Keys |-> {}]
  /\ before = entries
  /\ calls = 0

-----------------------------------------------------------------------------
(* The cache and the batch of solana_program_runtime. *)

(* LoadedProgram::is_implicit_delay_visibility_tombstone *)
Delayed(e, s) ==
  /\ e.type # "Builtin"
  /\ e.eff = e.dep + 1
  /\ e.dep <= s /\ s < e.eff

(* WorkingSlot::is_ancestor *)
IsAncestor(dep, s) == dep < s

(* LoadedPrograms::extract: the newest entry of this fork that is in       *)
(* effect, or that is about to be.                                         *)
Relevant(e, s) == e.dep <= ROOT \/ e.dep = s \/ IsAncestor(e.dep, s)
Hits(k, s) ==
  {i \in DOMAIN entries[k] :
     LET e == entries[k][i]
     IN  Relevant(e, s) /\ (s >= e.eff \/ Delayed(e, s))}
Newest(I) == CHOOSE i \in I : \A j \in I : j <= i
Extracted(k, s) ==
  LET e == entries[k][Newest(Hits(k, s))]
  IN  IF s >= e.eff THEN e ELSE Tombstone(e.dep, "DelayVisibility")

(* LoadedPrograms::replenish: an entry for the same slots is kept, unless  *)
(* one of the two is a tombstone and the other is not; otherwise the new   *)
(* one goes before those that take effect no earlier.                      *)
IsTombstone(e) == e.type \notin {"Loaded", "Builtin"}
Later(es, e) == {i \in DOMAIN es : es[i].eff >= e.eff}
Place(es, e) ==
  IF Later(es, e) = {} THEN Len(es) + 1
  ELSE CHOOSE i \in Later(es, e) : \A j \in Later(es, e) : i <= j
SameSlots(es, e) ==
  /\ Place(es, e) <= Len(es)
  /\ es[Place(es, e)].dep = e.dep /\ es[Place(es, e)].eff = e.eff
Duplicate(es, e) ==
  SameSlots(es, e) /\ IsTombstone(es[Place(es, e)]) = IsTombstone(e)
Replenished_Append(es, e) == Append(es, e)
Replenished(es, e) ==
  LET i == Place(es, e) IN
  IF Duplicate(es, e) THEN es
  ELSE SubSeq(es, 1, i - 1) \o <<e>>
         \o SubSeq(es, IF SameSlots(es, e) THEN i + 1 ELSE i, Len(es))
Deduplicated(es, e) == IF Duplicate(es, e) THEN es[Place(es, e)] ELSE e

(* LoadedProgramsForTxBatch::find *)
Find(k) ==
  IF Delayed(batch[k], slot) THEN Tombstone(batch[k].dep, "DelayVisibility")
  ELSE batch[k]

-----------------------------------------------------------------------------
(* The caller gives the messages and the slot. *)
Call(ks, s) ==
  /\ pc = "idle"
  /\ calls < MaxCalls
  /\ pc' = "scan"
  /\ keys' = ks /\ slot' = s
  /\ scanned' = <<>> /\ missing' = {} /\ loaded' = Empty /\ batch' = Empty
  /\ loading' = [key |-> None, account |-> None]
  /\ result' = "none"
  /\ before' = entries
  /\ calls' = calls + 1
  /\ UNCHANGED <<features, entries, answers>>

Return(r) == pc' = "idle" /\ result' = r

(* One turn of the loops over messages and keys, with the answer a. *)
Scan(a) ==
  LET k == keys[Len(scanned) + 1] IN
  /\ pc = "scan"
  /\ Len(scanned) < Len(keys)
  /\ a \in Answers[k]
  /\ scanned' = Append(scanned, a)
  /\ \/ /\ a = None
        /\ Return("AccountNotFound")
        /\ UNCHANGED missing
     \/ /\ a # None
        /\ missing' = missing \union (IF a.owner \in ProgramOwners
                                        THEN {k} ELSE {})
        /\ UNCHANGED <<pc, result>>
  /\ UNCHANGED <<features, entries, args, loading, loaded, batch, answers,
                 before, calls>>

(* The builtins are added, and what the cache has is taken from it. *)
Wanted_ProgramsOnly == missing
Wanted == missing \union builtin_programs
Extract ==
  /\ pc = "scan"
  /\ Len(scanned) = Len(keys)
  /\ batch' = [k \in {j \in Wanted : Hits(j, slot) # {}} |->
                 Extracted(k, slot)]
  /\ missing' = {k \in Wanted : Hits(k, slot) = {}}
  /\ pc' = "load"
  /\ UNCHANGED <<features, entries, args, scanned, loading, loaded, result,
                 answers, before, calls>>

(* load_program returns e for key k.  A panic ends the process. *)
Load_IntoCache(k, e) ==
  /\ loaded' = With(loaded, k, e)
  /\ entries' = [entries EXCEPT ![k] = Replenished(@, e)]
  /\ pc' = "load"
  /\ UNCHANGED result
Load(k, e) ==
  /\ loaded' = With(loaded, k, e)
  /\ pc' = "load"
  /\ UNCHANGED <<entries, result>>
Panic ==
  /\ pc' = "dead"
  /\ result' = "panic"
  /\ UNCHANGED <<entries, loaded>>

(* load_program_from_bytes, for a program deployed at slot dep.  The       *)
(* library knows no loaders but the program owners.                        *)
VisibleFrom(dep) == IF DelayVisibility \in features THEN dep + 1 ELSE dep
FromBytes(k, a, owner, dep) ==
  \/ /\ a.elf = BadElf
     /\ Load(k, Tombstone(slot, "FailedVerification"))
  \/ /\ a.elf # BadElf
     /\ owner \in ProgramOwners
     /\ Load(k, Entry("Loaded", dep, VisibleFrom(dep), a.elf))
  \/ /\ a.elf # BadElf
     /\ owner \notin ProgramOwners
     /\ Panic

(* ProgramOfLoaderV4, InvalidV4Program *)
FromV4_AtOnce(k, a) ==
  Load(k, IF a.state # "Deployed" THEN Tombstone(slot, "FailedVerification")
          ELSE IF a.elf = BadElf THEN Tombstone(a.slot, "FailedVerification")
          ELSE Entry("Loaded", a.slot, a.slot, a.elf))
FromV4(k, a) ==
  Load(k, IF a.state # "Deployed" THEN Tombstone(slot, "FailedVerification")
          ELSE IF a.elf = BadElf THEN Tombstone(a.slot, "FailedVerification")
          ELSE Entry("Loaded", a.slot, a.slot + 1, a.elf))

Answered(k, a) ==
  /\ a \in Answers[k]
  /\ answers' = [answers EXCEPT ![k] = @ \union {a}]

(* load_program up to its first fetch.  The vector is sorted by key; which *)
(* key is the lesser is left open.                                         *)
IsProgram(a) == a # None /\ a.owner = Upgradeable /\ a.state = "Program"
FetchProgram(k, a) ==
  /\ pc = "load"
  /\ k \in missing \ DOMAIN loaded
  /\ Answered(k, a)
  /\ loading' = [key |-> k, account |-> a]
  /\ \/ a = None /\ Load(k, Tombstone(slot, "Closed"))
     \/ a # None /\ a.owner = LoaderV4 /\ FromV4(k, a)
     \/ /\ a # None /\ a.owner \notin {LoaderV4, Upgradeable}
        /\ FromBytes(k, a, a.owner, 0)
     \/ IsProgram(a) /\ pc' = "data" /\ UNCHANGED <<entries, loaded, result>>
     \/ /\ a # None /\ a.owner = Upgradeable /\ ~IsProgram(a)
        /\ Load(k, Tombstone(slot, "FailedVerification"))
  /\ UNCHANGED <<features, args, scanned, missing, batch, before, calls>>

(* The second fetch, for the account that holds an upgradeable program. *)
FetchProgramData(d) ==
  LET k == loading.key
      a == loading.account
  IN /\ pc = "data"
     /\ Answered(a.target, d)
     /\ \/ d = None /\ Load(k, Tombstone(slot, "Closed"))
        \/ /\ d # None /\ d.state = "ProgramData"
           /\ FromBytes(k, d, a.owner, d.slot)
        \/ /\ d # None /\ d.state # "ProgramData"
           /\ Load(k, Tombstone(slot, "FailedVerification"))
     /\ UNCHANGED <<features, args, scanned, missing, loading, batch, before,
                    calls>>

(* All are loaded: they go into the cache, and into the batch. *)
Replenish ==
  /\ pc = "load"
  /\ missing = DOMAIN loaded
  /\ entries' = [k \in Keys |-> IF k \in missing
                                  THEN Replenished(entries[k], loaded[k])
                                  ELSE entries[k]]
  /\ batch' = [k \in DOMAIN batch \union missing |->
                 IF k \in missing THEN Deduplicated(entries[k], loaded[k])
                 ELSE batch[k]]
  /\ Return("ok")
  /\ UNCHANGED <<features, args, scanned, missing, loading, loaded, answers,
                 before, calls>>

AnyAnswer == UNION {Answers[k] : k \in Keys}
Step ==
  \/ \E a \in AnyAnswer : Scan(a)
  \/ Extract
  \/ \E k \in missing, a \in AnyAnswer : FetchProgram(k, a)
  \/ \E d \in AnyAnswer : FetchProgramData(d)
  \/ Replenish
(* The caller need not call again; after a panic it cannot. *)
Stopped == pc \in {"idle", "dead"} /\ UNCHANGED vars
Next ==
  \/ Step
  \/ \E ks \in KeyLists, s \in Slots : Call(ks, s)
  \/ Stopped

Spec == Init /\ [][Next]_vars

-----------------------------------------------------------------------------
EntryType == [type : Types, dep : Nat, eff : Nat,
              elf : Elfs \union {BadElf, None}]

(* Type invariant; the entries of a program are in the order of their      *)
(* effective slots, on which the search from the newest rests.             *)
TypeOK ==
  /\ features \subseteq Features
  /\ entries \in [Keys -> Seq(EntryType)]
  /\ \A k \in Keys : \A i, j \in DOMAIN entries[k] :
       i < j => entries[k][i].eff <= entries[k][j].eff
  /\ pc \in {"idle", "scan", "load", "data", "dead"}
  /\ slot \in Nat /\ keys \in Seq(Keys)
  /\ scanned \in Seq(Accounts \union {None})
  /\ missing \subseteq Keys
  /\ DOMAIN loaded \subseteq missing
  /\ \A k \in DOMAIN loaded : loaded[k] \in EntryType
  /\ DOMAIN batch \subseteq Keys
  /\ \A k \in DOMAIN batch : batch[k] \in EntryType
  /\ result \in {"none", "ok", "AccountNotFound", "panic"}
  /\ calls \in 0..MaxCalls

(* When the call succeeds, the batch has exactly the accounts it found to  *)
(* be owned by a loader, and the enabled builtins: whether the cache had   *)
(* them, had an outdated entry, or had nothing.                            *)
BatchComplete ==
  result = "ok" =>
    DOMAIN batch = builtin_programs \union
      {keys[i] : i \in {j \in DOMAIN keys : scanned[j].owner \in ProgramOwners}}

(* What becomes of a program at slot s that lives in account a and, if it  *)
(* is upgradeable, in the account of its data d.  A program is not visible *)
(* in the slot of its deployment, if that is delayed.                      *)
Outcome(type, elf) == [type |-> type, elf |-> elf]
Runs(elf, hidden) ==
  IF elf = BadElf THEN Outcome("FailedVerification", None)
  ELSE IF hidden THEN Outcome("DelayVisibility", None)
  ELSE Outcome("Loaded", elf)
Deployed(delay, a, d, s) ==
  IF a = None THEN Outcome("Closed", None)
  ELSE IF a.owner \in BpfLoaders THEN Runs(a.elf, delay /\ s = 0)
  ELSE IF a.owner = LoaderV4
    THEN Runs(IF a.state = "Deployed" THEN a.elf ELSE BadElf, s = a.slot)
  ELSE IF ~IsProgram(a) THEN Outcome("FailedVerification", None)
  ELSE IF d = None THEN Outcome("Closed", None)
  ELSE IF d.state # "ProgramData" THEN Outcome("FailedVerification", None)
  ELSE Runs(d.elf, delay /\ s = d.slot)

(* What the batch says of a program at the slot of the call is what its    *)
(* accounts say, as this call or an earlier one on the same executor       *)
(* fetched them, at whatever slots the calls were made.  While the         *)
(* accounts stay as they are the cache cannot be noticed; when they        *)
(* change, the answer may be of any earlier state that was fetched.        *)
DataAnswers(fetched, a) ==
  IF IsProgram(a) THEN fetched[a.target] ELSE {None}
BatchFaithful ==
  result = "ok" =>
    \A k \in DOMAIN batch \ builtin_programs :
      \E a \in answers[k] : \E d \in DataAnswers(answers, a) :
        Outcome(Find(k).type, Find(k).elf)
          = Deployed(DelayVisibility \in features, a, d, slot)

(* A call that does not return a batch leaves the cache as it was. *)
FailureKeepsCache ==
  result \in {"AccountNotFound", "panic"} => entries = before

(* The owner of a program is looked at twice.  The library panics only if  *)
(* it changed from a loader to something else in between; no builtin is    *)
(* ever loaded from an account.                                            *)
PanicsOnChange ==
  result = "panic" =>
    /\ loading.account.owner \notin ProgramOwners
    /\ \E i \in DOMAIN scanned :
         keys[i] = loading.key /\ scanned[i].owner \in ProgramOwners
=============================================================================
