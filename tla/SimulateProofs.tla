---------------------------- MODULE SimulateProofs ----------------------------
(***************************************************************************)
(* The simulate command runs the program of the file, for every cluster    *)
(* that answers as RpcAssumption says, every command line and every way in *)
(* which requests are lost.                                                *)
(*                                                                         *)
(* Every step of the command is a step of either loader or leaves it       *)
(* alone, so the loaders' invariants, proved in modules of their own, hold *)
(* here as well: they are taken in with INSTANCE.  What is added relates   *)
(* the two: the accounts that either loader has seen are answers of the    *)
(* one closure.                                                            *)
(***************************************************************************)
EXTENDS Simulate, FiniteSetTheorems, SequenceTheorems, TLAPS

TLP == INSTANCE TransactionLoaderProofs WITH pc <- tl_pc, result <- tl_result
PLP == INSTANCE ProgramLoaderProofs
         WITH pc <- pl_pc, result <- pl_result, MaxCalls <- 1,
              BpfLoaders <- {BpfLoader}, Answers <- [k \in Keys |-> AllAccounts],
              KeyLists <- {m.keys : m \in Messages}

-----------------------------------------------------------------------------
(* An answer the closure may give for key k, when the file has ELF e and   *)
(* the requests for l were lost: the program is the file's, and only a     *)
(* request that failed is answered by a default account.                   *)
Genuine(e, l, k, a) ==
  IF k = ProgramId THEN a = Account(BpfLoader, e)
  ELSE a \in RpcAnswers[k] \/ (a = DefaultAccount /\ k \in l)

(* An answer the closure gave, and will give again if it remembers. *)
SeenIn(e, m, l, k, a) ==
  /\ a \in AllAccounts
  /\ Genuine(e, l, k, a)
  /\ Memoised /\ k # ProgramId => k \in DOMAIN m /\ m[k] = a
Seen(k, a) == SeenIn(file, memo, lost, k, a)

(* The loaders have not been called, and the file may still be read. *)
Fresh ==
  stage \in {"clock", "file"} =>
    /\ file = None /\ DOMAIN memo = {}
    /\ accounts = <<>> /\ program_indices = <<>> /\ tl_pc = "accounts"
Uncalled ==
  stage \in {"clock", "file", "load"} =>
    /\ pl_pc = "idle" /\ pl_result = "none"
    /\ scanned = <<>> /\ loading = [key |-> None, account |-> None]
    /\ batch = PL!Empty /\ answers = [k \in Keys |-> {}] /\ calls = 0

(* How the stages of the command and of the loaders go together. *)
Stages ==
  /\ stage \in {"clock", "file", "load", "replenish", "process", "done"}
  /\ features = Features
  /\ stage # "done" => outcome.kind = "none"
  /\ stage \notin {"clock", "done"} => clock_slot \in Slots
  /\ stage \notin {"clock", "file", "done"} => file \in Elfs \union {BadElf}
  /\ stage \in {"replenish", "process"} =>
       /\ tl_pc = "done" /\ tl_result = "ok"
       /\ keys = msg.keys /\ slot = clock_slot
  /\ stage = "process" => pl_pc = "idle" /\ pl_result = "ok"

(* Everything the loaders work on was answered by the closure. *)
FromRpc(i) == i > Len(msg.keys) \/ accounts[i].key # InstructionsSysvar
MemoSeen == \A k \in DOMAIN memo : k # ProgramId /\ Seen(k, memo[k])
AccountsSeen ==
  \A i \in 1..Len(accounts) :
    FromRpc(i) =>
      \E a \in AllAccounts :
        Seen(accounts[i].key, a) /\ a.owner = accounts[i].owner
ScannedSeen == \A i \in 1..Len(scanned) : Seen(keys[i], scanned[i])
AnswersSeen == \A a \in answers[ProgramId] : Seen(ProgramId, a)
LoadingSeen == loading.key # None => Seen(loading.key, loading.account)

(* The chain of the one instruction goes from the program to the loader,   *)
(* and beyond it only if the request for the loader was lost.              *)
OnTheWay(l, k) == k = BpfLoader \/ (k = SystemProgram /\ BpfLoader \in l)
Chained ==
  /\ tl_pc = "accounts" => program_indices = <<>>
  /\ tl_pc = "chain" /\ account_indices = <<>> =>
       program_index = msg.programs[1]
  /\ tl_pc = "chain" /\ account_indices # <<>> =>
       /\ program_index \in Len(msg.keys)..(Len(accounts) - 1)
       /\ OnTheWay(lost, accounts[program_index + 1].key)
  /\ program_indices # <<>> =>
       /\ Chain # <<>>
       /\ Chain[1] < Len(accounts)
       /\ OnTheWay(lost, Root)
  /\ tl_result = "ok" =>
       Len(program_indices) = 1 /\ Len(msg.keys) <= Len(accounts)

(* No account takes the place of a builtin; a batch is returned when every *)
(* key has been looked at.                                                 *)
BuiltinsKept ==
  /\ \A b \in PL!builtin_programs \intersect DOMAIN batch :
       batch[b].type = "Builtin"
  /\ pl_pc \in {"data", "dead"} => loading.key \in Keys \ PL!builtin_programs
  /\ pl_pc = "dead" => pl_result = "panic"
  /\ pl_result = "ok" => Len(scanned) = Len(keys)

(* What the command comes to. *)
Outcomes ==
  /\ Memoised => outcome.kind # "panic"
  /\ outcome.kind = "ran" => outcome.what = file /\ file # BadElf
  /\ outcome.kind = "builtin" =>
       outcome.what = SystemProgram /\ BpfLoader \in lost
  /\ outcome.kind = "panic" =>
       outcome.what \notin PL!builtin_programs \union {ProgramId}

Own ==
  /\ Fresh /\ Uncalled /\ Stages
  /\ MemoSeen /\ AccountsSeen /\ ScannedSeen /\ AnswersSeen /\ LoadingSeen
  /\ Chained /\ BuiltinsKept /\ Outcomes
IInv == TLP!IInv /\ PLP!IInv /\ Own

-----------------------------------------------------------------------------
(* What the loaders assume of their parameters holds of the command's. *)

(* The account keys of a message are those of the command line and the     *)
(* program, and its one instruction is for the program.                    *)
LEMMA MessageShape ==
  ASSUME NEW m \in Messages
  PROVE  /\ m \in [keys : Seq(Keys), programs : Seq(Nat)]
         /\ Len(m.programs) = 1
         /\ m.programs[1] \in 0..(Len(m.keys) - 1)
         /\ m.keys[m.programs[1] + 1] = ProgramId
  <1>1. PICK cmd \in Commands : m \in MessagesOf(cmd)
    BY DEF Messages
  <1>2. PICK ks \in Orders(cmd) :
          m = [keys |-> ks, programs |-> <<IndexOf(ks, ProgramId) - 1>>]
    BY <1>1 DEF MessagesOf
  <1> DEFINE S == cmd.account \union {ProgramId}
             n == Cardinality(S)
  <1>3. IsFiniteSet(S) /\ S \subseteq Keys
    BY FS_AddElement, ParametersAssumption, AddressesAssumption
  <1>4. n \in Nat
    BY <1>3, FS_CardinalityType
  <1> HIDE DEF n
  <1>5. /\ ks \in [1..n -> S]
        /\ \A i, j \in 1..n : i < j => ks[i] # ks[j]
    BY DEF Orders, n
  <1>6. ks \in Injection(1..n, S)
    <2>1. \A i, j \in 1..n : ks[i] = ks[j] => i = j
      BY <1>4, <1>5
    <2> QED
      BY <1>5, <2>1 DEF Injection, IsInjective
  <1>7. ks \in Surjection(1..n, S)
    <2>1. Cardinality(1..n) = n
      BY <1>4, FS_Interval
    <2> QED
      BY <1>3, <1>6, <2>1, FS_Injection DEF n
  <1>8. PICK p \in 1..n : ks[p] = ProgramId
    BY <1>7 DEF Surjection
  <1>9. /\ IndexOf(ks, ProgramId) \in 1..n
        /\ ks[IndexOf(ks, ProgramId)] = ProgramId
    BY <1>5, <1>8 DEF IndexOf
  <1>10. ks \in Seq(Keys) /\ Len(ks) = n
    <2>1. ks \in [1..n -> Keys]
      BY <1>3, <1>5
    <2> QED
      BY <1>4, <2>1
  <1> QED
    BY <1>2, <1>4, <1>9, <1>10

(* The transaction loader's assumptions. *)
LEMMA TLAssumptions ==
  /\ {NativeLoader, InstructionsSysvar, SysvarProgram} \subseteq Keys
  /\ Messages \subseteq [keys : Seq(Keys), programs : Seq(Nat)]
  /\ CHAIN_DEPTH \in Nat \ {0}
  BY MessageShape, AddressesAssumption, ParametersAssumption

(* The accounts are accounts, and there is always one. *)
LEMMA AllAccountsTyped ==
  /\ AllAccounts \subseteq PL!Accounts
  /\ None \notin AllAccounts
  /\ DefaultAccount \in AllAccounts
  /\ \A k \in Keys : RpcAnswers[k] \subseteq AllAccounts
  <1>1. \A o \in Keys, e \in Elfs \union {BadElf} : Account(o, e) \in PL!Accounts
    BY AddressesAssumption DEF Account, PL!Accounts
  <1>2. AllAccounts \subseteq PL!Accounts
    BY <1>1, RpcAssumption, AddressesAssumption DEF AllAccounts, DefaultAccount
  <1> QED
    BY <1>2, ParametersAssumption DEF AllAccounts

(* The program loader's assumptions. *)
LEMMA PLAssumptions ==
  /\ PLP!ProgramOwners \subseteq Keys /\ PLP!Builtins \subseteq Keys
  /\ LoaderV4 # Upgradeable /\ {LoaderV4, Upgradeable} \cap {BpfLoader} = {}
  /\ DelayVisibility \in Features
  /\ \A b \in PLP!Builtins : BuiltinFeature[b] \in Features \union {None}
  /\ \A k \in Keys :
       [j \in Keys |-> AllAccounts][k] \subseteq PLP!Accounts \union {None}
  /\ DOMAIN [j \in Keys |-> AllAccounts] = Keys
  /\ BadElf \notin Elfs /\ None \notin Elfs \union {BadElf} \union Keys
  /\ None \notin PLP!Accounts
  /\ {m.keys : m \in Messages} \subseteq Seq(Keys)
  /\ Slots \subseteq Nat /\ ROOT \in Nat /\ 1 \in Nat
  BY AddressesAssumption, ParametersAssumption, AllAccountsTyped, MessageShape
  DEF PLP!ProgramOwners, PLP!Builtins, PLP!Accounts, PL!Builtins, PL!Accounts

(* The loaders' invariants are kept by the loaders' steps. *)
LEMMA TLInvariant ==
  /\ TLP!Init => TLP!IInv
  /\ TLP!IInv /\ [TLP!Next]_TLP!vars => TLP!IInv'
  BY TLAssumptions, TLP!InitInvariant, TLP!NextInvariant
LEMMA PLInvariant ==
  /\ PLP!Init => PLP!IInv
  /\ PLP!IInv /\ [PLP!Next]_PLP!vars => PLP!IInv'
  BY PLAssumptions, PLP!InitInvariant, PLP!NextInvariant

-----------------------------------------------------------------------------
(* Every step of the command is a step of each loader, or none of its. *)

(* The transaction loader's definitions, in the instance of its proofs. *)
LEMMA TLSame ==
  /\ TL!Init <=> TLP!Init
  /\ TL!Step <=> TLP!Step
  /\ TL!vars = TLP!vars
  <1>1. TL!Init <=> TLP!Init
    BY DEF TL!Init, TLP!Init
  <1>2. TL!vars = TLP!vars
    BY DEF TL!vars, TLP!vars
  <1>3. TL!LoadAccount <=> TLP!LoadAccount
    BY DEF TL!LoadAccount, TLP!LoadAccount, TL!Entry, TLP!Entry, TL!Return,
           TLP!Return
  <1>4. TL!AccountsLoaded <=> TLP!AccountsLoaded
    BY DEF TL!AccountsLoaded, TLP!AccountsLoaded
  <1>5. TL!StartChain <=> TLP!StartChain
    BY DEF TL!StartChain, TLP!StartChain
  <1>6. TL!ChainStep <=> TLP!ChainStep
    <2>1. \A r : TL!Fail(r) <=> TLP!Fail(r)
      BY DEF TL!Fail, TLP!Fail, TL!Return, TLP!Return
    <2>2. \A c : TL!FinishChain(c) <=> TLP!FinishChain(c)
      BY DEF TL!FinishChain, TLP!FinishChain
    <2>3. TL!Linked = TLP!Linked /\ TL!Program = TLP!Program
      BY DEF TL!Linked, TLP!Linked, TL!Program, TLP!Program
    <2>4. \A i : TL!Follow(i) <=> TLP!Follow(i)
      BY <2>3 DEF TL!Follow, TLP!Follow
    <2>5. \A k : TL!Loaded(k) = TLP!Loaded(k)
      BY DEF TL!Loaded, TLP!Loaded
    <2>6. \A I : TL!First(I) = TLP!First(I)
      BY DEF TL!First, TLP!First
    <2>7. \A k, o : TL!Pushed(TL!Entry(k, o)) = TLP!Pushed(TLP!Entry(k, o))
      BY DEF TL!Pushed, TLP!Pushed, TL!Entry, TLP!Entry
    <2> QED
      BY <2>1, <2>2, <2>3, <2>4, <2>5, <2>6, <2>7
      DEF TL!ChainStep, TLP!ChainStep, TL!TurnsLeft, TLP!TurnsLeft
  <1>7. TL!TooDeep <=> TLP!TooDeep
    BY DEF TL!TooDeep, TLP!TooDeep, TL!Fail, TLP!Fail, TL!Return, TLP!Return,
           TL!TurnsLeft, TLP!TurnsLeft
  <1>8. TL!Finish <=> TLP!Finish
    BY DEF TL!Finish, TLP!Finish, TL!Return, TLP!Return
  <1> QED
    BY <1>1, <1>2, <1>3, <1>4, <1>5, <1>6, <1>7, <1>8 DEF TL!Step, TLP!Step

(* The command drives the transaction loader as its own module says. *)
LEMMA TLStep == [Next]_vars => [TLP!Next]_TLP!vars
  <1> SUFFICES ASSUME [Next]_vars
               PROVE  TLP!Step \/ UNCHANGED TLP!vars
    BY DEF TLP!Next
  <1>1. UNCHANGED tlvars => UNCHANGED TLP!vars
    BY DEF tlvars, TLP!vars
  <1>2. LoadTransaction => TLP!Step
    BY TLSame DEF LoadTransaction
  <1>3. Next => LoadTransaction \/ UNCHANGED tlvars
    BY DEF Next, Step, Finished, GetClock, ReadProgram, TransactionLoaded,
           ReplenishCache, CacheReplenished, Process, vars
  <1>4. UNCHANGED vars => UNCHANGED tlvars
    BY DEF vars
  <1> QED
    BY <1>1, <1>2, <1>3, <1>4

(* The program loader's definitions, in the instance of its proofs. *)
LEMMA PLSame ==
  /\ PL!Init <=> PLP!Init
  /\ \A ks, s : PL!Call(ks, s) <=> PLP!Call(ks, s)
  /\ \A a : PL!Scan(a) <=> PLP!Scan(a)
  /\ PL!Extract <=> PLP!Extract
  /\ \A k, a : PL!FetchProgram(k, a) <=> PLP!FetchProgram(k, a)
  /\ \A d : PL!FetchProgramData(d) <=> PLP!FetchProgramData(d)
  /\ PL!Replenish <=> PLP!Replenish
  /\ PL!builtin_programs = PLP!builtin_programs
  /\ PL!ProgramOwners = PLP!ProgramOwners
  /\ PL!Accounts = PLP!Accounts
  /\ PL!Empty = PLP!Empty
  /\ \A k : PL!Find(k) = PLP!Find(k)
  <1>1. /\ PL!builtin_programs = PLP!builtin_programs
        /\ PL!ProgramOwners = PLP!ProgramOwners
        /\ PL!Accounts = PLP!Accounts
        /\ PL!Empty = PLP!Empty
    BY DEF PL!builtin_programs, PLP!builtin_programs, PL!Builtins, PLP!Builtins,
           PL!ProgramOwners, PLP!ProgramOwners, PL!Accounts, PLP!Accounts,
           PL!Empty, PLP!Empty
  <1>2. /\ \A t, d, e, p : PL!Entry(t, d, e, p) = PLP!Entry(t, d, e, p)
        /\ \A t, d : PL!Tombstone(d, t) = PLP!Tombstone(d, t)
    BY DEF PL!Entry, PLP!Entry, PL!Tombstone, PLP!Tombstone
  <1>3. \A e, s : PL!Delayed(e, s) <=> PLP!Delayed(e, s)
    BY DEF PL!Delayed, PLP!Delayed
  <1>4. PL!Init <=> PLP!Init
    <2>1. PL!Preloaded = PLP!Preloaded
      BY <1>1, <1>2 DEF PL!Preloaded, PLP!Preloaded
    <2> QED
      BY <1>1, <2>1 DEF PL!Init, PLP!Init
  <1>5. \A ks, s : PL!Call(ks, s) <=> PLP!Call(ks, s)
    BY <1>1 DEF PL!Call, PLP!Call
  <1>6. \A a : PL!Scan(a) <=> PLP!Scan(a)
    BY <1>1 DEF PL!Scan, PLP!Scan, PL!Return, PLP!Return, PL!args, PLP!args
  <1>7. PL!Extract <=> PLP!Extract
    <2>1. \A k, s : PL!Hits(k, s) = PLP!Hits(k, s)
      BY <1>3 DEF PL!Hits, PLP!Hits, PL!Relevant, PLP!Relevant,
                  PL!IsAncestor, PLP!IsAncestor
    <2>2. \A k, s : PL!Extracted(k, s) = PLP!Extracted(k, s)
      <3>1. \A I : PL!Newest(I) = PLP!Newest(I)
        BY DEF PL!Newest, PLP!Newest
      <3> QED
        BY <1>2, <2>1, <3>1 DEF PL!Extracted, PLP!Extracted
    <2>3. PL!Wanted = PLP!Wanted
      BY <1>1 DEF PL!Wanted, PLP!Wanted
    <2> QED
      BY <2>1, <2>2, <2>3 DEF PL!Extract, PLP!Extract, PL!args, PLP!args
  <1>8. \A k, e : PL!Load(k, e) <=> PLP!Load(k, e)
    BY DEF PL!Load, PLP!Load, PL!With, PLP!With
  <1>9. \A k, a, o, d : PL!FromBytes(k, a, o, d) <=> PLP!FromBytes(k, a, o, d)
    BY <1>1, <1>2, <1>8
    DEF PL!FromBytes, PLP!FromBytes, PL!Panic, PLP!Panic, PL!VisibleFrom,
        PLP!VisibleFrom
  <1>10. \A k, a : PL!FromV4(k, a) <=> PLP!FromV4(k, a)
    BY <1>2, <1>8 DEF PL!FromV4, PLP!FromV4
  <1>11. \A k, a : PL!Answered(k, a) <=> PLP!Answered(k, a)
    BY DEF PL!Answered, PLP!Answered
  <1>12. \A a : PL!IsProgram(a) <=> PLP!IsProgram(a)
    BY DEF PL!IsProgram, PLP!IsProgram
  <1>13. \A k, a : PL!FetchProgram(k, a) <=> PLP!FetchProgram(k, a)
    BY <1>2, <1>8, <1>9, <1>10, <1>11, <1>12
    DEF PL!FetchProgram, PLP!FetchProgram, PL!args, PLP!args
  <1>14. \A d : PL!FetchProgramData(d) <=> PLP!FetchProgramData(d)
    BY <1>2, <1>8, <1>9, <1>11
    DEF PL!FetchProgramData, PLP!FetchProgramData, PL!args, PLP!args
  <1>15. PL!Replenish <=> PLP!Replenish
    <2>1. \A es, e : PL!Place(es, e) = PLP!Place(es, e)
      BY DEF PL!Place, PLP!Place, PL!Later, PLP!Later
    <2>2. /\ \A es, e : PL!SameSlots(es, e) <=> PLP!SameSlots(es, e)
          /\ \A es, e : PL!Duplicate(es, e) <=> PLP!Duplicate(es, e)
      BY <2>1 DEF PL!SameSlots, PLP!SameSlots, PL!Duplicate, PLP!Duplicate,
                  PL!IsTombstone, PLP!IsTombstone
    <2>3. /\ \A es, e : PL!Replenished(es, e) = PLP!Replenished(es, e)
          /\ \A es, e : PL!Deduplicated(es, e) = PLP!Deduplicated(es, e)
      BY <2>1, <2>2 DEF PL!Replenished, PLP!Replenished, PL!Deduplicated,
                        PLP!Deduplicated
    <2> QED
      BY <2>3 DEF PL!Replenish, PLP!Replenish, PL!Return, PLP!Return,
                  PL!args, PLP!args
  <1>16. \A k : PL!Find(k) = PLP!Find(k)
    BY <1>2, <1>3 DEF PL!Find, PLP!Find
  <1> QED
    BY <1>1, <1>4, <1>5, <1>6, <1>7, <1>13, <1>14, <1>15, <1>16

(* A step of replenish_program_cache. *)
LEMMA ReplenishCacheIsStep ==
  ASSUME ReplenishCache
  PROVE  PLP!Step
  <1>1. Keys # {} /\ PLP!AnyAnswer = AllAccounts
    BY AddressesAssumption DEF PLP!AnyAnswer
  <1> QED
    BY <1>1, PLSame DEF ReplenishCache, PLP!Step

(* The command drives the program loader as its own module says. *)
LEMMA PLStep ==
  ASSUME Stages, msg \in Messages, [Next]_vars
  PROVE  [PLP!Next]_PLP!vars
  <1>1. UNCHANGED plvars => UNCHANGED PLP!vars
    BY DEF plvars, PLP!vars
  <1>2. CASE TransactionLoaded
    <2>1. UNCHANGED plvars \/ PLP!Call(msg.keys, clock_slot)
      BY <1>2, PLSame DEF TransactionLoaded
    <2>2. clock_slot \in Slots /\ msg.keys \in {m.keys : m \in Messages}
      BY <1>2 DEF TransactionLoaded, Stages
    <2> QED
      BY <1>1, <2>1, <2>2 DEF PLP!Next
  <1>3. CASE ReplenishCache
    BY <1>3, ReplenishCacheIsStep DEF PLP!Next
  <1>4. Next => TransactionLoaded \/ ReplenishCache \/ UNCHANGED plvars
    BY DEF Next, Step, Finished, GetClock, ReadProgram, LoadTransaction,
           CacheReplenished, Process, vars
  <1>5. UNCHANGED vars => UNCHANGED plvars
    BY DEF vars
  <1> QED
    BY <1>1, <1>2, <1>3, <1>4, <1>5

-----------------------------------------------------------------------------
(* The closure. *)

(* What the closure has answered before stays an answer of it. *)
Grows ==
  /\ \A k, a : Seen(k, a) => SeenIn(file', memo', lost', k, a)
  /\ lost \subseteq lost'

(* A call of the closure keeps what it answered and adds its answer. *)
LEMMA ClosureSeen ==
  ASSUME MemoSeen, NEW k \in Keys, NEW a \in AllAccounts, G(k, a),
         UNCHANGED file
  PROVE  Grows /\ MemoSeen' /\ SeenIn(file', memo', lost', k, a)
  <1>1. CASE k = ProgramId
    <2>1. a = Account(BpfLoader, file) /\ UNCHANGED <<memo, lost>>
      BY <1>1 DEF G, MemoClosure, RawClosure, closure
    <2> QED
      BY <1>1, <2>1 DEF Grows, MemoSeen, Seen, SeenIn, Genuine
  <1>2. CASE ~Memoised /\ k # ProgramId
    <2>1. Request(k, a) /\ UNCHANGED memo
      BY <1>2 DEF G, RawClosure
    <2>2. lost \subseteq lost' /\ Genuine(file', lost', k, a)
      BY <1>2, <2>1 DEF Request, Genuine
    <2> QED
      BY <1>2, <2>1, <2>2 DEF Grows, MemoSeen, Seen, SeenIn, Genuine
  <1>3. CASE Memoised /\ k # ProgramId /\ k \in DOMAIN memo
    <2>1. a = memo[k] /\ UNCHANGED <<memo, lost>>
      BY <1>3 DEF G, MemoClosure, closure
    <2> QED
      BY <1>3, <2>1 DEF Grows, MemoSeen, Seen, SeenIn, Genuine
  <1>4. CASE Memoised /\ k # ProgramId /\ k \notin DOMAIN memo
    <2>1. Request(k, a) /\ Remember(k, a)
      BY <1>4 DEF G, MemoClosure
    <2>2. lost \subseteq lost' /\ Genuine(file', lost', k, a)
      BY <1>4, <2>1 DEF Request, Genuine
    <2>3. /\ DOMAIN memo' = DOMAIN memo \union {k}
          /\ memo'[k] = a
          /\ \A j \in DOMAIN memo : memo'[j] = memo[j]
      BY <1>4, <2>1 DEF Remember
    <2>4. SeenIn(file', memo', lost', k, a)
      BY <2>2, <2>3 DEF SeenIn
    <2>5. Grows
      BY <1>4, <2>2, <2>3 DEF Grows, Seen, SeenIn, Genuine
    <2>6. MemoSeen'
      BY <1>4, <2>3, <2>4, <2>5 DEF Grows, MemoSeen, Seen
    <2> QED
      BY <2>4, <2>5, <2>6
  <1> QED
    BY <1>1, <1>2, <1>3, <1>4, ParametersAssumption

(* A step that asks nothing. *)
LEMMA ClosureUnasked ==
  ASSUME MemoSeen, UNCHANGED <<closure, file>>
  PROVE  Grows /\ MemoSeen'
  BY DEF Grows, MemoSeen, Seen, closure

(* What a loader has seen it has seen also after another call. *)
LEMMA SeenKept ==
  ASSUME Grows
  PROVE  /\ AccountsSeen /\ UNCHANGED <<msg, accounts>> => AccountsSeen'
         /\ ScannedSeen /\ UNCHANGED <<keys, scanned>> => ScannedSeen'
         /\ AnswersSeen /\ UNCHANGED answers => AnswersSeen'
         /\ LoadingSeen /\ UNCHANGED loading => LoadingSeen'
  BY DEF Grows, Seen, AccountsSeen, FromRpc, ScannedSeen, AnswersSeen,
         LoadingSeen

(* The chain stays where it leads when the transaction loader does nothing *)
(* while more requests are lost.                                           *)
LEMMA ChainedKept ==
  ASSUME Chained, lost \subseteq lost', UNCHANGED tlvars
  PROVE  Chained'
  BY DEF Chained, OnTheWay, Chain, Root, tlvars

-----------------------------------------------------------------------------
(* The command's own steps. *)

(* The command starts in a state of the invariant. *)
LEMMA InitInvariant == Init => IInv
  <1> SUFFICES ASSUME Init
               PROVE  IInv
    OBVIOUS
  <1>1. TLP!IInv /\ PLP!IInv
    BY TLSame, PLSame, TLInvariant, PLInvariant DEF Init
  <1>2. /\ stage = "clock" /\ file = None /\ DOMAIN memo = {}
        /\ features = Features /\ outcome.kind = "none"
    BY DEF Init
  <1>3. /\ accounts = <<>> /\ program_indices = <<>> /\ tl_pc = "accounts"
        /\ tl_result = "none" /\ account_indices = <<>>
    BY DEF Init, TL!Init
  <1>4. /\ pl_pc = "idle" /\ pl_result = "none" /\ keys = <<>>
        /\ scanned = <<>> /\ loading = [key |-> None, account |-> None]
        /\ batch = PL!Empty /\ answers = [k \in Keys |-> {}] /\ calls = 0
    BY DEF Init, PL!Init
  <1>5. Fresh /\ Uncalled /\ Stages
    BY <1>2, <1>3, <1>4 DEF Fresh, Uncalled, Stages
  <1>6. MemoSeen /\ AccountsSeen /\ ScannedSeen /\ AnswersSeen /\ LoadingSeen
    BY <1>2, <1>3, <1>4, AddressesAssumption
    DEF MemoSeen, AccountsSeen, ScannedSeen, AnswersSeen, LoadingSeen
  <1>7. Chained
    BY <1>3 DEF Chained
  <1>8. BuiltinsKept
    BY <1>4 DEF BuiltinsKept, PL!Empty
  <1>9. Outcomes
    BY <1>2 DEF Outcomes
  <1> QED
    BY <1>1, <1>5, <1>6, <1>7, <1>8, <1>9 DEF IInv, Own

(* What is left alone stays right. *)
LEMMA OthersKept ==
  ASSUME Own
  PROVE  /\ UNCHANGED plvars => BuiltinsKept'
         /\ stage # "done" /\ UNCHANGED outcome => Outcomes'
  <1>1. ASSUME UNCHANGED plvars
        PROVE  BuiltinsKept'
    BY <1>1 DEF Own, plvars, BuiltinsKept, PL!builtin_programs
  <1>2. ASSUME stage # "done", UNCHANGED outcome
        PROVE  Outcomes'
    BY <1>2 DEF Own, Stages, Outcomes
  <1> QED
    BY <1>1, <1>2

(* The clock is asked for. *)
LEMMA GetClockStep ==
  ASSUME Own, GetClock
  PROVE  Own'
  <1>1. /\ stage = "clock" /\ stage' \in {"done", "file"}
        /\ UNCHANGED <<file, closure, tlvars, plvars>>
        /\ \/ UNCHANGED outcome /\ stage' = "file" /\ clock_slot' \in Slots
           \/ outcome' = [kind |-> "error", what |-> "Rpc"] /\ stage' = "done"
    BY DEF GetClock, Done
  <1>2. Fresh' /\ Uncalled' /\ Stages'
    BY <1>1 DEF Own, Fresh, Uncalled, Stages, closure, tlvars, plvars, PL!Empty
  <1>3. Grows /\ MemoSeen'
    BY <1>1, ClosureUnasked DEF Own
  <1>4. AccountsSeen' /\ ScannedSeen' /\ AnswersSeen' /\ LoadingSeen'
    BY <1>1, <1>3, SeenKept DEF Own, tlvars, plvars
  <1>5. Chained' /\ BuiltinsKept'
    BY <1>1, <1>3, ChainedKept, OthersKept DEF Own, Grows
  <1>6. Outcomes'
    BY <1>1, OthersKept DEF Own, Outcomes
  <1> QED
    BY <1>2, <1>3, <1>4, <1>5, <1>6 DEF Own

(* The file is read, before anything else was. *)
LEMMA ReadProgramStep ==
  ASSUME Own, ReadProgram
  PROVE  Own'
  <1>1. /\ stage = "file" /\ stage' \in {"done", "load"}
        /\ UNCHANGED <<clock_slot, closure, tlvars, plvars>>
        /\ \/ UNCHANGED outcome /\ stage' = "load"
                /\ file' \in Elfs \union {BadElf}
           \/ outcome'.kind = "error" /\ stage' = "done"
    BY DEF ReadProgram, Done
  <1>2. Fresh' /\ Uncalled' /\ Stages'
    BY <1>1 DEF Own, Fresh, Uncalled, Stages, closure, tlvars, plvars, PL!Empty
  <1>3. /\ DOMAIN memo' = {} /\ accounts' = <<>> /\ scanned' = <<>>
        /\ answers' = [k \in Keys |-> {}] /\ loading'.key = None
        /\ lost' = lost
    BY <1>1 DEF Own, Fresh, Uncalled, closure, tlvars, plvars
  <1>4. /\ MemoSeen' /\ AccountsSeen' /\ ScannedSeen' /\ AnswersSeen'
        /\ LoadingSeen'
    BY <1>3, AddressesAssumption
    DEF MemoSeen, AccountsSeen, ScannedSeen, AnswersSeen, LoadingSeen
  <1>5. Chained' /\ BuiltinsKept'
    BY <1>1, <1>3, ChainedKept, OthersKept DEF Own
  <1>6. Outcomes'
    BY <1>1, OthersKept DEF Own, Outcomes
  <1> QED
    BY <1>2, <1>4, <1>5, <1>6 DEF Own

(* The loaders are called one after the other. *)
LEMMA TransactionLoadedStep ==
  ASSUME Own, TransactionLoaded
  PROVE  Own'
  <1>1. /\ stage = "load" /\ tl_pc = "done"
        /\ UNCHANGED <<clock_slot, file, closure, tlvars>>
    BY DEF TransactionLoaded
  <1>2. Grows /\ MemoSeen' /\ Chained'
    BY <1>1, ClosureUnasked, ChainedKept DEF Own, Grows
  <1>3. AccountsSeen'
    BY <1>1, <1>2, SeenKept DEF Own, tlvars
  <1>4. CASE tl_result = "ok" /\ stage' = "replenish" /\ UNCHANGED outcome
               /\ PL!Call(msg.keys, clock_slot)
    <2>1. /\ pl_pc' = "scan" /\ keys' = msg.keys /\ slot' = clock_slot
          /\ scanned' = <<>> /\ batch' = PL!Empty /\ pl_result' = "none"
          /\ loading' = [key |-> None, account |-> None]
          /\ UNCHANGED <<features, answers>>
      BY <1>4 DEF PL!Call
    <2>2. Fresh' /\ Uncalled' /\ Stages'
      BY <1>1, <1>4, <2>1 DEF Own, Fresh, Uncalled, Stages, tlvars
    <2>3. ScannedSeen' /\ LoadingSeen'
      BY <2>1 DEF ScannedSeen, LoadingSeen
    <2>4. AnswersSeen'
      BY <1>2, <2>1, SeenKept DEF Own
    <2>5. BuiltinsKept'
      BY <2>1 DEF BuiltinsKept, PL!Empty
    <2>6. Outcomes'
      BY <1>1, <1>4, OthersKept
    <2> QED
      BY <1>2, <1>3, <2>2, <2>3, <2>4, <2>5, <2>6 DEF Own
  <1>5. CASE stage' = "done" /\ outcome'.kind = "error" /\ UNCHANGED plvars
    <2>1. Fresh' /\ Uncalled' /\ Stages'
      BY <1>5 DEF Own, Fresh, Uncalled, Stages, plvars
    <2>2. ScannedSeen' /\ AnswersSeen' /\ LoadingSeen'
      BY <1>2, <1>5, SeenKept DEF Own, plvars
    <2>3. BuiltinsKept' /\ Outcomes'
      BY <1>5, OthersKept DEF Outcomes
    <2> QED
      BY <1>2, <1>3, <2>1, <2>2, <2>3 DEF Own
  <1> QED
    BY <1>4, <1>5 DEF TransactionLoaded, Done

(* The program loader returned, or the library panicked: neither over a    *)
(* builtin nor over the program, and not at all where the second answer    *)
(* for a key is the first.                                                 *)
LEMMA CacheReplenishedStep ==
  ASSUME IInv, CacheReplenished
  PROVE  Own'
  <1>0. Own
    BY DEF IInv
  <1>1. /\ stage = "replenish"
        /\ UNCHANGED <<clock_slot, file, closure, tlvars, plvars>>
    BY DEF CacheReplenished
  <1>2. Grows /\ MemoSeen' /\ Chained'
    BY <1>0, <1>1, ClosureUnasked, ChainedKept DEF Own, Grows
  <1>3. AccountsSeen' /\ ScannedSeen' /\ AnswersSeen' /\ LoadingSeen'
    BY <1>0, <1>1, <1>2, SeenKept DEF Own, tlvars, plvars
  <1>4. BuiltinsKept'
    BY <1>0, <1>1, OthersKept
  <1>5. CASE pl_pc = "idle" /\ pl_result = "ok" /\ stage' = "process"
               /\ UNCHANGED outcome
    <2>1. Fresh' /\ Uncalled' /\ Stages'
      BY <1>0, <1>1, <1>5 DEF Own, Fresh, Uncalled, Stages, tlvars, plvars
    <2>2. Outcomes'
      BY <1>0, <1>1, <1>5, OthersKept
    <2> QED
      BY <1>2, <1>3, <1>4, <2>1, <2>2 DEF Own
  <1>6. CASE stage' = "done" /\ outcome'.kind = "error"
    <2>1. Fresh' /\ Uncalled' /\ Stages'
      BY <1>0, <1>1, <1>6 DEF Own, Fresh, Uncalled, Stages, plvars
    <2>2. Outcomes'
      BY <1>6 DEF Outcomes
    <2> QED
      BY <1>2, <1>3, <1>4, <2>1, <2>2 DEF Own
  <1>7. CASE pl_pc = "dead" /\ stage' = "done"
               /\ outcome' = [kind |-> "panic", what |-> loading.key]
    <2>1. Fresh' /\ Uncalled' /\ Stages'
      BY <1>0, <1>1, <1>7 DEF Own, Fresh, Uncalled, Stages, plvars
    <2>2. /\ loading.account.owner \notin PL!ProgramOwners
          /\ \E i \in DOMAIN scanned :
               keys[i] = loading.key /\ scanned[i].owner \in PL!ProgramOwners
      BY <1>0, <1>7, PLSame DEF IInv, PLP!IInv, PLP!PanicsOnChange, Own,
                                BuiltinsKept
    <2>3. PICK i \in DOMAIN scanned :
            keys[i] = loading.key /\ scanned[i].owner \in PL!ProgramOwners
      BY <2>2
    <2>4. i \in 1..Len(scanned)
      BY DEF IInv, PLP!IInv, PLP!TypeOK
    <2>5. loading.key \in Keys \ PL!builtin_programs /\ loading.key # None
      BY <1>0, <1>7, ParametersAssumption DEF Own, BuiltinsKept
    <2>6. Seen(loading.key, loading.account) /\ Seen(loading.key, scanned[i])
      BY <1>0, <2>3, <2>4, <2>5 DEF Own, LoadingSeen, ScannedSeen
    <2>7. loading.key # ProgramId
      BY <2>2, <2>6 DEF Seen, SeenIn, Genuine, Account, PL!ProgramOwners
    <2>8. ~Memoised
      BY <2>2, <2>3, <2>6, <2>7 DEF Seen, SeenIn
    <2>9. PL!builtin_programs' = PL!builtin_programs
      BY <1>1 DEF plvars, PL!builtin_programs
    <2>10. Outcomes'
      BY <1>7, <2>5, <2>7, <2>8, <2>9 DEF Outcomes
    <2> QED
      BY <1>2, <1>3, <1>4, <2>1, <2>10 DEF Own
  <1> QED
    BY <1>5, <1>6, <1>7 DEF CacheReplenished, Done

-----------------------------------------------------------------------------
(* What the message processor finds. *)

(* The message names the program, where the instruction says. *)
LEMMA ProgramNamed ==
  ASSUME IInv
  PROVE  /\ msg \in Messages
         /\ Len(msg.keys) \in Nat /\ Len(msg.programs) = 1
         /\ msg.programs[1] \in 0..(Len(msg.keys) - 1)
         /\ msg.keys[msg.programs[1] + 1] = ProgramId
         /\ msg.programs[1] + 1 \in DOMAIN msg.keys
  <1>1. msg \in Messages
    BY DEF IInv, TLP!IInv, TLP!TypeOK
  <1>2. msg \in [keys : Seq(Keys), programs : Seq(Nat)]
    BY <1>1, MessageShape
  <1> QED
    BY <1>1, <1>2, MessageShape, LenProperties

(* The loader has to be called: it is an enabled builtin, and a builtin is *)
(* found as one.                                                           *)
LEMMA BuiltinsFound ==
  ASSUME IInv, stage = "process"
  PROVE  /\ BpfLoader \in PL!builtin_programs
         /\ PL!builtin_programs \subseteq DOMAIN batch
         /\ \A b \in PL!builtin_programs : PL!Find(b).type = "Builtin"
         /\ Chain # <<>> /\ OnTheWay(lost, Root)
  <1>1. BpfLoader \in PL!builtin_programs
    BY AddressesAssumption, ParametersAssumption
    DEF IInv, Own, Stages, PL!builtin_programs
  <1>2. PL!builtin_programs \subseteq DOMAIN batch
    BY PLSame DEF IInv, Own, Stages, PLP!IInv, PLP!BatchComplete
  <1>3. \A b \in PL!builtin_programs : PL!Find(b).type = "Builtin"
    BY <1>2 DEF IInv, Own, BuiltinsKept, PL!Find, PL!Delayed
  <1>4. Chain # <<>> /\ OnTheWay(lost, Root)
    <2>1. program_indices # <<>>
      <3>1. Len(program_indices) = 1
        BY DEF IInv, Own, Stages, Chained
      <3> QED
        BY <3>1, EmptySeq
    <2> QED
      BY <2>1 DEF IInv, Own, Chained
  <1> QED
    BY <1>1, <1>2, <1>3, <1>4

(* The program is in the batch, and it is the file's. *)
LEMMA ProgramFound ==
  ASSUME IInv, stage = "process"
  PROVE  /\ ProgramId \in DOMAIN batch
         /\ PL!Find(ProgramId).type = "Loaded" =>
              PL!Find(ProgramId).elf = file /\ file # BadElf
         /\ file # BadElf /\ clock_slot > 0 =>
              PL!Find(ProgramId).type = "Loaded"
  <1>1. /\ pl_result = "ok" /\ keys = msg.keys /\ slot = clock_slot
        /\ Len(scanned) = Len(keys)
    BY DEF IInv, Own, Stages, BuiltinsKept
  <1> DEFINE p == msg.programs[1] + 1
  <1>2. p \in DOMAIN keys /\ p \in 1..Len(scanned) /\ keys[p] = ProgramId
    BY <1>1, ProgramNamed
  <1> HIDE DEF p
  <1>3. scanned[p].owner \in PL!ProgramOwners
    <2>1. Seen(ProgramId, scanned[p])
      BY <1>2 DEF IInv, Own, ScannedSeen
    <2> QED
      BY <2>1 DEF Seen, SeenIn, Genuine, Account, PL!ProgramOwners
  <1>4. ProgramId \in DOMAIN batch
    BY <1>1, <1>2, <1>3, PLSame DEF IInv, PLP!IInv, PLP!BatchComplete
  <1>5. ProgramId \notin PL!builtin_programs
    BY AddressesAssumption DEF PL!builtin_programs
  <1>6. PLP!BatchFaithful
    BY PLAssumptions, PLP!BatchIsFaithful DEF IInv
  <1>7. PICK a \in answers[ProgramId] :
          \E d \in PLP!DataAnswers(answers, a) :
            PLP!Outcome(PL!Find(ProgramId).type, PL!Find(ProgramId).elf)
              = PLP!Deployed(DelayVisibility \in features, a, d, slot)
    BY <1>1, <1>4, <1>5, <1>6, PLSame DEF PLP!BatchFaithful
  <1>8. a = Account(BpfLoader, file) /\ a # None
    BY AllAccountsTyped DEF IInv, Own, AnswersSeen, Seen, SeenIn, Genuine
  <1> DEFINE hidden == DelayVisibility \in features /\ slot = 0
  <1>9. \A d : PLP!Deployed(DelayVisibility \in features, a, d, slot)
                = PLP!Runs(file, hidden)
    BY <1>8 DEF PLP!Deployed, Account
  <1>10. /\ PL!Find(ProgramId).type = PLP!Runs(file, hidden).type
         /\ PL!Find(ProgramId).elf = PLP!Runs(file, hidden).elf
    BY <1>7, <1>9 DEF PLP!Outcome, PLP!Runs
  <1> HIDE DEF hidden
  <1>11. PL!Find(ProgramId).type = "Loaded" =>
           PL!Find(ProgramId).elf = file /\ file # BadElf
    BY <1>10 DEF PLP!Runs, PLP!Outcome
  <1>12. ASSUME file # BadElf, clock_slot > 0
         PROVE  PL!Find(ProgramId).type = "Loaded"
    <2>1. ~hidden
      BY <1>1, <1>12, ParametersAssumption DEF hidden, IInv, Own, Stages
    <2> QED
      BY <1>10, <1>12, <2>1 DEF PLP!Runs, PLP!Outcome
  <1> QED
    BY <1>4, <1>11, <1>12

(* The message is processed. *)
LEMMA ProcessStep ==
  ASSUME IInv, Process
  PROVE  Own'
  <1>0. Own
    BY DEF IInv
  <1>1. /\ stage = "process" /\ stage' = "done"
        /\ UNCHANGED <<clock_slot, file, closure, tlvars, plvars>>
    BY DEF Process, Done
  <1>2. Grows /\ MemoSeen' /\ Chained'
    BY <1>0, <1>1, ClosureUnasked, ChainedKept DEF Own, Grows
  <1>3. AccountsSeen' /\ ScannedSeen' /\ AnswersSeen' /\ LoadingSeen'
    BY <1>0, <1>1, <1>2, SeenKept DEF Own, tlvars, plvars
  <1>4. BuiltinsKept'
    BY <1>0, <1>1, OthersKept
  <1>5. Fresh' /\ Uncalled' /\ Stages'
    BY <1>0, <1>1 DEF Own, Fresh, Uncalled, Stages, plvars
  <1>6. \/ outcome'.kind = "error"
        \/ outcome' = [kind |-> "builtin", what |-> Root] /\ Root # BpfLoader
        \/ /\ PL!Find(ProgramId).type = "Loaded"
           /\ outcome' = [kind |-> "ran", what |-> PL!Find(ProgramId).elf]
    BY DEF Process, Done
  <1>7. Outcomes'
    <2>1. CASE outcome'.kind = "error"
      BY <2>1 DEF Outcomes
    <2>2. CASE outcome' = [kind |-> "builtin", what |-> Root] /\ Root # BpfLoader
      <3>1. Root = SystemProgram /\ BpfLoader \in lost'
        BY <1>1, <2>2, BuiltinsFound DEF OnTheWay, closure
      <3> QED
        BY <2>2, <3>1 DEF Outcomes
    <2>3. CASE /\ PL!Find(ProgramId).type = "Loaded"
               /\ outcome' = [kind |-> "ran", what |-> PL!Find(ProgramId).elf]
      <3>1. PL!Find(ProgramId).elf = file' /\ file' # BadElf
        BY <1>1, <2>3, ProgramFound
      <3> QED
        BY <2>3, <3>1 DEF Outcomes
    <2> QED
      BY <1>6, <2>1, <2>2, <2>3
  <1> QED
    BY <1>2, <1>3, <1>4, <1>5, <1>7 DEF Own

-----------------------------------------------------------------------------
(* The program loader's steps. *)

(* What they leave alone. *)
Replenishing ==
  /\ stage = "replenish"
  /\ UNCHANGED <<stage, clock_slot, file, outcome, tlvars>>
  /\ UNCHANGED <<features, keys, slot>>
LEMMA ReplenishingKeeps ==
  ASSUME Own, Replenishing, Grows
  PROVE  /\ Fresh' /\ Uncalled' /\ Stages' /\ AccountsSeen' /\ Chained'
         /\ Outcomes'
         /\ PL!builtin_programs' = PL!builtin_programs
  <1>1. Fresh' /\ Uncalled' /\ Stages'
    BY DEF Own, Replenishing, Fresh, Uncalled, Stages, tlvars
  <1>2. AccountsSeen' /\ Chained'
    BY SeenKept, ChainedKept DEF Own, Replenishing, Grows, tlvars
  <1>3. Outcomes'
    BY OthersKept DEF Replenishing
  <1>4. PL!builtin_programs' = PL!builtin_programs
    BY DEF Replenishing, PL!builtin_programs
  <1> QED
    BY <1>1, <1>2, <1>3, <1>4

(* The keys of the message are asked for. *)
LEMMA ScanStep ==
  ASSUME IInv, Replenishing, NEW a \in AllAccounts, PL!Scan(a),
         G(keys[Len(scanned) + 1], a)
  PROVE  Own'
  <1>0. Own /\ MemoSeen /\ UNCHANGED file
    BY DEF IInv, Own, Replenishing
  <1> DEFINE n == Len(scanned)
             k == keys[n + 1]
  <1>1. n \in Nat /\ scanned \in Seq(PL!Accounts \union {None})
    BY PLSame, LenProperties DEF IInv, PLP!IInv, PLP!TypeOK
  <1>2. /\ pl_pc = "scan" /\ n < Len(keys)
        /\ scanned' = Append(scanned, a)
        /\ UNCHANGED <<loading, batch, answers>>
        /\ UNCHANGED <<pl_pc, pl_result>>
    BY AllAccountsTyped DEF PL!Scan
  <1>3. k \in Keys
    BY <1>1, <1>2, LenProperties, ElementOfSeq DEF IInv, PLP!IInv, PLP!TypeOK
  <1>4. Grows /\ MemoSeen' /\ SeenIn(file', memo', lost', k, a)
    BY <1>0, <1>3, ClosureSeen
  <1>5. ScannedSeen'
    <2>1. /\ Len(scanned') = n + 1 /\ scanned'[n + 1] = a
          /\ \A i \in 1..n : scanned'[i] = scanned[i]
      BY <1>1, <1>2, AllAccountsTyped, AppendProperties
    <2>2. \A i \in 1..n : SeenIn(file', memo', lost', keys[i], scanned[i])
      BY <1>0, <1>4 DEF Own, ScannedSeen, Grows
    <2>3. ASSUME NEW i \in 1..(n + 1)
          PROVE  SeenIn(file', memo', lost', keys[i], scanned'[i])
      <3>1. CASE i \in 1..n
        BY <2>1, <2>2, <3>1
      <3>2. CASE i = n + 1
        BY <1>4, <2>1, <3>2
      <3> QED
        BY <1>1, <3>1, <3>2
    <2> QED
      BY <2>1, <2>3 DEF ScannedSeen, Seen, Replenishing
  <1>6. AnswersSeen' /\ LoadingSeen'
    BY <1>0, <1>2, <1>4, SeenKept DEF Own
  <1>7. BuiltinsKept'
    <2>1. pl_result' = "none"
      BY <1>2 DEF IInv, PLP!IInv, PLP!Phases
    <2> QED
      BY <1>0, <1>2, <1>4, <2>1, ReplenishingKeeps DEF Own, BuiltinsKept
  <1> QED
    BY <1>0, <1>4, <1>5, <1>6, <1>7, ReplenishingKeeps DEF Own

(* The cache is asked. *)
LEMMA ExtractStep ==
  ASSUME IInv, Replenishing, PL!Extract, UNCHANGED closure
  PROVE  Own'
  <1>0. Own /\ Grows /\ MemoSeen'
    BY ClosureUnasked DEF IInv, Own, Replenishing
  <1>1. /\ pl_pc = "scan" /\ pl_pc' = "load"
        /\ UNCHANGED <<scanned, loading, pl_result, answers>>
        /\ \A k \in DOMAIN batch' : batch'[k] = PLP!Extracted(k, slot)
    BY PLSame DEF PLP!Extract, PLP!args
  <1>2. ScannedSeen' /\ AnswersSeen' /\ LoadingSeen'
    BY <1>0, <1>1, SeenKept DEF Own, Replenishing
  <1>3. BuiltinsKept'
    <2>1. pl_result' = "none"
      BY <1>1 DEF IInv, PLP!IInv, PLP!Phases
    <2>2. \A b \in PL!builtin_programs : PLP!Extracted(b, slot).type = "Builtin"
      BY PLAssumptions, PLP!BuiltinExtracted, PLSame DEF IInv
    <2> QED
      BY <1>0, <1>1, <2>1, <2>2, ReplenishingKeeps DEF BuiltinsKept
  <1> QED
    BY <1>0, <1>2, <1>3, ReplenishingKeeps DEF Own

(* What either fetch of load_program may do. *)
LEMMA FetchEffects ==
  /\ \A k, e : PL!Load(k, e) => pl_pc' = "load" /\ UNCHANGED pl_result
  /\ \A k, a, o, d : PL!FromBytes(k, a, o, d) =>
       \/ pl_pc' = "load" /\ UNCHANGED pl_result
       \/ pl_pc' = "dead" /\ pl_result' = "panic"
  BY DEF PL!Load, PL!FromBytes, PL!Panic

(* A program's account is asked for. *)
LEMMA FetchProgramStep ==
  ASSUME IInv, Replenishing, NEW k \in missing, NEW a \in AllAccounts,
         PL!FetchProgram(k, a), G(k, a)
  PROVE  Own'
  <1>0. Own /\ MemoSeen /\ UNCHANGED file
    BY DEF IInv, Own, Replenishing
  <1>1. /\ pl_pc = "load" /\ UNCHANGED <<scanned, batch>>
        /\ loading' = [key |-> k, account |-> a]
        /\ answers' = [answers EXCEPT ![k] = @ \union {a}]
    BY DEF PL!FetchProgram, PL!Answered
  <1>2. \/ pl_pc' \in {"load", "data"} /\ UNCHANGED pl_result
        \/ pl_pc' = "dead" /\ pl_result' = "panic"
    BY FetchEffects DEF PL!FetchProgram, PL!FromV4
  <1>3. /\ k \in Keys /\ k \notin PL!builtin_programs
        /\ pl_result = "none"
        /\ answers \in [Keys -> SUBSET (PL!Accounts \union {None})]
    BY <1>1, PLSame DEF IInv, PLP!IInv, PLP!TypeOK, PLP!BuiltinsCached,
                        PLP!Phases, PLP!AnswerSets
  <1>4. Grows /\ MemoSeen' /\ SeenIn(file', memo', lost', k, a)
    BY <1>0, <1>3, ClosureSeen
  <1>5. ScannedSeen'
    BY <1>0, <1>1, <1>4, SeenKept DEF Own, Replenishing
  <1>6. AnswersSeen'
    <2>1. \A b \in answers'[ProgramId] :
            b \in answers[ProgramId] \/ (b = a /\ k = ProgramId)
      BY <1>1, <1>3, AddressesAssumption
    <2> QED
      BY <1>0, <1>4, <2>1 DEF Own, AnswersSeen, Grows, Seen
  <1>7. LoadingSeen'
    BY <1>1, <1>4 DEF LoadingSeen, Seen
  <1>8. BuiltinsKept'
    BY <1>0, <1>1, <1>2, <1>3, <1>4, ReplenishingKeeps DEF Own, BuiltinsKept
  <1> QED
    BY <1>0, <1>4, <1>5, <1>6, <1>7, <1>8, ReplenishingKeeps DEF Own

(* The account of a program's data is asked for. *)
LEMMA FetchProgramDataStep ==
  ASSUME IInv, Replenishing, NEW d \in AllAccounts,
         PL!FetchProgramData(d), G(loading.account.target, d)
  PROVE  Own'
  <1>0. Own /\ MemoSeen /\ UNCHANGED file
    BY DEF IInv, Own, Replenishing
  <1> DEFINE k == loading.account.target
  <1>1. /\ pl_pc = "data" /\ UNCHANGED <<scanned, batch, loading>>
        /\ answers' = [answers EXCEPT ![k] = @ \union {d}]
    BY DEF PL!FetchProgramData, PL!Answered
  <1>2. \/ pl_pc' \in {"load", "data"} /\ UNCHANGED pl_result
        \/ pl_pc' = "dead" /\ pl_result' = "panic"
    BY FetchEffects DEF PL!FetchProgramData
  <1>3. /\ loading.key \in Keys /\ loading.key \notin PL!builtin_programs
        /\ pl_result = "none"
        /\ answers \in [Keys -> SUBSET (PL!Accounts \union {None})]
    BY <1>0, <1>1, PLSame DEF Own, BuiltinsKept, IInv, PLP!IInv, PLP!Phases,
                              PLP!AnswerSets
  <1>4. k \in Keys
    <2>1. loading.account \in PL!Accounts
      BY <1>0, <1>3, ParametersAssumption, AllAccountsTyped
      DEF Own, LoadingSeen, Seen, SeenIn
    <2> QED
      BY <2>1 DEF PL!Accounts
  <1>5. Grows /\ MemoSeen' /\ SeenIn(file', memo', lost', k, d)
    BY <1>0, <1>4, ClosureSeen
  <1>6. ScannedSeen' /\ LoadingSeen'
    BY <1>0, <1>1, <1>5, SeenKept DEF Own, Replenishing
  <1> HIDE DEF k
  <1>7. AnswersSeen'
    <2>1. \A b \in answers'[ProgramId] :
            b \in answers[ProgramId] \/ (b = d /\ k = ProgramId)
      BY <1>1, <1>3, <1>4, AddressesAssumption
    <2> QED
      BY <1>0, <1>5, <2>1 DEF Own, AnswersSeen, Grows, Seen
  <1>8. BuiltinsKept'
    BY <1>0, <1>1, <1>2, <1>3, <1>5, ReplenishingKeeps DEF Own, BuiltinsKept
  <1> QED
    BY <1>0, <1>5, <1>6, <1>7, <1>8, ReplenishingKeeps DEF Own

(* The batch is completed. *)
LEMMA ReplenishStep ==
  ASSUME IInv, Replenishing, PL!Replenish, UNCHANGED closure
  PROVE  Own'
  <1>0. Own /\ Grows /\ MemoSeen'
    BY ClosureUnasked DEF IInv, Own, Replenishing
  <1>1. /\ pl_pc = "load" /\ pl_pc' = "idle"
        /\ UNCHANGED <<scanned, loading, answers>>
        /\ DOMAIN batch' = DOMAIN batch \union missing
        /\ \A k \in DOMAIN batch \ missing : batch'[k] = batch[k]
    BY DEF PL!Replenish, PL!Return
  <1>2. ScannedSeen' /\ AnswersSeen' /\ LoadingSeen'
    BY <1>0, <1>1, SeenKept DEF Own, Replenishing
  <1>3. BuiltinsKept'
    <2>1. missing \cap PL!builtin_programs = {} /\ Len(scanned) = Len(keys)
      BY <1>1, PLSame DEF IInv, PLP!IInv, PLP!BuiltinsCached, PLP!Collected
    <2> QED
      BY <1>0, <1>1, <2>1, ReplenishingKeeps DEF Own, BuiltinsKept, Replenishing
  <1> QED
    BY <1>0, <1>2, <1>3, ReplenishingKeeps DEF Own

(* One step of replenish_program_cache. *)
LEMMA ReplenishCacheStep ==
  ASSUME IInv, ReplenishCache
  PROVE  Own'
  <1>1. /\ stage = "replenish"
        /\ UNCHANGED <<stage, clock_slot, file, outcome, tlvars>>
    BY DEF ReplenishCache
  <1>2. UNCHANGED <<features, keys, slot>> => Replenishing
    BY <1>1 DEF Replenishing
  <1>3. ASSUME NEW a \in AllAccounts, PL!Scan(a), G(keys[Len(scanned) + 1], a)
        PROVE  Own'
    BY <1>2, <1>3, ScanStep DEF PL!Scan, PL!args
  <1>4. ASSUME PL!Extract, UNCHANGED closure
        PROVE  Own'
    BY <1>2, <1>4, ExtractStep DEF PL!Extract, PL!args
  <1>5. ASSUME NEW k \in missing, NEW a \in AllAccounts, PL!FetchProgram(k, a),
               G(k, a)
        PROVE  Own'
    BY <1>2, <1>5, FetchProgramStep DEF PL!FetchProgram, PL!args
  <1>6. ASSUME NEW a \in AllAccounts, PL!FetchProgramData(a),
               G(loading.account.target, a)
        PROVE  Own'
    BY <1>2, <1>6, FetchProgramDataStep DEF PL!FetchProgramData, PL!args
  <1>7. ASSUME PL!Replenish, UNCHANGED closure
        PROVE  Own'
    BY <1>2, <1>7, ReplenishStep DEF PL!Replenish, PL!args
  <1> QED
    BY <1>3, <1>4, <1>5, <1>6, <1>7 DEF ReplenishCache

-----------------------------------------------------------------------------
(* The transaction loader's steps. *)

(* What is known of the transaction loader's state. *)
LEMMA LoaderTypes ==
  ASSUME IInv
  PROVE  /\ accounts \in Seq([key : Keys, owner : Keys])
         /\ Len(accounts) \in Nat
         /\ \A i \in 1..Len(accounts) : accounts[i] \in [key : Keys, owner : Keys]
         /\ program_index \in Nat
         /\ account_indices \in Seq(Nat)
         /\ program_indices \in Seq(Seq(Nat)) /\ Len(program_indices) \in Nat
         /\ tl_pc \in {"instructions", "chain"} =>
              builtins_start_index = Len(msg.keys)
                /\ Len(msg.keys) <= Len(accounts)
         /\ tl_pc # "done" => tl_result = "none"
         /\ tl_pc = "chain" => program_indices = <<>>
  <1>1. TLP!TypeOK
    BY DEF IInv, TLP!IInv
  <1>2. /\ accounts \in Seq([key : Keys, owner : Keys])
        /\ program_index \in Nat /\ account_indices \in Seq(Nat)
        /\ program_indices \in Seq(Seq(Nat))
    BY <1>1 DEF TLP!TypeOK
  <1>3. tl_pc = "chain" => program_indices = <<>>
    <2>1. tl_pc = "chain" => Len(program_indices) < 1
      BY ProgramNamed DEF IInv, TLP!IInv, TLP!Current
    <2> QED
      BY <1>2, <2>1, LenProperties, EmptySeq
  <1> QED
    BY <1>2, <1>3, LenProperties, ElementOfSeq DEF IInv, TLP!IInv, TLP!Phases

(* A step adds at most one account. *)
LEMMA StepAccounts ==
  ASSUME IInv, TL!Step
  PROVE  /\ UNCHANGED msg
         /\ \/ UNCHANGED accounts
            \/ /\ \E e \in [key : Keys, owner : Keys] :
                    accounts' = Append(accounts, e)
               /\ \/ tl_pc = "chain"
                  \/ tl_pc = "accounts" /\ Len(accounts) < Len(msg.keys)
  <1>1. CASE TL!LoadAccount
    <2> DEFINE key == msg.keys[Len(accounts) + 1]
    <2>1. tl_pc = "accounts" /\ Len(accounts) < Len(msg.keys)
      BY <1>1 DEF TL!LoadAccount
    <2>2. msg \in [keys : Seq(Keys), programs : Seq(Nat)]
      BY ProgramNamed, MessageShape
    <2>3. key \in Keys
      BY <2>1, <2>2, LoaderTypes, LenProperties, ElementOfSeq
    <2> QED
      BY <1>1, <2>1, <2>3, AddressesAssumption DEF TL!LoadAccount, TL!Entry
  <1>2. CASE TL!ChainStep
    <2>1. tl_pc = "chain" /\ UNCHANGED msg
      BY <1>2 DEF TL!ChainStep
    <2>2. CASE UNCHANGED accounts
      BY <2>1, <2>2
    <2>3. CASE /\ program_index < Len(accounts)
               /\ \E owner \in Keys :
                    accounts' = TL!Pushed(TL!Entry(TL!Program.owner, owner))
      <3>1. TL!Program.owner \in Keys
        <4>1. program_index + 1 \in 1..Len(accounts)
          BY <2>3, LoaderTypes
        <4> QED
          BY <4>1, LoaderTypes DEF TL!Program
      <3> QED
        BY <2>1, <2>3, <3>1 DEF TL!Pushed, TL!Entry
    <2> QED
      BY <1>2, <2>2, <2>3 DEF TL!ChainStep, TL!Fail, TL!FinishChain
  <1>3. CASE TL!AccountsLoaded \/ TL!StartChain \/ TL!TooDeep \/ TL!Finish
    BY <1>3 DEF TL!AccountsLoaded, TL!StartChain, TL!TooDeep, TL!Finish, TL!Fail
  <1> QED
    BY <1>1, <1>2, <1>3 DEF TL!Step

(* An account that is added was answered by the closure, unless it is the  *)
(* message's instructions sysvar.                                          *)
LEMMA AccountsSeenStep ==
  ASSUME IInv, LoadTransaction
  PROVE  Grows /\ MemoSeen' /\ AccountsSeen'
  <1>0. Own /\ MemoSeen /\ UNCHANGED file /\ TL!Step
    BY DEF IInv, Own, LoadTransaction
  <1> DEFINE n == Len(accounts)
  <1>1. n \in Nat /\ Len(msg.keys) \in Nat
    BY LoaderTypes, ProgramNamed
  <1>2. CASE UNCHANGED accounts
    <2>1. UNCHANGED msg
      BY <1>0, StepAccounts
    <2>2. UNCHANGED closure
      BY <1>1, <1>2 DEF LoadTransaction, Fetched
    <2>3. Grows /\ MemoSeen'
      BY <1>0, <2>2, ClosureUnasked
    <2> QED
      BY <1>0, <1>2, <2>1, <2>3, SeenKept DEF Own
  <1>3. ASSUME NEW e \in [key : Keys, owner : Keys],
               accounts' = Append(accounts, e), UNCHANGED msg,
               tl_pc = "chain" \/ (tl_pc = "accounts" /\ n < Len(msg.keys))
        PROVE  Grows /\ MemoSeen' /\ AccountsSeen'
    <2>1. /\ Len(accounts') = n + 1 /\ accounts'[n + 1] = e
          /\ \A i \in 1..n : accounts'[i] = accounts[i]
      BY <1>3, LoaderTypes, AppendProperties
    <2>2. Fetched /\ Added = e
      BY <1>1, <2>1 DEF Fetched, Added
    <2>3. /\ Grows /\ MemoSeen'
          /\ \/ /\ n + 1 <= Len(msg.keys)
                /\ e.key = InstructionsSysvar
             \/ \E a \in AllAccounts :
                  SeenIn(file', memo', lost', e.key, a) /\ a.owner = e.owner
      <3>1. CASE Asked
        <4>1. PICK a \in AllAccounts : G(e.key, a) /\ a.owner = e.owner
          BY <2>2, <3>1 DEF LoadTransaction
        <4> QED
          BY <1>0, <4>1, ClosureSeen
      <3>2. CASE ~Asked
        <4>1. UNCHANGED closure
          BY <2>2, <3>2 DEF LoadTransaction
        <4>2. n + 1 <= Len(msg.keys) /\ e.key = InstructionsSysvar
          BY <1>1, <1>3, <2>2, <3>2 DEF Asked
        <4> QED
          BY <1>0, <4>1, <4>2, ClosureUnasked
      <3> QED
        BY <3>1, <3>2
    <2>4. ASSUME NEW i \in 1..(n + 1),
                 i > Len(msg.keys) \/ accounts'[i].key # InstructionsSysvar
          PROVE  \E a \in AllAccounts :
                   SeenIn(file', memo', lost', accounts'[i].key, a)
                     /\ a.owner = accounts'[i].owner
      <3>1. CASE i \in 1..n
        <4>1. PICK a \in AllAccounts :
                Seen(accounts[i].key, a) /\ a.owner = accounts[i].owner
          BY <1>0, <2>1, <2>4, <3>1 DEF Own, AccountsSeen, FromRpc
        <4> QED
          BY <2>1, <2>3, <3>1, <4>1 DEF Grows
      <3>2. CASE i = n + 1
        BY <1>1, <2>1, <2>3, <2>4, <3>2
      <3> QED
        BY <1>1, <3>1, <3>2
    <2> QED
      BY <1>3, <2>1, <2>3, <2>4 DEF AccountsSeen, FromRpc, Seen
  <1> QED
    BY <1>0, <1>2, <1>3, StepAccounts

(* Where the chain goes from the account it has reached. *)
LEMMA NextOnTheWay ==
  ASSUME IInv, tl_pc = "chain", program_index < Len(accounts)
  PROVE  /\ TL!Program.key # NativeLoader
         /\ account_indices = <<>> => TL!Program.owner = BpfLoader
         /\ TL!Program.owner # NativeLoader => OnTheWay(lost, TL!Program.owner)
  <1> DEFINE i == program_index + 1
  <1>1. i \in 1..Len(accounts) /\ TL!Program = accounts[i]
    BY LoaderTypes DEF TL!Program
  <1> HIDE DEF i
  <1>2. FromRpc(i) =>
          \E a \in AllAccounts :
            Seen(accounts[i].key, a) /\ a.owner = accounts[i].owner
    BY <1>1 DEF IInv, Own, AccountsSeen
  <1>3. CASE account_indices = <<>>
    <2>1. i = msg.programs[1] + 1 /\ i <= Len(msg.keys)
      BY <1>3, ProgramNamed DEF IInv, Own, Chained, i
    <2>2. accounts[i].key = ProgramId
      BY <1>1, <2>1, ProgramNamed DEF IInv, TLP!IInv, TLP!MessageAccountsFirst
    <2>3. accounts[i].owner = BpfLoader
      BY <1>2, <2>2, AddressesAssumption
      DEF FromRpc, Seen, SeenIn, Genuine, Account
    <2> QED
      BY <1>1, <2>2, <2>3, AddressesAssumption DEF OnTheWay
  <1>4. CASE account_indices # <<>>
    <2>1. i > Len(msg.keys) /\ OnTheWay(lost, accounts[i].key)
      BY <1>4, LoaderTypes, ProgramNamed DEF IInv, Own, Chained, i
    <2>2. PICK a \in AllAccounts :
            Seen(accounts[i].key, a) /\ a.owner = accounts[i].owner
      BY <1>2, <2>1 DEF FromRpc
    <2>3. BpfLoader # ProgramId
      BY AddressesAssumption
    <2>4. CASE accounts[i].key = BpfLoader
      <3>1. a.owner = NativeLoader \/ (a.owner = SystemProgram /\ BpfLoader \in lost)
        BY <2>2, <2>3, <2>4, RpcAssumption
        DEF Seen, SeenIn, Genuine, DefaultAccount, Account
      <3> QED
        BY <1>1, <1>4, <2>2, <2>4, <3>1, AddressesAssumption DEF OnTheWay
    <2>5. CASE accounts[i].key = SystemProgram /\ BpfLoader \in lost
      <3>1. a.owner \in {NativeLoader, SystemProgram, BpfLoader}
        BY <2>2, <2>5, RpcAssumption
        DEF Seen, SeenIn, Genuine, DefaultAccount, Account
      <3> QED
        BY <1>1, <1>4, <2>2, <2>5, <3>1, AddressesAssumption DEF OnTheWay
    <2> QED
      BY <2>1, <2>4, <2>5 DEF OnTheWay
  <1> QED
    BY <1>3, <1>4

(* A turn of the chain keeps to the way. *)
LEMMA ChainStepStep ==
  ASSUME IInv, TL!ChainStep, lost \subseteq lost'
  PROVE  Chained'
  <1>0. tl_pc = "chain" /\ program_indices = <<>> /\ tl_result = "none"
          /\ UNCHANGED msg
    BY LoaderTypes DEF TL!ChainStep
  <1>1. ASSUME NEW r, r # "ok", TL!Fail(r)
        PROVE  Chained'
    BY <1>0, <1>1 DEF TL!Fail, TL!Return, Chained
  <1>2. ASSUME program_index < Len(accounts)
        PROVE  /\ TL!Linked # <<>> /\ TL!Linked[1] = program_index
               /\ account_indices # <<>> =>
                    OnTheWay(lost, accounts[program_index + 1].key)
    <2>1. TLP!Linked # <<>> /\ TLP!Linked[1] = program_index
      BY <1>0, <1>2, TLAssumptions, TLP!TurnFacts DEF IInv
    <2> QED
      BY <1>0, <2>1 DEF TLP!Linked, TL!Linked, IInv, Own, Chained
  <1>3. CASE /\ program_index < Len(accounts)
             /\ TL!Program.owner = NativeLoader
             /\ TL!FinishChain(TL!Linked)
    <2>1. account_indices # <<>>
      BY <1>0, <1>3, NextOnTheWay, AddressesAssumption
    <2>2. /\ tl_pc' = "instructions" /\ UNCHANGED <<accounts, tl_result>>
          /\ program_indices' = <<TL!Linked>>
      BY <1>0, <1>3 DEF TL!FinishChain
    <2>3. Chain' = TL!Linked /\ Chain'[1] = program_index
      BY <1>2, <1>3, <2>2 DEF Chain
    <2>4. Root' = accounts[program_index + 1].key
      BY <2>2, <2>3 DEF Root
    <2>5. OnTheWay(lost', Root')
      BY <1>2, <1>3, <2>1, <2>4 DEF OnTheWay
    <2> QED
      BY <1>0, <1>2, <1>3, <2>2, <2>3, <2>5 DEF Chained
  <1>4. ASSUME NEW i, TL!Follow(i), UNCHANGED msg,
               program_index < Len(accounts),
               i \in Len(msg.keys)..(Len(accounts') - 1),
               accounts'[i + 1].key = TL!Program.owner,
               TL!Program.owner # NativeLoader
        PROVE  Chained'
    <2>1. /\ tl_pc' = "chain" /\ program_indices' = <<>>
          /\ tl_result' = "none" /\ program_index' = i
          /\ account_indices' = TL!Linked
      BY <1>0, <1>4 DEF TL!Follow
    <2>2. OnTheWay(lost', accounts'[i + 1].key)
      BY <1>0, <1>4, NextOnTheWay DEF OnTheWay
    <2>3. account_indices' # <<>>
      BY <1>2, <1>4, <2>1
    <2> QED
      BY <1>4, <2>1, <2>2, <2>3 DEF Chained
  <1>5. CASE /\ program_index < Len(accounts)
             /\ TL!Program.owner # NativeLoader
             /\ TL!Loaded(TL!Program.owner) # {}
             /\ TL!Follow(TL!First(TL!Loaded(TL!Program.owner)))
             /\ UNCHANGED accounts
    <2> DEFINE I == TL!Loaded(TL!Program.owner)
    <2>1. /\ builtins_start_index = Len(msg.keys)
          /\ Len(msg.keys) \in Nat /\ Len(accounts) \in Nat
      BY <1>0, LoaderTypes, ProgramNamed
    <2>2. I \in SUBSET Nat /\ I # {}
      BY <1>5, <2>1 DEF TL!Loaded
    <2>3. \E i \in I : \A j \in I : i <= j
      BY <2>2, TLAssumptions, TLP!LeastExists
    <2>4. TL!First(I) \in I
      BY <2>3 DEF TL!First
    <2>5. /\ TL!First(I) \in Len(msg.keys)..(Len(accounts) - 1)
          /\ accounts[TL!First(I) + 1].key = TL!Program.owner
      BY <2>1, <2>4 DEF TL!Loaded
    <2> QED
      BY <1>0, <1>4, <1>5, <2>5
  <1>6. ASSUME program_index < Len(accounts),
               TL!Program.owner # NativeLoader,
               NEW owner \in Keys,
               accounts' = TL!Pushed(TL!Entry(TL!Program.owner, owner)),
               TL!Follow(Len(accounts))
        PROVE  Chained'
    <2> DEFINE n == Len(accounts)
               e == TL!Entry(TL!Program.owner, owner)
    <2>1. /\ n \in Nat /\ Len(msg.keys) \in Nat /\ Len(msg.keys) <= n
          /\ program_index + 1 \in 1..n
      BY <1>0, <1>6, LoaderTypes, ProgramNamed
    <2>2. e \in [key : Keys, owner : Keys] /\ e.key = TL!Program.owner
      BY <1>6, <2>1, LoaderTypes DEF TL!Entry, TL!Program
    <2> HIDE DEF e
    <2>3. Len(accounts') = n + 1 /\ accounts'[n + 1] = e
      BY <1>6, <2>2, LoaderTypes, AppendProperties DEF TL!Pushed, e
    <2> QED
      BY <1>0, <1>4, <1>6, <2>1, <2>2, <2>3
  <1>7. program_index < Len(accounts) => TL!Program.key # NativeLoader
    BY <1>0, NextOnTheWay
  <1> QED
    BY <1>1, <1>3, <1>5, <1>6, <1>7 DEF TL!ChainStep

(* A step of load_transaction_accounts. *)
LEMMA LoadTransactionStep ==
  ASSUME IInv, LoadTransaction
  PROVE  Own'
  <1>0. /\ Own /\ stage = "load" /\ TL!Step
        /\ UNCHANGED <<stage, clock_slot, file, outcome, plvars>>
    BY DEF IInv, LoadTransaction
  <1>1. Grows /\ MemoSeen' /\ AccountsSeen'
    BY AccountsSeenStep
  <1>2. Fresh' /\ Uncalled' /\ Stages'
    BY <1>0 DEF Own, Fresh, Uncalled, Stages, plvars, PL!Empty
  <1>3. ScannedSeen' /\ AnswersSeen' /\ LoadingSeen'
    BY <1>0, <1>1, SeenKept DEF Own, plvars
  <1>4. BuiltinsKept' /\ Outcomes'
    BY <1>0, OthersKept
  <1>5. Chained'
    <2>0. Chained /\ lost \subseteq lost'
      BY <1>0, <1>1 DEF Own, Grows
    <2>1. CASE TL!LoadAccount
      BY <2>0, <2>1, LoaderTypes DEF TL!LoadAccount, TL!Return, Chained
    <2>2. CASE TL!AccountsLoaded
      BY <2>0, <2>2, LoaderTypes DEF TL!AccountsLoaded, Chained
    <2>3. CASE TL!StartChain
      <3>1. /\ Len(program_indices) < 1 /\ tl_pc' = "chain"
            /\ account_indices' = <<>> /\ tl_result' = "none"
            /\ program_index' = msg.programs[Len(program_indices) + 1]
            /\ UNCHANGED <<msg, program_indices>>
        BY <2>3, LoaderTypes, ProgramNamed DEF TL!StartChain
      <3>2. Len(program_indices) = 0 /\ program_indices = <<>>
        BY <3>1, LoaderTypes, EmptySeq
      <3> QED
        BY <3>1, <3>2 DEF Chained
    <2>4. CASE TL!ChainStep
      BY <2>0, <2>4, ChainStepStep
    <2>5. CASE TL!TooDeep
      BY <2>0, <2>5, LoaderTypes DEF TL!TooDeep, TL!Fail, TL!Return, Chained
    <2>6. CASE TL!Finish
      <3>1. /\ tl_pc' = "done" /\ tl_result' = "ok"
            /\ UNCHANGED <<msg, accounts, program_indices>>
            /\ Len(program_indices) = 1 /\ Len(msg.keys) <= Len(accounts)
        BY <2>6, LoaderTypes, ProgramNamed DEF TL!Finish, TL!Return
      <3> QED
        BY <2>0, <3>1 DEF Chained, OnTheWay, Chain, Root
    <2> QED
      BY <1>0, <2>1, <2>2, <2>3, <2>4, <2>5, <2>6 DEF TL!Step
  <1> QED
    BY <1>1, <1>2, <1>3, <1>4, <1>5 DEF Own

-----------------------------------------------------------------------------
(* Nothing happens. *)
LEMMA StutterStep ==
  ASSUME Own, UNCHANGED vars
  PROVE  Own'
  <1>1. UNCHANGED <<stage, clock_slot, file, outcome, closure, tlvars, plvars>>
    BY DEF vars
  <1>2. Grows /\ MemoSeen' /\ Chained'
    BY <1>1, ClosureUnasked, ChainedKept DEF Own, Grows
  <1>3. AccountsSeen' /\ ScannedSeen' /\ AnswersSeen' /\ LoadingSeen'
    BY <1>1, <1>2, SeenKept DEF Own, tlvars, plvars
  <1>4. Fresh' /\ Uncalled' /\ Stages'
    BY <1>1 DEF Own, Fresh, Uncalled, Stages, closure, tlvars, plvars, PL!Empty
  <1>5. BuiltinsKept' /\ Outcomes'
    BY <1>1, OthersKept DEF Own, Outcomes, closure, plvars, PL!builtin_programs
  <1> QED
    BY <1>2, <1>3, <1>4, <1>5 DEF Own

(* Every step keeps the invariant. *)
LEMMA NextInvariant == IInv /\ [Next]_vars => IInv'
  <1> SUFFICES ASSUME IInv, [Next]_vars
               PROVE  IInv'
    OBVIOUS
  <1>1. TLP!IInv'
    BY TLStep, TLInvariant DEF IInv
  <1>2. PLP!IInv'
    BY ProgramNamed, PLStep, PLInvariant DEF IInv, Own
  <1>3. Own'
    BY GetClockStep, ReadProgramStep, LoadTransactionStep,
       TransactionLoadedStep, ReplenishCacheStep, CacheReplenishedStep,
       ProcessStep, StutterStep DEF IInv, Next, Step, Finished
  <1> QED
    BY <1>1, <1>2, <1>3 DEF IInv

(* The invariant holds throughout. *)
LEMMA Invariance == Spec => []IInv
  BY InitInvariant, NextInvariant, PTL DEF Spec

(* The command drives the cache as ProgramLoader says it is driven, with   *)
(* one call: what is proved of the cache is true of it here.               *)
THEOREM SimulateDrivesProgramLoader == Spec => PL!Spec
  <1>1. Init => PL!Init
    BY DEF Init
  <1>2. ASSUME IInv, [Next]_vars
        PROVE  [PL!Next]_PL!vars
    <2>1. [PLP!Next]_PLP!vars
      BY <1>2, ProgramNamed, PLStep DEF IInv, Own
    <2>2. PLP!vars = PL!vars /\ (UNCHANGED PLP!vars => UNCHANGED PL!vars)
      BY DEF PLP!vars, PL!vars
    <2>3. PLP!Next => PL!Next
      <3>1. PLP!AnyAnswer = PL!AnyAnswer
        BY DEF PLP!AnyAnswer, PL!AnyAnswer
      <3>2. PLP!Step => PL!Step
        BY <3>1, PLSame DEF PLP!Step, PL!Step
      <3>3. PLP!Stopped => PL!Stopped
        BY <2>2 DEF PLP!Stopped, PL!Stopped
      <3> QED
        BY <3>2, <3>3, PLSame DEF PLP!Next, PL!Next
    <2> QED
      BY <2>1, <2>2, <2>3
  <1> QED
    BY <1>1, <1>2, Invariance, PTL DEF Spec, PL!Spec

(* It drives the transaction loader, whose fairness is left to TLC, the    *)
(* same way.                                                               *)
THEOREM SimulateDrivesTransactionLoader ==
  Spec => TL!Init /\ [][TL!Next]_TL!vars
  <1>1. Init => TL!Init
    BY DEF Init
  <1>2. [Next]_vars => [TL!Next]_TL!vars
    <2>1. [TLP!Next]_TLP!vars => [TL!Next]_TL!vars
      BY TLSame DEF TLP!Next, TL!Next, TLP!Returned, TL!Returned, TLP!vars,
                    TL!vars
    <2> QED
      BY <2>1, TLStep
  <1> QED
    BY <1>1, <1>2, PTL DEF Spec

(* Where answers are remembered, as the command does, the two loaders work *)
(* on the same accounts, and the library does not panic: whatever the      *)
(* chain does meanwhile and whichever requests fail.                       *)
THEOREM SimulateLoadersAgree == Spec => [](Memoised => LoadersAgree)
  <1>1. ASSUME IInv, Memoised
        PROVE  LoadersAgree
    <2>0. Own
      BY <1>1 DEF IInv
    <2>1. outcome.kind # "panic"
      BY <1>1, <2>0 DEF Own, Outcomes
    <2>2. ASSUME stage = "process", NEW i \in DOMAIN msg.keys,
                 msg.keys[i] # InstructionsSysvar
          PROVE  accounts[i].owner = scanned[i].owner
      <3>1. /\ keys = msg.keys /\ Len(scanned) = Len(msg.keys)
            /\ Len(msg.keys) <= Len(accounts)
        BY <2>0, <2>2 DEF Own, Stages, Chained, BuiltinsKept
      <3>2. i \in 1..Len(scanned) /\ i \in 1..Len(accounts) /\ i <= Len(msg.keys)
        <4>1. msg.keys \in Seq(Keys)
          BY <1>1, ProgramNamed, MessageShape
        <4> QED
          BY <1>1, <2>2, <3>1, <4>1, LoaderTypes, LenProperties
      <3>3. accounts[i].key = msg.keys[i]
        BY <1>1, <3>2 DEF IInv, TLP!IInv, TLP!MessageAccountsFirst
      <3>4. PICK a \in AllAccounts :
              Seen(msg.keys[i], a) /\ a.owner = accounts[i].owner
        BY <2>0, <2>2, <3>2, <3>3 DEF Own, AccountsSeen, FromRpc
      <3>5. Seen(msg.keys[i], scanned[i])
        BY <2>0, <3>1, <3>2 DEF Own, ScannedSeen
      <3>6. a = scanned[i]
        BY <1>1, <3>4, <3>5 DEF Seen, SeenIn, Genuine
      <3> QED
        BY <3>4, <3>6
    <2> QED
      BY <2>1, <2>2 DEF LoadersAgree
  <1>2. IInv => (Memoised => LoadersAgree)
    BY <1>1
  <1> QED
    BY <1>2, Invariance, PTL

(* What runs is the program in the file, and it runs if it verifies and no *)
(* request is lost, for the command and for the examples, which do not     *)
(* remember answers; no other builtin is called unless the loader's own    *)
(* account could not be fetched, and no panic is about the program.        *)
THEOREM SimulateRunsTheFile == Spec => []RunsTheFile
  <1>1. ASSUME IInv
        PROVE  RunsTheFile
    <2>1. /\ outcome.kind = "ran" => outcome.what = file /\ file # BadElf
          /\ outcome.kind = "builtin" =>
               outcome.what = SystemProgram /\ BpfLoader \in lost
          /\ outcome.kind = "panic" =>
               outcome.what \notin PL!builtin_programs \union {ProgramId}
      BY <1>1 DEF IInv, Own, Outcomes
    <2>2. ASSUME stage = "process", lost = {}, file # BadElf, clock_slot > 0
          PROVE  /\ {BpfLoader, ProgramId} \subseteq DOMAIN batch
                 /\ Root = BpfLoader /\ PL!Find(Root).type = "Builtin"
                 /\ PL!Find(ProgramId).type = "Loaded"
      BY <1>1, <2>2, BuiltinsFound, ProgramFound DEF OnTheWay
    <2> QED
      BY <2>1, <2>2 DEF RunsTheFile
  <1>2. IInv => RunsTheFile
    BY <1>1
  <1> QED
    BY <1>2, Invariance, PTL

-----------------------------------------------------------------------------
(* The steps left: those of the transaction loader, those of the program   *)
(* loader, which are not more than CallSteps, and those of the command.    *)
CallSteps == 3 * Len(msg.keys) + 2
StepsLeft ==
  CASE stage = "clock" -> TLP!Variant + (CallSteps + 5)
    [] stage = "file" -> TLP!Variant + (CallSteps + 4)
    [] stage = "load" -> TLP!Variant + (CallSteps + 3)
    [] stage = "replenish" -> PLP!Variant + 2
    [] stage = "process" -> 1
    [] OTHER -> 0
Less == StepsLeft \in Nat /\ StepsLeft' \in 0..(StepsLeft - 1)
Progress == [][Less]_vars

(* The loaders have made no step before they are called. *)
LEMMA VariantsKept ==
  /\ UNCHANGED tlvars => UNCHANGED <<TLP!Variant, CallSteps>>
  /\ UNCHANGED tlvars => UNCHANGED msg
  BY DEF tlvars, TLP!Variant, TLP!ToDo, TLP!Turns, CallSteps

LEMMA LoadersVariants ==
  ASSUME IInv
  PROVE  /\ TLP!Variant \in Nat /\ CallSteps \in Nat
         /\ tl_pc = "done" => TLP!Variant = 0
         /\ pl_pc \in {"idle", "dead"} => PLP!Variant = 0
  <1>1. TLP!Variant \in Nat
    BY TLAssumptions, TLP!VariantType DEF IInv
  <1>2. CallSteps \in Nat
    BY ProgramNamed DEF CallSteps
  <1> QED
    BY <1>1, <1>2 DEF TLP!Variant, PLP!Variant

(* Every step of the command brings its end nearer. *)
LEMMA StepProgress ==
  ASSUME IInv, Step
  PROVE  Less
  <1>0. /\ TLP!Variant \in Nat /\ CallSteps \in Nat
        /\ tl_pc = "done" => TLP!Variant = 0
        /\ pl_pc \in {"idle", "dead"} => PLP!Variant = 0
    BY LoadersVariants
  <1>1. CASE GetClock
    <2>1. /\ stage = "clock" /\ stage' \in {"done", "file"}
          /\ UNCHANGED <<TLP!Variant, CallSteps>>
      BY <1>1, VariantsKept DEF GetClock, Done
    <2>2. StepsLeft = TLP!Variant + (CallSteps + 5)
      BY <2>1 DEF StepsLeft
    <2>3. StepsLeft' \in {0, TLP!Variant + (CallSteps + 4)}
      BY <2>1 DEF StepsLeft
    <2> QED
      BY <1>0, <2>2, <2>3 DEF Less
  <1>2. CASE ReadProgram
    <2>1. /\ stage = "file" /\ stage' \in {"done", "load"}
          /\ UNCHANGED <<TLP!Variant, CallSteps>>
      BY <1>2, VariantsKept DEF ReadProgram, Done
    <2>2. StepsLeft = TLP!Variant + (CallSteps + 4)
      BY <2>1 DEF StepsLeft
    <2>3. StepsLeft' \in {0, TLP!Variant + (CallSteps + 3)}
      BY <2>1 DEF StepsLeft
    <2> QED
      BY <1>0, <2>2, <2>3 DEF Less
  <1>3. CASE LoadTransaction
    <2>1. stage = "load" /\ stage' = "load" /\ TLP!Step
      BY <1>3, TLSame DEF LoadTransaction
    <2>2. TLP!Variant' \in 0..(TLP!Variant - 1)
      <3>1. TLP!Variant \in Nat /\ TLP!Variant' \in 0..(TLP!Variant - 1)
        BY <2>1, TLAssumptions, TLP!StepProgress DEF IInv
      <3> QED
        BY <3>1
    <2>3. CallSteps' = CallSteps
      BY <1>3, StepAccounts DEF LoadTransaction, CallSteps
    <2>4. /\ StepsLeft = TLP!Variant + (CallSteps + 3)
          /\ StepsLeft' = TLP!Variant' + (CallSteps + 3)
      BY <2>1, <2>3 DEF StepsLeft
    <2>5. PICK v \in Nat, c \in Nat : v = TLP!Variant /\ c = CallSteps + 3
      BY <1>0
    <2>6. PICK w \in 0..(v - 1) : w = TLP!Variant'
      BY <2>2, <2>5
    <2>7. StepsLeft = v + c /\ StepsLeft' = w + c
      BY <2>4, <2>5, <2>6
    <2>8. StepsLeft \in Nat /\ StepsLeft - 1 = v + c - 1
            /\ StepsLeft' \in 0..(v + c - 1)
      BY <2>7
    <2> QED
      BY <2>8 DEF Less
  <1>4. CASE TransactionLoaded
    <2>1. stage = "load" /\ tl_pc = "done"
      BY <1>4 DEF TransactionLoaded
    <2>2. StepsLeft = CallSteps + 3
      BY <1>0, <2>1 DEF StepsLeft
    <2>3. CASE stage' = "done"
      BY <1>0, <2>2, <2>3 DEF Less, StepsLeft
    <2>4. CASE stage' = "replenish" /\ PL!Call(msg.keys, clock_slot)
      <3>1. pl_pc' = "scan" /\ keys' = msg.keys /\ scanned' = <<>>
        BY <2>4 DEF PL!Call
      <3>2. Len(keys') = Len(msg.keys) /\ Len(scanned') = 0
        BY <3>1
      <3>3. PLP!Variant' = (Len(msg.keys) - 0) + 2 * Len(msg.keys) + 2
        BY <3>1, <3>2 DEF PLP!Variant
      <3>4. Len(msg.keys) \in Nat
        BY ProgramNamed
      <3>5. PLP!Variant' = CallSteps
        BY <3>3, <3>4 DEF CallSteps
      <3>6. StepsLeft' = CallSteps + 2
        BY <2>4, <3>5 DEF StepsLeft
      <3> QED
        BY <1>0, <2>2, <3>6 DEF Less
    <2> QED
      BY <1>4, <2>3, <2>4 DEF TransactionLoaded, Done
  <1>5. CASE ReplenishCache
    <2>1. stage = "replenish" /\ stage' = "replenish" /\ PLP!Step
      BY <1>5, ReplenishCacheIsStep DEF ReplenishCache
    <2>2. PLP!Less
      BY <2>1, PLAssumptions, PLP!StepProgress DEF IInv
    <2>3. PLP!Variant \in Nat /\ PLP!Variant' \in 0..(PLP!Variant - 1)
      BY <2>2 DEF PLP!Less
    <2>4. StepsLeft = PLP!Variant + 2 /\ StepsLeft' = PLP!Variant' + 2
      BY <2>1 DEF StepsLeft
    <2>5. PICK v \in Nat : v = PLP!Variant
      BY <2>3
    <2>6. PICK w \in 0..(v - 1) : w = PLP!Variant'
      BY <2>3, <2>5
    <2>7. StepsLeft = v + 2 /\ StepsLeft' = w + 2
      BY <2>4, <2>5, <2>6
    <2>8. StepsLeft \in Nat /\ StepsLeft - 1 = v + 1
            /\ StepsLeft' \in 0..(v + 1)
      BY <2>7
    <2> QED
      BY <2>8 DEF Less
  <1>6. CASE CacheReplenished
    <2>1. /\ stage = "replenish" /\ stage' \in {"process", "done"}
          /\ pl_pc \in {"idle", "dead"}
      BY <1>6 DEF CacheReplenished, Done
    <2>2. StepsLeft = 2 /\ StepsLeft' \in {0, 1}
      BY <1>0, <2>1 DEF StepsLeft
    <2> QED
      BY <2>2 DEF Less
  <1>7. CASE Process
    <2>1. stage = "process" /\ stage' = "done"
      BY <1>7 DEF Process, Done
    <2> QED
      BY <2>1 DEF StepsLeft, Less
  <1> QED
    BY <1>1, <1>2, <1>3, <1>4, <1>5, <1>6, <1>7 DEF Step

(* The command takes at most as many steps as StepsLeft says at its start, *)
(* which depends on the numbers of accounts and instructions alone: lost   *)
(* answers and answers that change cannot make it longer.                  *)
THEOREM SimulateProgress == Spec => Progress
  <1>1. IInv /\ [Next]_vars => [Less]_vars
    BY StepProgress DEF Next, Finished
  <1> QED
    BY <1>1, Invariance, PTL DEF Spec, Progress
=============================================================================
