------------------------------ MODULE Simulate ------------------------------
(***************************************************************************)
(* The `simulate' command: a MessageExecutor is made, the clock is asked   *)
(* of an RPC node, the program is read from a file, a message is made of   *)
(* one instruction, and the two loaders and the MessageProcessor run on    *)
(* it.  Both loaders fetch accounts through one closure: the file stands   *)
(* for the program's account, everything else is asked of the RPC node.    *)
(* The command remembers each answer; the examples ask again every time.   *)
(*                                                                         *)
(* The chain moves on between requests, so that the node may answer the    *)
(* same key differently, and a request may fail: a default account, owned  *)
(* by the system program, is then taken for the answer.                    *)
(*                                                                         *)
(* TransactionLoader and ProgramLoader are instances; their fetches are    *)
(* joined with the closure's.  `lost' is a history variable.               *)
(***************************************************************************)
EXTENDS Naturals, Sequences, FiniteSets

CONSTANTS
  Keys, NativeLoader, InstructionsSysvar, SysvarProgram,
  SystemProgram,      \* Pubkey::default(), the owner of a default account
  LoaderV4, Upgradeable, BpfLoader,
  Features, DelayVisibility, BuiltinFeature,
  Elfs, BadElf, Slots, ROOT, CHAIN_DEPTH, None,
  ProgramId,          \* --program-id
  Commands,           \* --account, --signer-account and --writable-account
  RpcAnswers,         \* what the node may answer for each key
  Memoised            \* the closure of `simulate', or of the examples

VARIABLES
  stage,        \* how far the command is
  clock_slot,   \* the clock's slot
  file,         \* the ELF in the program file
  memo,         \* accounts, the closure's HashMap
  outcome,      \* what the command comes to
  lost,         \* history: keys of failed requests
  \* TransactionLoader
  msg, tl_pc, accounts, builtins_start_index, program_indices,
  account_indices, program_index, depth, tl_result,
  \* ProgramLoader
  features, entries, pl_pc, slot, keys, scanned, missing, loading, loaded,
  batch, pl_result, answers, before, calls

tlvars == <<msg, tl_pc, accounts, builtins_start_index, program_indices,
            account_indices, program_index, depth, tl_result>>
plvars == <<features, entries, pl_pc, slot, keys, scanned, missing, loading,
            loaded, batch, pl_result, answers, before, calls>>
closure == <<memo, lost>>
vars == <<stage, clock_slot, file, outcome, closure, tlvars, plvars>>

-----------------------------------------------------------------------------
(* The instruction's AccountMetas: an account of --account is a signer, or *)
(* writable, if it is given for that again.  Accounts named only there are *)
(* not passed.  Message::new adds the program and puts signers before the  *)
(* others and writable accounts first among each.                          *)
Rank(cmd, k) ==
  LET given == k \in cmd.account
  IN  (IF given /\ k \in cmd.signer THEN 0 ELSE 2)
        + (IF given /\ k \in cmd.writable THEN 0 ELSE 1)
Orders(cmd) ==
  LET S == cmd.account \union {ProgramId}
  IN  {ks \in [1..Cardinality(S) -> S] :
         \A i, j \in DOMAIN ks :
           i < j => ks[i] # ks[j] /\ Rank(cmd, ks[i]) <= Rank(cmd, ks[j])}
IndexOf(ks, k) == CHOOSE i \in DOMAIN ks : ks[i] = k
MessagesOf(cmd) ==
  {[keys |-> ks, programs |-> <<IndexOf(ks, ProgramId) - 1>>] :
     ks \in Orders(cmd)}
Messages == UNION {MessagesOf(cmd) : cmd \in Commands}

(* The account made of the file, and Account::default(). *)
Account(owner, elf) ==
  [owner |-> owner, state |-> "Other", slot |-> 0, target |-> ProgramId,
   elf |-> elf]
DefaultAccount == Account(SystemProgram, BadElf)
AllAccounts == {DefaultAccount}
                 \union {Account(BpfLoader, e) : e \in Elfs \union {BadElf}}
                 \union UNION {RpcAnswers[k] : k \in Keys}

TL == INSTANCE TransactionLoader WITH pc <- tl_pc, result <- tl_result
PL == INSTANCE ProgramLoader
        WITH pc <- pl_pc, result <- pl_result, MaxCalls <- 1,
             BpfLoaders <- {BpfLoader}, Answers <- [k \in Keys |-> AllAccounts],
             KeyLists <- {m.keys : m \in Messages}

(* The addresses of the runtime are different where the code tells them    *)
(* apart, and the program simulated is none of them.                       *)
ASSUME AddressesAssumption ==
  /\ {NativeLoader, InstructionsSysvar, SysvarProgram, SystemProgram,
      LoaderV4, Upgradeable, BpfLoader, ProgramId} \subseteq Keys
  /\ PL!Builtins \subseteq Keys /\ BpfLoader \in PL!Builtins
  /\ LoaderV4 # Upgradeable /\ BpfLoader \notin {LoaderV4, Upgradeable}
  /\ NativeLoader \notin {BpfLoader, SystemProgram}
  /\ ProgramId \notin PL!Builtins \union {NativeLoader, InstructionsSysvar}
ASSUME ParametersAssumption ==
  /\ \A cmd \in Commands : cmd.account \subseteq Keys /\ IsFiniteSet(cmd.account)
  /\ DelayVisibility \in Features
  /\ \A b \in PL!Builtins : BuiltinFeature[b] \in Features \union {None}
  /\ BadElf \notin Elfs
  /\ None \notin Elfs \union {BadElf} \union Keys \union PL!Accounts
  /\ Slots \subseteq Nat /\ ROOT \in Nat /\ CHAIN_DEPTH \in Nat \ {0}
  /\ Memoised \in BOOLEAN
(* The native loader owns the loader and the system program on every       *)
(* cluster.                                                                *)
ASSUME RpcAssumption ==
  /\ \A k \in Keys : RpcAnswers[k] \subseteq PL!Accounts
  /\ \A k \in {BpfLoader, SystemProgram} : \A a \in RpcAnswers[k] :
       a.owner = NativeLoader

Init ==
  /\ stage = "clock"
  /\ clock_slot = 0
  /\ file = None
  /\ memo = [k \in {} |-> None]
  /\ outcome = [kind |-> "none", what |-> None]
  /\ lost = {}
  /\ TL!Init
  /\ PL!Init
  /\ features = Features    \* MessageExecutor::new(FEATURES)

Done(kind, what) == stage' = "done" /\ outcome' = [kind |-> kind, what |-> what]

(* The clock; a failed request ends the command, here and only here. *)
GetClock ==
  /\ stage = "clock"
  /\ \/ Done("error", "Rpc") /\ UNCHANGED clock_slot
     \/ stage' = "file" /\ clock_slot' \in Slots /\ UNCHANGED outcome
  /\ UNCHANGED <<file, closure, tlvars, plvars>>

(* The file is read, and the instruction decoded. *)
ReadProgram ==
  /\ stage = "file"
  /\ \/ \E e \in {"Io", "Base58"} : Done("error", e) /\ UNCHANGED file
     \/ stage' = "load" /\ file' \in Elfs \union {BadElf} /\ UNCHANGED outcome
  /\ UNCHANGED <<clock_slot, closure, tlvars, plvars>>

-----------------------------------------------------------------------------
(* rpc.get_account(&key).unwrap_or_default() *)
Request(k, a) ==
  \/ a \in RpcAnswers[k] /\ UNCHANGED lost
  \/ a = DefaultAccount /\ lost' = lost \union {k}

(* The closure of `simulate' answers a for key k. *)
Remember_LastOnly(k, a) == memo' = [j \in {k} |-> a]
Remember(k, a) ==
  memo' = [j \in DOMAIN memo \union {k} |-> IF j = k THEN a ELSE memo[j]]
MemoClosure_AsksForProgram(k, a) ==
  \/ k \in DOMAIN memo /\ a = memo[k] /\ UNCHANGED closure
  \/ k \notin DOMAIN memo /\ Request(k, a) /\ Remember(k, a)
MemoClosure(k, a) ==
  \/ k = ProgramId /\ a = Account(BpfLoader, file) /\ UNCHANGED closure
  \/ k # ProgramId /\ k \in DOMAIN memo /\ a = memo[k] /\ UNCHANGED closure
  \/ k # ProgramId /\ k \notin DOMAIN memo /\ Request(k, a) /\ Remember(k, a)

(* The closure of the examples' run_full. *)
RawClosure_AsksForProgram(k, a) == Request(k, a) /\ UNCHANGED memo
RawClosure(k, a) ==
  \/ k = ProgramId /\ a = Account(BpfLoader, file) /\ UNCHANGED closure
  \/ k # ProgramId /\ Request(k, a) /\ UNCHANGED memo

G(k, a) == IF Memoised THEN MemoClosure(k, a) ELSE RawClosure(k, a)

(* load_transaction_accounts: an account that is added, unless it is the   *)
(* message's instructions sysvar, is the closure's answer, and there is    *)
(* always one.                                                             *)
Fetched == Len(accounts') > Len(accounts)
Added == accounts'[Len(accounts')]
Asked == tl_pc = "chain" \/ Added.key # InstructionsSysvar
LoadTransaction ==
  /\ stage = "load"
  /\ TL!Step
  /\ \/ /\ Fetched /\ Asked
        /\ \E a \in AllAccounts : G(Added.key, a) /\ a.owner = Added.owner
     \/ Fetched /\ ~Asked /\ UNCHANGED closure
     \/ /\ ~Fetched
        /\ tl_result' \notin {"AccountNotFound", "ProgramAccountNotFound"}
        /\ UNCHANGED closure
  /\ UNCHANGED <<stage, clock_slot, file, outcome, plvars>>
TransactionLoaded ==
  /\ stage = "load"
  /\ tl_pc = "done"
  /\ \/ /\ tl_result = "ok"
        /\ stage' = "replenish"
        /\ PL!Call(msg.keys, clock_slot)
        /\ UNCHANGED outcome
     \/ /\ tl_result # "ok"
        /\ Done("error", tl_result)
        /\ UNCHANGED plvars
  /\ UNCHANGED <<clock_slot, file, closure, tlvars>>

(* replenish_program_cache *)
ReplenishCache ==
  /\ stage = "replenish"
  /\ \/ \E a \in AllAccounts :
          PL!Scan(a) /\ G(keys[Len(scanned) + 1], a)
     \/ PL!Extract /\ UNCHANGED closure
     \/ \E k \in missing, a \in AllAccounts :
          PL!FetchProgram(k, a) /\ G(k, a)
     \/ \E a \in AllAccounts :
          PL!FetchProgramData(a) /\ G(loading.account.target, a)
     \/ PL!Replenish /\ UNCHANGED closure
  /\ UNCHANGED <<stage, clock_slot, file, outcome, tlvars>>
CacheReplenished ==
  /\ stage = "replenish"
  /\ \/ /\ pl_pc = "idle"
        /\ IF pl_result = "ok" THEN stage' = "process" /\ UNCHANGED outcome
           ELSE Done("error", pl_result)
     \/ /\ pl_pc = "dead"
        /\ Done("panic", loading.key)
  /\ UNCHANGED <<clock_slot, file, closure, tlvars, plvars>>

(* process: the MessageProcessor calls the first account of the chain,     *)
(* which has to be a builtin of the batch; a loader then runs the program, *)
(* if the batch has it ready to run.                                       *)
Chain == program_indices[1]
Root == accounts[Chain[1] + 1].key
Process ==
  /\ stage = "process"
  /\ IF Chain = <<>> \/ Root \notin DOMAIN batch \/ PL!Find(Root).type # "Builtin"
       THEN Done("error", "UnsupportedProgramId")
     ELSE IF Root # BpfLoader THEN Done("builtin", Root)
     ELSE IF ProgramId \notin DOMAIN batch
       THEN Done("error", "InvalidAccountData")
     ELSE IF PL!Find(ProgramId).type # "Loaded"
       THEN Done("error", PL!Find(ProgramId).type)
     ELSE Done("ran", PL!Find(ProgramId).elf)
  /\ UNCHANGED <<clock_slot, file, closure, tlvars, plvars>>

Step ==
  \/ GetClock \/ ReadProgram
  \/ LoadTransaction \/ TransactionLoaded
  \/ ReplenishCache \/ CacheReplenished \/ Process
Finished == stage = "done" /\ UNCHANGED vars
Next == Step \/ Finished

(* One thread runs the command, and requests are answered or fail. *)
Spec == Init /\ [][Next]_vars /\ WF_vars(Step)

-----------------------------------------------------------------------------
(* The loaders, which fetch the accounts of the message one after the      *)
(* other, work on the same accounts: the owner that the transaction loader *)
(* follows is the one by which the program loader takes an account for a   *)
(* program, and a program has not ceased to be one when it is fetched the  *)
(* second time, on which the library would panic.  The instructions sysvar *)
(* alone is made up by one and asked for by the other.                     *)
LoadersAgree ==
  /\ outcome.kind # "panic"
  /\ stage = "process" =>
       \A i \in DOMAIN msg.keys :
         msg.keys[i] # InstructionsSysvar =>
           accounts[i].owner = scanned[i].owner

(* What runs is the program in the file, and it does run if its ELF        *)
(* verifies and every request was answered.  Another builtin is called     *)
(* with the instruction only if the request for the loader's account was   *)
(* lost: the default account in its place is owned by the system program.  *)
(* The library can panic where answers are not remembered, but never over  *)
(* the program of the file or a builtin, which no answer can change.       *)
RunsTheFile ==
  /\ outcome.kind = "ran" => outcome.what = file /\ file # BadElf
  /\ outcome.kind = "builtin" =>
       outcome.what = SystemProgram /\ BpfLoader \in lost
  /\ outcome.kind = "panic" =>
       outcome.what \notin PL!builtin_programs \union {ProgramId}
  /\ stage = "process" /\ lost = {} /\ file # BadElf /\ clock_slot > 0 =>
       /\ {BpfLoader, ProgramId} \subseteq DOMAIN batch
       /\ Root = BpfLoader /\ PL!Find(Root).type = "Builtin"
       /\ PL!Find(ProgramId).type = "Loaded"

(* The command ends, also when lost answers make the accounts own each     *)
(* other in a circle.                                                      *)
Ends == <>(stage = "done")
=============================================================================
