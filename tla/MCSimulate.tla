----------------------------- MODULE MCSimulate -----------------------------
(***************************************************************************)
(* Simulate for a program given alone, with an account that is an          *)
(* upgradeable program, is no program or changes from one to the other,    *)
(* with the instructions sysvar, and with itself among its accounts.  The  *)
(* chain has another version of the program.                               *)
(***************************************************************************)
EXTENDS Simulate

CONSTANTS acct, data

Acc(owner, state, at, elf) ==
  [owner |-> owner, state |-> state, slot |-> at, target |-> data,
   elf |-> elf]

MCRpcAnswers ==
  [k \in Keys |->
     CASE k = acct -> {Acc(Upgradeable, "Program", 0, BadElf),
                       Acc(BpfLoader, "Other", 0, "onchain"),
                       Acc(SystemProgram, "Other", 0, "onchain")}
       [] k = data -> {Acc(Upgradeable, "ProgramData", 1, "onchain"),
                       Acc(SystemProgram, "Other", 0, BadElf)}
       [] k = ProgramId -> {Acc(BpfLoader, "Other", 0, "onchain")}
       [] OTHER -> {Acc(NativeLoader, "Other", 0, "onchain")}]

MCBuiltinFeature ==
  [k \in {SystemProgram, BpfLoader, Upgradeable, LoaderV4} |->
     IF k = LoaderV4 THEN "v4" ELSE None]

MCCommands ==
  { [account |-> {}, signer |-> {}, writable |-> {}],
    [account |-> {acct}, signer |-> {acct}, writable |-> {}],
    [account |-> {acct, ProgramId}, signer |-> {}, writable |-> {ProgramId}],
    [account |-> {acct, InstructionsSysvar}, signer |-> {}, writable |-> {acct}] }
=============================================================================
