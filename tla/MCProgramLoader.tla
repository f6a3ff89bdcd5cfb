-------------------------- MODULE MCProgramLoader --------------------------
(***************************************************************************)
(* ProgramLoader for two programs.  p is upgradeable, with its data in d,  *)
(* or of the first loaders, or no program at all; q is of loader v4.  The  *)
(* data are deployed at slot 1 or, upgraded, at slot 3, on both sides of   *)
(* the cache's root.                                                       *)
(***************************************************************************)
EXTENDS ProgramLoader

CONSTANTS p, q, d, system, zk, bpf_loader, native

Acc(owner, state, at, elf) ==
  [owner |-> owner, state |-> state, slot |-> at, target |-> d, elf |-> elf]

MCAnswers ==
  [k \in Keys |->
     CASE k = p -> {Acc(Upgradeable, "Program", 0, BadElf),
                    Acc(bpf_loader, "Other", 0, "elf1"),
                    Acc(native, "Other", 0, "elf1"), None}
       [] k = q -> {Acc(LoaderV4, "Deployed", 1, "elf1"),
                    Acc(LoaderV4, "Other", 1, "elf1"),
                    Acc(LoaderV4, "Deployed", 1, BadElf)}
       [] k = d -> {Acc(Upgradeable, "ProgramData", 1, "elf1"),
                    Acc(Upgradeable, "ProgramData", 3, "elf2"),
                    Acc(Upgradeable, "Other", 0, BadElf), None}
       [] OTHER -> {Acc(native, "Other", 0, "elf1")}]

MCBuiltinFeature ==
  [k \in {system, zk} |-> IF k = zk THEN "zk" ELSE None]
MCKeyLists == {<<p>>, <<p, q>>, <<zk, q>>}
=============================================================================
