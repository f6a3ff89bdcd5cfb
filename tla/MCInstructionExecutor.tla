----------------------- MODULE MCInstructionExecutor -----------------------
(***************************************************************************)
(* InstructionExecutor on accounts of sizes 1 and 2, with two-byte fields  *)
(* and an alignment of two.                                                *)
(***************************************************************************)
EXTENDS InstructionExecutor

MCAccountSize == [i \in Slots |-> i + 1]

MCAccountOffset ==
  LET offset[i \in 0..NumAccounts] ==
        IF i = 0 THEN U64
        ELSE offset[i - 1] + EmptyAccountLen(MCAccountSize[i - 1])
  IN  offset

(* An account without data and one that only the larger slot can hold. *)
MCAccountInputs ==
  {[key |-> 101, owner |-> 102, lamports |-> 1, data |-> <<>>,
    rent_epoch |-> 5, signer |-> FALSE, writable |-> TRUE,
    executable |-> FALSE],
   [key |-> 102, owner |-> 101, lamports |-> 2, data |-> <<Byte(8), Byte(9)>>,
    rent_epoch |-> 6, signer |-> TRUE, writable |-> FALSE,
    executable |-> TRUE]}

(* One byte, as many as fit, and one more. *)
MCInstructionInputs == {<<Byte(3)>>, <<Byte(4), Byte(4)>>,
                        <<Byte(5), Byte(5), Byte(5)>>}
=============================================================================
