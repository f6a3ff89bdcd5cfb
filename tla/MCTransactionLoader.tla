------------------------ MODULE MCTransactionLoader ------------------------
(***************************************************************************)
(* TransactionLoader for messages of up to two instructions: a program     *)
(* used twice, two programs, a program that is the native loader, an index *)
(* out of range, and the instructions sysvar among the accounts.           *)
(***************************************************************************)
EXTENDS TransactionLoader

CONSTANTS a, b

MCMessages ==
  { [keys |-> <<a>>, programs |-> <<0, 0>>],
    [keys |-> <<a, b>>, programs |-> <<1, 0>>],
    [keys |-> <<NativeLoader, a>>, programs |-> <<1, 0>>],
    [keys |-> <<b, a>>, programs |-> <<1, 2>>],
    [keys |-> <<InstructionsSysvar, a>>, programs |-> <<0, 1>>] }
=============================================================================
