----------------------- MODULE MCBufferConstruction -----------------------
(***************************************************************************)
(* BufferConstruction with the widths of the code, up to MaxAccounts       *)
(* accounts and sizes on both sides of the alignment boundary.             *)
(***************************************************************************)
EXTENDS BufferConstruction

CONSTANTS MaxAccounts, Sizes

MCAccountSizesInputs ==
  UNION {[len : {n}, size : [0..(n - 1) -> Sizes]] : n \in 0..MaxAccounts}
=============================================================================
