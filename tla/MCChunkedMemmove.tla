------------------------- MODULE MCChunkedMemmove -------------------------
(***************************************************************************)
(* ChunkedMemmove over a small address space: one region, neighbouring     *)
(* regions of several lengths, a hole, and a read-only region.  All bytes  *)
(* are different, so that each one's way can be followed.                  *)
(***************************************************************************)
EXTENDS ChunkedMemmove

R(s, e) == [start |-> s, end |-> e, writable |-> TRUE]
ReadOnly(s, e) == [start |-> s, end |-> e, writable |-> FALSE]

MCMappings ==
  { {R(2, 6)},
    {R(0, 1), R(1, 4), R(4, 6), R(6, 8), R(8, 9)},
    {R(1, 3), R(3, 4), R(5, 8)},
    {ReadOnly(0, 3), R(3, 5), R(5, 9)} }

MCMemories == {[a \in Addresses |-> a]}
=============================================================================
