------------------------------ MODULE Memmove ------------------------------
(***************************************************************************)
(* What a program may expect of the two copying operations of mem_ops.rs,  *)
(* said without their mechanism: one call, answered in one step.           *)
(***************************************************************************)
EXTENDS MemoryMapping

VARIABLES
  mapping,    \* the memory mapping of the vm
  args,       \* the call: op, dst, src and n; op is "none" before it
  mem,        \* the bytes at the addresses
  result      \* "none", "ok" or "error"

vars == <<mapping, args, mem, result>>

Ops == {"memcpy", "memmove_non_contiguous"}
NoCall == [op |-> "none", dst |-> 0, src |-> 0, n |-> 0]
Calls == [op : Ops, dst : U64Values, src : U64Values, n : U64Values]

(* Every byte of a range that ends below U64_MAX grants the access. *)
Accessible(access, a, n) ==
  /\ a + n <= U64_MAX
  /\ \A b \in Span(a, n) : HasRegion(mapping, access, b)

(* A range inside one region that grants the access. *)
Contiguous(access, a, n) == n = 0 \/ Maps(mapping, access, a, n)

(* When a call succeeds: memcpy wants disjoint ranges, each in one region, *)
(* memmove_non_contiguous ranges all of whose bytes are mapped.            *)
Possible(c) ==
  IF c.op = "memcpy"
    THEN /\ Contiguous("Store", c.dst, c.n)
         /\ Contiguous("Load", c.src, c.n)
         /\ Span(c.dst, c.n) \cap Span(c.src, c.n) = {}
    ELSE Accessible("Store", c.dst, c.n) /\ Accessible("Load", c.src, c.n)

(* What a failed memmove_non_contiguous leaves behind: the first k or the  *)
(* last k bytes moved, and nothing else changed.                           *)
PartlyMoved(c, after) ==
  \E k \in 0..c.n :
    \/ after = Copy(mem, c.dst, c.src, k)
    \/ after = Copy(mem, c.dst + (c.n - k), c.src + (c.n - k), k)

Call ==
  /\ args = NoCall
  /\ args' \in Calls
  /\ UNCHANGED <<mapping, mem, result>>

Succeed ==
  /\ args # NoCall /\ result = "none"
  /\ Possible(args)
  /\ mem' = Copy(mem, args.dst, args.src, args.n)
  /\ result' = "ok"
  /\ UNCHANGED <<mapping, args>>

Fail ==
  /\ args # NoCall /\ result = "none"
  /\ ~Possible(args)
  /\ IF args.op = "memcpy" THEN mem' = mem ELSE PartlyMoved(args, mem')
  /\ result' = "error"
  /\ UNCHANGED <<mapping, args>>

Init ==
  /\ mapping \in Mappings
  /\ args = NoCall
  /\ result = "none"

Next == Call \/ Succeed \/ Fail

Spec == Init /\ [][Next]_vars
=============================================================================
