----------------------------- MODULE MCSyscalls -----------------------------
(***************************************************************************)
(* Syscalls over nine bytes: a read-only region with the slice of a seed   *)
(* and a program id, and two adjoining writable ones.  Which bumps give an *)
(* address depends on the program id: the highest, a lower one, only 1,    *)
(* only the 0 that is never tried, or none.                                *)
(***************************************************************************)
EXTENDS Syscalls

MCMappings == { {[start |-> 0, end |-> 4, writable |-> FALSE],
                 [start |-> 4, end |-> 7, writable |-> TRUE],
                 [start |-> 7, end |-> 9, writable |-> TRUE]} }

(* A seed of len bytes at ptr, and a program id that begins with n. *)
Memory(ptr, len, n) ==
  [a \in 0..8 |-> <<ptr, len, n, 1, 5, 0, 6, 9, 3>>[a + 1]]
MCMemories == {Memory(4, 1, n) : n \in 0..4}
                \union {Memory(4, 2, 1), Memory(4, 3, 1), Memory(6, 2, 1)}

MCDerive(seeds, bump, program_id) ==
  LET gives == CASE program_id[1] = 0 -> {3}
                 [] program_id[1] = 1 -> {1, 2}
                 [] program_id[1] = 2 -> {1}
                 [] program_id[1] = 3 -> {0}
                 [] OTHER -> {}
  IN  IF bump \in gives THEN <<4 + bump, 8 - Len(seeds)>> ELSE None

MCProgramId == <<7, 7>>
MCClocks == {<<2, 2>>}
MCSearchArgs ==
  [seeds_addr : {0}, seeds_len : 0..1, program_id_addr : {2, 3},
   address_addr : {3, 4, 5}, bump_seed_addr : {0, 4, 6, 8}]
    \union
  [seeds_addr : {0, 2}, seeds_len : {2, 3}, program_id_addr : {2},
   address_addr : {4}, bump_seed_addr : {6}]
=============================================================================
