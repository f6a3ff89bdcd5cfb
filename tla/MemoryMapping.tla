--------------------------- MODULE MemoryMapping ---------------------------
(***************************************************************************)
(* The memory a program sees, as the syscalls use it: solana_rbpf's        *)
(* MemoryMapping, a set of regions of the vm address space.  `execute'     *)
(* maps the read-only data of the program, the stack, the heap and the     *)
(* input buffer, each to host memory of its own and without gaps, so that  *)
(* a byte is named by its vm address.                                      *)
(*                                                                         *)
(* A region holds the addresses start .. end - 1 (`vm_addr' and            *)
(* `vm_addr_end').  Addresses and lengths are u64: 0 .. U64_MAX.           *)
(***************************************************************************)
EXTENDS Naturals

CONSTANTS
  U64_MAX,    \* u64::MAX
  Mappings    \* the mappings considered, each a set of regions

U64Values == 0..U64_MAX
RegionType == [start : U64Values, end : U64Values, writable : BOOLEAN]

ASSUME MappingsAssumption ==
  /\ U64_MAX \in Nat
  /\ \A m \in Mappings : m \subseteq RegionType

(* The byte addresses: the end of a range is a u64 too. *)
Addresses == 0..(U64_MAX - 1)
Span(a, n) == {b \in Addresses : a <= b /\ b < a + n}

(* MemoryMapping::region: the region of an address, if it grants the       *)
(* access.                                                                 *)
Holds(r, access, a) ==
  /\ r.start <= a
  /\ a < r.end
  /\ access = "Store" => r.writable
HasRegion(m, access, a) == \E r \in m : Holds(r, access, a)
Region(m, access, a) == CHOOSE r \in m : Holds(r, access, a)

(* MemoryMapping::map: the whole range lies in one region. *)
Maps(m, access, a, n) ==
  \E r \in m : Holds(r, access, a) /\ a + n <= r.end

(* MemoryRegion::vm_to_host *)
VmToHost(r, a, n) == r.start <= a /\ a + n <= r.end

(* std::ptr::copy of n bytes, which reads all before it writes any. *)
Copy(mem, dst, src, n) ==
  [a \in Addresses |-> IF dst <= a /\ a < dst + n
                         THEN mem[src + (a - dst)] ELSE mem[a]]
=============================================================================
