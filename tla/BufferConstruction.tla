------------------------ MODULE BufferConstruction ------------------------
(***************************************************************************)
(* InstructionExecutor::new: a first loop adds up the size of the buffer,  *)
(* a second one serialises empty accounts into it and records where each   *)
(* slot starts.  The serialising writes are write_unchecked and            *)
(* write_all_unchecked, which test nothing against the capacity, so memory *)
(* safety rests on the two loops agreeing.                                 *)
(*                                                                         *)
(* Vectors are functions on 0..n-1, indexed as in the code.                *)
(*                                                                         *)
(* `reserved' is a history variable: the value of `size' before each       *)
(* account of the first loop.  It is only read by the invariants.          *)
(***************************************************************************)
EXTENDS InputLayout

CONSTANTS
  AccountSizesInputs,     \* the account_sizes `new' may be called with
  InstructionSizeInputs   \* the instruction_size it may be called with

ASSUME InputsAssumption ==
  /\ \A a \in AccountSizesInputs :
       /\ a.len \in Nat
       /\ a.size \in [0..(a.len - 1) -> Nat]
  /\ InstructionSizeInputs \subseteq Nat

VARIABLES
  pc,                  \* where `new' is
  account_sizes,       \* its arguments: an AccountSizes is its len and size
  instruction_size,
  i,                   \* loop counter, 0-based
  size,                \* bytes counted so far, then the buffer's capacity
  len,                 \* bytes written to the buffer
  account_offsets,     \* Vec<usize>: where each slot starts
  instruction_offset,
  program_id_offset,
  reserved             \* history: size before account k, and at the end

args == <<account_sizes, instruction_size>>
vars == <<pc, args, i, size, len, account_offsets, instruction_offset,
          program_id_offset, reserved>>

NumAccounts == account_sizes.len
Size(k) == account_sizes.size[k]

(* Vec::push on a vector of n entries. *)
Push(v, n, x) == [k \in 0..n |-> IF k = n THEN x ELSE v[k]]

Init ==
  /\ pc = "reserve"
  /\ account_sizes \in AccountSizesInputs
  /\ instruction_size \in InstructionSizeInputs
  /\ i = 0
  /\ size = U64
  /\ len = 0
  /\ account_offsets = [k \in 0..(0 - 1) |-> 0]
  /\ instruction_offset = 0
  /\ program_id_offset = 0
  /\ reserved = [k \in {0} |-> U64]

(* One iteration of the loop that counts. *)
ReserveAccount_InclusiveBound ==
  /\ pc = "reserve"
  /\ i <= NumAccounts
  /\ size' = size + ReservedLen(0)
  /\ reserved' = Push(reserved, i + 1, size')
  /\ i' = i + 1
  /\ UNCHANGED <<pc, args, len, account_offsets, instruction_offset,
                 program_id_offset>>
ReserveAccount ==
  /\ pc = "reserve"
  /\ i < NumAccounts
  /\ size' = size + ReservedLen(Size(i))
  /\ reserved' = Push(reserved, i + 1, size')
  /\ i' = i + 1
  /\ UNCHANGED <<pc, args, len, account_offsets, instruction_offset,
                 program_id_offset>>

(* The rest of the count, with_capacity, and the number of accounts. *)
Allocate_NoProgramId ==
  /\ pc = "reserve"
  /\ i = NumAccounts
  /\ size' = size + (U64 + instruction_size)
  /\ len' = U64
  /\ i' = 0
  /\ pc' = "accounts"
  /\ UNCHANGED <<args, account_offsets, instruction_offset,
                 program_id_offset, reserved>>
Allocate ==
  /\ pc = "reserve"
  /\ i = NumAccounts
  /\ size' = size + (U64 + instruction_size) + PUBKEY
  /\ len' = U64
  /\ i' = 0
  /\ pc' = "accounts"
  /\ UNCHANGED <<args, account_offsets, instruction_offset,
                 program_id_offset, reserved>>

(* One iteration of the loop that serialises.  fill_write is the only      *)
(* write that tests the capacity: it fails, and `new' with it, when the    *)
(* fill does not fit.                                                      *)
SerializeAccount_PushAfter ==
  /\ pc = "accounts"
  /\ i < NumAccounts
  /\ account_offsets' = Push(account_offsets, i,
                             len + EmptyAccountLen(Size(i)))
  /\ len' = len + EmptyAccountLen(Size(i))
  /\ i' = i + 1
  /\ UNCHANGED <<pc, args, size, instruction_offset, program_id_offset,
                 reserved>>
SerializeAccount ==
  /\ pc = "accounts"
  /\ i < NumAccounts
  /\ account_offsets' = Push(account_offsets, i, len)
  /\ IF len + DataField + EmptyFillLen(Size(i)) <= size
       THEN /\ len' = len + EmptyAccountLen(Size(i))
            /\ i' = i + 1
            /\ pc' = pc
       ELSE /\ len' = len + DataField
            /\ i' = i
            /\ pc' = "failed"
  /\ UNCHANGED <<args, size, instruction_offset, program_id_offset, reserved>>

(* The instruction's length and bytes, and the default program id. *)
SerializeTail ==
  /\ pc = "accounts"
  /\ i = NumAccounts
  /\ instruction_offset' = len
  /\ IF len + U64 + instruction_size <= size
       THEN /\ program_id_offset' = len + U64 + instruction_size
            /\ len' = len + U64 + instruction_size + PUBKEY
            /\ pc' = "built"
       ELSE /\ len' = len + U64
            /\ pc' = "failed"
            /\ UNCHANGED program_id_offset
  /\ UNCHANGED <<args, i, size, account_offsets, reserved>>

(* `new' returns and is called once per executor. *)
Done == pc \in {"built", "failed"} /\ UNCHANGED vars

Next == ReserveAccount \/ Allocate \/ SerializeAccount \/ SerializeTail \/ Done

Spec == Init /\ [][Next]_vars

-----------------------------------------------------------------------------
(* Type invariant: neither loop of `new' goes past the accounts it was      *)
(* given, in its counter or in the vectors it fills.                       *)
TypeOK ==
  /\ pc \in {"reserve", "accounts", "built", "failed"}
  /\ account_sizes \in AccountSizesInputs
  /\ instruction_size \in InstructionSizeInputs
  /\ i \in 0..NumAccounts
  /\ size \in Nat
  /\ len \in Nat
  /\ \A k \in DOMAIN account_offsets :
       k \in 0..(NumAccounts - 1) /\ account_offsets[k] \in Nat
  /\ instruction_offset \in Nat
  /\ program_id_offset \in Nat
  /\ \A k \in DOMAIN reserved : k \in 0..NumAccounts /\ reserved[k] \in Nat

(* No write runs past the capacity the first loop computed, whatever the   *)
(* sizes: mod.rs writes accounts, instruction and program id unchecked     *)
(* into AlignedMemory::with_capacity(size).                                *)
NoOverrun == pc /= "reserve" => len <= size

(* `new' succeeds, and what it built fills the capacity exactly: no byte   *)
(* of the region mapped for the program is left unwritten.                 *)
ExactFit ==
  /\ pc /= "failed"
  /\ pc = "built" => len = size

(* The offsets `new' returns describe consecutive, disjoint slots in       *)
(* order: slot k ends where slot k + 1, or the instruction, begins; any    *)
(* earlier slot ends before any later one starts.                          *)
SlotEnd(k) == account_offsets[k] + EmptyAccountLen(Size(k))
LayoutOK ==
  pc = "built" =>
    /\ account_offsets \in [0..(NumAccounts - 1) -> Nat]
    /\ \A k \in 0..(NumAccounts - 1) :
         SlotEnd(k) = IF k + 1 = NumAccounts THEN instruction_offset
                                             ELSE account_offsets[k + 1]
    /\ \A j, k \in 0..(NumAccounts - 1) :
         j < k => SlotEnd(j) <= account_offsets[k]
    /\ \A k \in 0..(NumAccounts - 1) : SlotEnd(k) <= instruction_offset
    /\ program_id_offset = instruction_offset + U64 + instruction_size
    /\ len = program_id_offset + PUBKEY

(* Every slot and the instruction start at an aligned address.  `new'      *)
(* pads by the account's size alone, the program's entrypoint by the       *)
(* address it has reached: they find the same fields only if the slots     *)
(* are aligned.                                                            *)
SlotsAligned ==
  pc = "built" =>
    /\ \A k \in 0..(NumAccounts - 1) : account_offsets[k] % ALIGN = 0
    /\ instruction_offset % ALIGN = 0
=============================================================================
