---------------------------- MODULE InputLayout ----------------------------
(***************************************************************************)
(* The layout of the input buffer the InstructionExecutor hands to a       *)
(* program: the number of accounts, one slot per account, the instruction  *)
(* and the program id.  A slot is                                          *)
(*                                                                         *)
(*   dup  signer  writable  executable  pad  key  owner  lamports          *)
(*   data_len  data  fill  rent_epoch                                      *)
(*                                                                         *)
(* where fill keeps room for the data to grow and aligns what follows.     *)
(* All addresses are byte offsets from the start of the buffer.  The       *)
(* widths are parameters: the code has U32 = 4, U64 = 8, PUBKEY = 32,      *)
(* ALIGN = 8 (BPF_ALIGN_OF_U128) and MAX_INCREASE = 10240                  *)
(* (MAX_PERMITTED_DATA_INCREASE).                                          *)
(***************************************************************************)
EXTENDS Naturals

CONSTANTS
  U32,          \* size_of::<u32>()
  U64,          \* size_of::<u64>()
  PUBKEY,       \* size_of::<Pubkey>()
  ALIGN,        \* BPF_ALIGN_OF_U128
  MAX_INCREASE  \* MAX_PERMITTED_DATA_INCREASE

ASSUME WidthsAssumption ==
  /\ U32 \in Nat \ {0}
  /\ U64 \in Nat \ {0}
  /\ PUBKEY \in Nat \ {0}
  /\ ALIGN \in Nat \ {0}
  /\ MAX_INCREASE \in Nat

(* `(n as *const u8).align_offset(BPF_ALIGN_OF_U128)': what is missing to  *)
(* the next multiple of ALIGN.                                             *)
AlignOffset(n) == (ALIGN - (n % ALIGN)) % ALIGN

(* The fields of a slot, relative to its start. *)
SignerField == 1
WritableField == 2
ExecutableField == 3
KeyField == 4 + U32
OwnerField == KeyField + PUBKEY
LamportsField == OwnerField + PUBKEY
DataLenField == LamportsField + U64
DataField == DataLenField + U64

(* The fixed parts of the layout keep the alignment: in the code 8, 88 and *)
(* 10240 are multiples of 8.                                               *)
ASSUME AlignedAssumption ==
  /\ U64 % ALIGN = 0
  /\ DataField % ALIGN = 0
  /\ MAX_INCREASE % ALIGN = 0

(* What `new' reserves for an account of capacity s. *)
ReservedLen_NoAlign(s) ==
  1 + (3 + U32 + PUBKEY + PUBKEY + U64) + (U64 + s + MAX_INCREASE) + U64
ReservedLen(s) ==
  1 + (3 + U32 + PUBKEY + PUBKEY + U64)
    + (U64 + s + AlignOffset(s) + MAX_INCREASE) + U64

(* What `write_empty_account' writes for it: the cursor before fill_write, *)
(* the length given to fill_write, and the whole.                          *)
EmptyFillLen(s) == s + MAX_INCREASE + AlignOffset(s)
EmptyAccountLen_ShortFill(s) == DataField + (s + MAX_INCREASE) + U64
EmptyAccountLen(s) == DataField + EmptyFillLen(s) + U64
=============================================================================
