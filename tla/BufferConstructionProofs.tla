--------------------- MODULE BufferConstructionProofs ---------------------
(***************************************************************************)
(* InstructionExecutor::new is safe for every list of account sizes, every *)
(* instruction size and every choice of the field widths.                  *)
(*                                                                         *)
(* The properties are not inductive: the second loop fits because of what  *)
(* the first one added up.  The history variable `reserved' keeps those    *)
(* sums, so the invariant can say that the second loop's cursor is, before *)
(* account i, exactly what the first loop had counted before account i.    *)
(***************************************************************************)
EXTENDS BufferConstruction, TLAPS

-----------------------------------------------------------------------------
(* The lengths and alignments of InputLayout, for every field width. *)

(* Every field offset and length of the layout is a natural number. *)
LEMMA AlignOffsetNat ==
  ASSUME NEW n \in Nat
  PROVE  AlignOffset(n) \in Nat
  <1>1. n % ALIGN \in 0..(ALIGN - 1)
    BY WidthsAssumption
  <1>2. ALIGN - (n % ALIGN) \in Nat
    BY <1>1, WidthsAssumption
  <1> QED
    BY <1>2, WidthsAssumption DEF AlignOffset

(* The two loops of `new' agree on every account: it reserves for it       *)
(* exactly what write_empty_account writes.                                *)
LEMMA LoopsAgree ==
  ASSUME NEW s \in Nat
  PROVE  /\ DataField \in Nat
         /\ EmptyFillLen(s) \in Nat
         /\ EmptyAccountLen(s) \in Nat
         /\ ReservedLen(s) = EmptyAccountLen(s)
         /\ EmptyAccountLen(s) = DataField + EmptyFillLen(s) + U64
  BY AlignOffsetNat, WidthsAssumption
     DEF ReservedLen, EmptyAccountLen, EmptyFillLen, DataField, DataLenField,
         LamportsField, OwnerField, KeyField

(* Division with remainder, as the provers know it. *)
LEMMA Division ==
  ASSUME NEW n \in Nat
  PROVE  /\ n \div ALIGN \in Nat
         /\ n % ALIGN \in 0..(ALIGN - 1)
         /\ n = ALIGN * (n \div ALIGN) + (n % ALIGN)
  BY WidthsAssumption

(* The remainder of a number written as a multiple of ALIGN and a rest. *)
LEMMA Remainder ==
  ASSUME NEW q \in Nat, NEW r \in 0..(ALIGN - 1)
  PROVE  (ALIGN * q + r) % ALIGN = r
  BY WidthsAssumption

(* A multiple of the alignment does not change a remainder. *)
LEMMA AddMultiple ==
  ASSUME NEW a \in Nat, NEW n \in Nat, a % ALIGN = 0
  PROVE  (a + n) % ALIGN = n % ALIGN
  <1> DEFINE p == a \div ALIGN
             q == n \div ALIGN
             r == n % ALIGN
  <1>1. p \in Nat /\ q \in Nat /\ r \in 0..(ALIGN - 1) /\ ALIGN \in Nat
    BY Division, WidthsAssumption
  <1>2. a = ALIGN * p + 0 /\ n = ALIGN * q + r
    BY Division
  <1> HIDE DEF p, q, r
  <1>3. p + q \in Nat /\ (ALIGN * (p + q) + r) % ALIGN = r
    BY <1>1, Remainder
  <1>4. a + n = ALIGN * (p + q) + r
    BY <1>1, <1>2
  <1>5. (a + n) % ALIGN = r
    BY <1>3, <1>4
  <1> QED
    BY <1>5 DEF r

(* n + AlignOffset(n) is the next multiple of the alignment. *)
LEMMA AlignOffsetAligns ==
  ASSUME NEW n \in Nat
  PROVE  (n + AlignOffset(n)) % ALIGN = 0
  <1> DEFINE q == n \div ALIGN
             r == n % ALIGN
  <1>1. q \in Nat /\ r \in 0..(ALIGN - 1) /\ n = ALIGN * q + r
    BY Division
  <1>2. ALIGN \in Nat \ {0} /\ 0 \in 0..(ALIGN - 1)
    BY WidthsAssumption
  <1>3. CASE r = 0
    <2>1. (ALIGN * 1 + 0) % ALIGN = 0
      BY <1>2, Remainder
    <2>2. AlignOffset(n) = 0
      BY <1>2, <1>3, <2>1 DEF AlignOffset
    <2> QED
      BY <2>2, <1>3
  <1>4. CASE r /= 0
    <2> HIDE DEF q, r
    <2>1. ALIGN - r \in 0..(ALIGN - 1)
      BY <1>1, <1>2, <1>4
    <2>2. (ALIGN * 0 + (ALIGN - r)) % ALIGN = ALIGN - r
      BY <2>1, Remainder
    <2>3. ALIGN * 0 + (ALIGN - r) = ALIGN - r
      BY <2>1, <1>2
    <2>4. AlignOffset(n) = ALIGN - r
      BY <2>2, <2>3 DEF AlignOffset, r
    <2>5. n + AlignOffset(n) = ALIGN * (q + 1) + 0
      BY <1>1, <1>2, <2>1, <2>4
    <2>6. q + 1 \in Nat /\ (ALIGN * (q + 1) + 0) % ALIGN = 0
      BY <1>1, <1>2, Remainder
    <2> QED
      BY <2>5, <2>6
  <1> QED
    BY <1>3, <1>4

(* An account's slot keeps the alignment of what follows it. *)
LEMMA SlotAligned ==
  ASSUME NEW s \in Nat
  PROVE  EmptyAccountLen(s) % ALIGN = 0
  <1> DEFINE n == s + AlignOffset(s)
  <1>1. n \in Nat /\ n % ALIGN = 0
    BY AlignOffsetNat, AlignOffsetAligns
  <1>2. DataField \in Nat /\ U64 \in Nat /\ MAX_INCREASE \in Nat
    BY LoopsAgree, WidthsAssumption
  <1>3. EmptyAccountLen(s) = DataField + (MAX_INCREASE + (U64 + n))
    BY <1>2, AlignOffsetNat DEF EmptyAccountLen, EmptyFillLen
  <1> HIDE DEF n
  <1>4. (U64 + n) % ALIGN = 0
    BY <1>1, <1>2, AddMultiple, AlignedAssumption
  <1>5. (MAX_INCREASE + (U64 + n)) % ALIGN = 0
    BY <1>1, <1>2, <1>4, AddMultiple, AlignedAssumption
  <1>6. (DataField + (MAX_INCREASE + (U64 + n))) % ALIGN = 0
    BY <1>1, <1>2, <1>5, AddMultiple, AlignedAssumption
  <1> QED
    BY <1>3, <1>6

-----------------------------------------------------------------------------

(* The counts of the first loop: each entry is the one before plus what    *)
(* the account takes, and no later count is below what an earlier account  *)
(* ended at.                                                               *)
Counts == IF pc = "reserve" THEN i ELSE NumAccounts
Counted ==
  /\ reserved \in [0..Counts -> Nat]
  /\ \A k \in 0..(Counts - 1) :
       reserved[k + 1] = reserved[k] + EmptyAccountLen(Size(k))
  /\ \A j, k \in 0..Counts :
       j < k => reserved[j] + EmptyAccountLen(Size(j)) <= reserved[k]

(* The second loop follows the counts of the first. *)
Follows ==
  /\ pc = "reserve" =>
       /\ size = reserved[i]
       /\ reserved[0] = U64
       /\ account_offsets \in [0..(0 - 1) -> Nat]
  /\ pc /= "reserve" =>
       size = reserved[NumAccounts] + U64 + instruction_size + PUBKEY
  /\ pc = "accounts" =>
       /\ len = reserved[i]
       /\ account_offsets \in [0..(i - 1) -> Nat]
       /\ \A k \in 0..(i - 1) : account_offsets[k] = reserved[k]
  /\ pc = "built" =>
       /\ account_offsets \in [0..(NumAccounts - 1) -> Nat]
       /\ \A k \in 0..(NumAccounts - 1) : account_offsets[k] = reserved[k]
       /\ instruction_offset = reserved[NumAccounts]
       /\ program_id_offset = instruction_offset + U64 + instruction_size
       /\ len = program_id_offset + PUBKEY
  /\ pc /= "failed"

IInv == TypeOK /\ Counted /\ Follows

(* What the first loop counts stays aligned. *)
CountsAligned == \A k \in 0..Counts : reserved[k] % ALIGN = 0

-----------------------------------------------------------------------------
(* The arguments of `new' are what it was called with. *)
LEMMA ArgsTyped ==
  ASSUME TypeOK
  PROVE  /\ NumAccounts \in Nat
         /\ instruction_size \in Nat
         /\ \A k \in 0..(NumAccounts - 1) :
              /\ Size(k) \in Nat
              /\ EmptyAccountLen(Size(k)) \in Nat
  <1>1. /\ NumAccounts \in Nat
        /\ instruction_size \in Nat
        /\ \A k \in 0..(NumAccounts - 1) : Size(k) \in Nat
    BY InputsAssumption DEF TypeOK, NumAccounts, Size
  <1> QED
    BY <1>1, LoopsAgree

(* Nothing is counted and nothing written when `new' starts. *)
LEMMA InitIInv == Init => IInv
  <1> SUFFICES ASSUME Init
               PROVE  IInv
    OBVIOUS
  <1>1. NumAccounts \in Nat
    BY InputsAssumption DEF Init, NumAccounts
  <1>2. TypeOK
    BY <1>1, WidthsAssumption, InputsAssumption DEF Init, TypeOK
  <1>3. Counted
    BY WidthsAssumption DEF Init, Counted, Counts
  <1>4. Follows
    BY WidthsAssumption DEF Init, Follows
  <1> QED
    BY <1>2, <1>3, <1>4 DEF IInv

(* Each iteration of either loop keeps the two in step. *)
LEMMA NextIInv == IInv /\ [Next]_vars => IInv'
  <1> SUFFICES ASSUME IInv, [Next]_vars
               PROVE  IInv'
    OBVIOUS
  <1>1. /\ NumAccounts \in Nat
        /\ instruction_size \in Nat
        /\ i \in Nat
        /\ i <= NumAccounts
        /\ \A k \in 0..(NumAccounts - 1) :
             /\ Size(k) \in Nat
             /\ EmptyAccountLen(Size(k)) \in Nat
    BY ArgsTyped DEF IInv, TypeOK
  <1>2. /\ NumAccounts' = NumAccounts
        /\ \A k : Size(k)' = Size(k)
        /\ instruction_size' = instruction_size
    BY DEF Next, ReserveAccount, Allocate, SerializeAccount, SerializeTail,
           Done, vars, args, NumAccounts, Size
  <1> USE WidthsAssumption
  <1>3. ASSUME ReserveAccount
        PROVE  IInv'
    <2> DEFINE s == EmptyAccountLen(Size(i))
    <2>1. i \in 0..(NumAccounts - 1) /\ Size(i) \in Nat
      BY <1>1, <1>3 DEF ReserveAccount
    <2>2. /\ s \in Nat
          /\ size' = size + s
      BY <1>3, <2>1, LoopsAgree DEF ReserveAccount
    <2>3. /\ size \in Nat
          /\ size = reserved[i]
          /\ reserved \in [0..i -> Nat]
      BY <1>3 DEF IInv, TypeOK, ReserveAccount, Counted, Counts, Follows
    <2>4. reserved' = [k \in 0..(i + 1) |-> IF k = i + 1 THEN size + s
                                                        ELSE reserved[k]]
      BY <1>3, <2>2 DEF ReserveAccount, Push
    <2>5. /\ reserved' \in [0..(i + 1) -> Nat]
          /\ reserved'[i + 1] = reserved[i] + s
          /\ \A k \in 0..i : reserved'[k] = reserved[k]
      BY <1>1, <2>2, <2>3, <2>4
    <2>6. /\ pc = "reserve" /\ pc' = "reserve"
          /\ i' = i + 1
          /\ account_offsets' = account_offsets
      BY <1>3 DEF ReserveAccount
    <2> HIDE DEF s
    <2>7. TypeOK'
      <3>1. i + 1 \in 0..NumAccounts
        BY <1>1, <2>1
      <3>2. \A k \in DOMAIN reserved' :
              k \in 0..NumAccounts /\ reserved'[k] \in Nat
        BY <1>1, <2>5, <3>1
      <3> QED
        BY <1>2, <1>3, <2>2, <2>3, <3>1, <3>2
           DEF IInv, TypeOK, ReserveAccount, args
    <2>8. Counted'
      <3>1. \A k \in 0..i :
              reserved'[k + 1] = reserved'[k] + EmptyAccountLen(Size(k))
        <4> TAKE k \in 0..i
        <4>1. CASE k = i
          BY <4>1, <1>1, <2>5 DEF s
        <4>2. CASE k < i
          <5>1. k \in 0..(i - 1) /\ k + 1 \in 0..i
            BY <1>1, <4>2
          <5>2. reserved[k + 1] = reserved[k] + EmptyAccountLen(Size(k))
            BY <5>1, <2>6 DEF IInv, Counted, Counts
          <5> QED
            BY <5>1, <5>2, <2>5
        <4> QED
          BY <4>1, <4>2, <1>1
      <3>2. \A j, k \in 0..(i + 1) :
              j < k => reserved'[j] + EmptyAccountLen(Size(j)) <= reserved'[k]
        <4> SUFFICES ASSUME NEW j \in 0..(i + 1), NEW k \in 0..(i + 1), j < k
                     PROVE  reserved'[j] + EmptyAccountLen(Size(j))
                              <= reserved'[k]
          OBVIOUS
        <4>1. j \in 0..i
          BY <1>1
        <4>2. CASE k = i + 1 /\ j = i
          BY <4>2, <2>2, <2>3, <2>5 DEF s
        <4>3. CASE k = i + 1 /\ j < i
          <5>1. reserved[j] + EmptyAccountLen(Size(j)) <= reserved[i]
            BY <4>3, <4>1, <1>1, <2>6 DEF IInv, Counted, Counts
          <5>2. /\ EmptyAccountLen(Size(j)) \in Nat
                /\ reserved[j] \in Nat
                /\ reserved[i] \in Nat
            BY <1>1, <2>1, <2>3, <4>1, <4>3
          <5> QED
            BY <5>1, <5>2, <4>1, <4>3, <2>2, <2>5
        <4>4. CASE k < i + 1
          <5>1. k \in 0..i
            BY <4>4, <1>1
          <5>2. reserved[j] + EmptyAccountLen(Size(j)) <= reserved[k]
            BY <5>1, <4>1, <2>6 DEF IInv, Counted, Counts
          <5> QED
            BY <5>1, <5>2, <4>1, <2>5
        <4> QED
          BY <4>1, <4>2, <4>3, <4>4, <1>1
      <3>3. Counts' = i + 1
        BY <2>6 DEF Counts
      <3>4. (i + 1) - 1 = i
        BY <1>1
      <3> QED
        BY <1>2, <2>5, <3>1, <3>2, <3>3, <3>4 DEF Counted
    <2>9. Follows'
      BY <1>1, <2>2, <2>3, <2>5, <2>6, <1>3 DEF IInv, Follows, ReserveAccount
    <2> QED
      BY <2>7, <2>8, <2>9 DEF IInv
  <1>4. ASSUME Allocate
        PROVE  IInv'
    <2>1. /\ pc = "reserve" /\ pc' = "accounts"
          /\ i = NumAccounts /\ i' = 0
          /\ size' = size + (U64 + instruction_size) + PUBKEY
          /\ len' = U64
          /\ UNCHANGED <<account_offsets, reserved, instruction_offset,
                         program_id_offset, account_sizes, instruction_size>>
      BY <1>4 DEF Allocate, args
    <2>2. TypeOK'
      BY <1>1, <1>2, <2>1 DEF IInv, TypeOK
    <2>3. Counts' = Counts
      BY <1>2, <2>1 DEF Counts
    <2>4. Counted'
      BY <1>2, <2>1, <2>3 DEF IInv, Counted
    <2>5. Follows'
      BY <1>1, <1>2, <2>1 DEF IInv, TypeOK, Follows
    <2> QED
      BY <2>2, <2>4, <2>5 DEF IInv
  <1>5. ASSUME SerializeAccount
        PROVE  IInv'
    <2> DEFINE s == EmptyAccountLen(Size(i))
    <2>1. /\ pc = "accounts"
          /\ i \in 0..(NumAccounts - 1)
          /\ Size(i) \in Nat
      BY <1>1, <1>5 DEF SerializeAccount
    <2>2. /\ len = reserved[i]
          /\ len \in Nat
          /\ size = reserved[NumAccounts] + U64 + instruction_size + PUBKEY
          /\ reserved \in [0..NumAccounts -> Nat]
          /\ account_offsets \in [0..(i - 1) -> Nat]
          /\ \A k \in 0..(i - 1) : account_offsets[k] = reserved[k]
      BY <2>1 DEF IInv, TypeOK, Counted, Counts, Follows
    <2>3. /\ s \in Nat
          /\ s = DataField + EmptyFillLen(Size(i)) + U64
          /\ DataField \in Nat
          /\ EmptyFillLen(Size(i)) \in Nat
      BY <2>1, LoopsAgree
    <2>4. reserved[i + 1] = len + s
      BY <2>1, <2>2 DEF IInv, Counted, Counts
    <2>5. len + s <= reserved[NumAccounts]
      <3>1. NumAccounts \in 0..Counts /\ i \in 0..Counts /\ i < NumAccounts
        BY <1>1, <2>1 DEF Counts
      <3> QED
        BY <2>2, <3>1 DEF IInv, Counted
    <2>6. len + DataField + EmptyFillLen(Size(i)) <= size
      <3> DEFINE total == reserved[NumAccounts]
                 fill == EmptyFillLen(Size(i))
      <3>1. /\ total \in Nat
            /\ fill \in Nat
            /\ len \in Nat
            /\ instruction_size \in Nat
        BY <1>1, <2>2, <2>3
      <3>2. /\ size = total + U64 + instruction_size + PUBKEY
            /\ len + (DataField + fill + U64) <= total
        BY <2>2, <2>3, <2>5
      <3> HIDE DEF total, fill
      <3>3. len + DataField + fill <= size
        BY <2>3, <3>1, <3>2
      <3> QED
        BY <3>3 DEF fill
    <2>7. /\ len' = len + s
          /\ i' = i + 1
          /\ pc' = pc
          /\ account_offsets' = Push(account_offsets, i, len)
          /\ UNCHANGED <<size, reserved, instruction_offset,
                         program_id_offset, account_sizes, instruction_size>>
      BY <1>5, <2>6 DEF SerializeAccount, args
    <2> HIDE DEF s
    <2>8. /\ account_offsets' \in [0..i -> Nat]
          /\ \A k \in 0..i : account_offsets'[k] = reserved[k]
      <3>1. /\ account_offsets' =
                 [k \in 0..i |-> IF k = i THEN len ELSE account_offsets[k]]
            /\ \A k \in 0..i : k = i \/ k \in 0..(i - 1)
        BY <1>1, <2>7 DEF Push
      <3>2. ASSUME NEW k \in 0..i
            PROVE  /\ account_offsets'[k] \in Nat
                   /\ account_offsets'[k] = reserved[k]
        BY <2>2, <3>1
      <3> QED
        BY <3>1, <3>2
    <2>9. i + 1 \in 0..NumAccounts /\ (i + 1) - 1 = i
      BY <1>1, <2>1
    <2>10. TypeOK'
      <3>1. len + s \in Nat
        BY <2>2, <2>3
      <3>2. \A k \in DOMAIN account_offsets' :
              k \in 0..(NumAccounts - 1) /\ account_offsets'[k] \in Nat
        BY <1>1, <2>1, <2>8
      <3> QED
        BY <1>2, <2>7, <2>9, <3>1, <3>2 DEF IInv, TypeOK
    <2>11. Counted'
      BY <1>2, <2>1, <2>7 DEF IInv, Counted, Counts
    <2>12. Follows'
      BY <1>1, <1>2, <2>1, <2>2, <2>4, <2>7, <2>8, <2>9 DEF IInv, Follows
    <2> QED
      BY <2>10, <2>11, <2>12 DEF IInv
  <1>6. ASSUME SerializeTail
        PROVE  IInv'
    <2>1. /\ pc = "accounts"
          /\ i = NumAccounts
          /\ len = reserved[NumAccounts]
          /\ len \in Nat
          /\ size = len + U64 + instruction_size + PUBKEY
          /\ account_offsets \in [0..(NumAccounts - 1) -> Nat]
          /\ \A k \in 0..(NumAccounts - 1) : account_offsets[k] = reserved[k]
      BY <1>1, <1>6 DEF SerializeTail, IInv, TypeOK, Follows
    <2>2. len + U64 + instruction_size <= size
      BY <1>1, <2>1
    <2>3. /\ pc' = "built"
          /\ instruction_offset' = len
          /\ program_id_offset' = len + U64 + instruction_size
          /\ len' = len + U64 + instruction_size + PUBKEY
          /\ UNCHANGED <<size, reserved, i, account_offsets, account_sizes,
                         instruction_size>>
      BY <1>6, <2>2 DEF SerializeTail, args
    <2>4. TypeOK'
      <3>1. len' \in Nat /\ instruction_offset' \in Nat
              /\ program_id_offset' \in Nat
        <4>1. len \in Nat /\ instruction_size \in Nat /\ U64 \in Nat
                /\ PUBKEY \in Nat
          BY <1>1, <2>1
        <4> QED
          BY <2>3, <4>1
      <3>2. NumAccounts' = NumAccounts
        BY <2>3 DEF NumAccounts
      <3>3. TypeOK
        BY DEF IInv
      <3> QED
        BY <2>3, <3>1, <3>2, <3>3 DEF TypeOK
    <2>5. Counted'
      BY <1>2, <2>1, <2>3 DEF IInv, Counted, Counts
    <2>6. Follows'
      BY <1>1, <1>2, <2>1, <2>3 DEF IInv, Follows
    <2> QED
      BY <2>4, <2>5, <2>6 DEF IInv
  <1>7. CASE UNCHANGED vars
    <2>1. TypeOK' /\ Counted'
      BY <1>7, <1>2 DEF vars, args, IInv, TypeOK, Counted, Counts
    <2>2. Follows'
      BY <1>7, <1>2 DEF vars, args, IInv, Follows
    <2> QED
      BY <2>1, <2>2 DEF IInv
  <1> QED
    BY <1>3, <1>4, <1>5, <1>6, <1>7 DEF Next, Done

-----------------------------------------------------------------------------
(* `new' keeps its variables in their types: the loop counter never leaves *)
(* the list of accounts, and the vectors never outgrow it.                 *)
THEOREM TypeCorrect == Spec => []TypeOK
  <1>1. IInv => TypeOK
    BY DEF IInv
  <1> QED
    BY <1>1, InitIInv, NextIInv, PTL DEF Spec

(* The unchecked writes of `new' stay within the capacity computed by its  *)
(* first loop, for every account_sizes and instruction_size.               *)
THEOREM ConstructionNoOverrun == Spec => []NoOverrun
  <1>1. ASSUME IInv
        PROVE  NoOverrun
    <2>1. NumAccounts \in Nat /\ instruction_size \in Nat
      BY <1>1, ArgsTyped DEF IInv
    <2>2. CASE pc = "accounts"
      <3>1. reserved[i] <= reserved[NumAccounts]
        <4>1. CASE i = NumAccounts
          BY <4>1, <1>1, <2>2, <2>1 DEF IInv, Counted, Counts
        <4>2. CASE i < NumAccounts
          <5>1. i \in 0..(NumAccounts - 1)
            BY <1>1, <4>2, <2>1 DEF IInv, TypeOK
          <5>2. reserved[i] + EmptyAccountLen(Size(i)) <= reserved[NumAccounts]
            BY <1>1, <2>1, <2>2, <4>2, <5>1 DEF IInv, Counted, Counts
          <5>3. EmptyAccountLen(Size(i)) \in Nat
            BY <1>1, <5>1, ArgsTyped DEF IInv
          <5> QED
            BY <1>1, <2>1, <2>2, <5>1, <5>2, <5>3 DEF IInv, Counted, Counts
        <4> QED
          BY <4>1, <4>2, <1>1, <2>1 DEF IInv, TypeOK
      <3>2. reserved[i] \in Nat /\ reserved[NumAccounts] \in Nat
        BY <1>1, <2>1, <2>2 DEF IInv, TypeOK, Counted, Counts
      <3> QED
        BY <1>1, <2>1, <2>2, <3>1, <3>2, WidthsAssumption
           DEF IInv, Follows, NoOverrun
    <2>3. CASE pc = "built"
      BY <1>1, <2>1, <2>3, WidthsAssumption
         DEF IInv, TypeOK, Counted, Counts, Follows, NoOverrun
    <2> QED
      BY <1>1, <2>2, <2>3 DEF IInv, TypeOK, Follows, NoOverrun
  <1> QED
    BY <1>1, InitIInv, NextIInv, PTL DEF Spec

(* `new' never fails in fill_write, and fills its capacity exactly. *)
THEOREM ConstructionExactFit == Spec => []ExactFit
  <1>1. ASSUME IInv
        PROVE  ExactFit
    <2>1. NumAccounts \in Nat /\ instruction_size \in Nat
      BY <1>1, ArgsTyped DEF IInv
    <2> QED
      BY <1>1, <2>1, WidthsAssumption
         DEF IInv, TypeOK, Counted, Counts, Follows, ExactFit
  <1> QED
    BY <1>1, InitIInv, NextIInv, PTL DEF Spec

(* The recorded offsets delimit consecutive, disjoint slots, followed by   *)
(* the instruction and the program id.                                     *)
THEOREM ConstructionLayout == Spec => []LayoutOK
  <1>1. ASSUME IInv
        PROVE  LayoutOK
    <2> SUFFICES ASSUME pc = "built"
                 PROVE  LayoutOK
      BY DEF LayoutOK
    <2>1. NumAccounts \in Nat /\ Counts = NumAccounts
      BY <1>1, ArgsTyped DEF IInv, Counts
    <2>2. \A k \in 0..(NumAccounts - 1) :
            /\ account_offsets[k] = reserved[k]
            /\ SlotEnd(k) = reserved[k + 1]
      BY <1>1, <2>1 DEF IInv, Counted, Follows, SlotEnd
    <2>3. \A k \in 0..(NumAccounts - 1) :
            SlotEnd(k) = IF k + 1 = NumAccounts THEN instruction_offset
                                                ELSE account_offsets[k + 1]
      <3>1. \A k \in 0..(NumAccounts - 1) :
              k + 1 /= NumAccounts => k + 1 \in 0..(NumAccounts - 1)
        BY <2>1
      <3>2. instruction_offset = reserved[NumAccounts]
        BY <1>1 DEF IInv, Follows
      <3> QED
        BY <2>1, <2>2, <3>1, <3>2
    <2>4. \A j, k \in 0..(NumAccounts - 1) :
            j < k => SlotEnd(j) <= account_offsets[k]
      BY <1>1, <2>1, <2>2 DEF IInv, Counted, SlotEnd
    <2>5. \A k \in 0..(NumAccounts - 1) : SlotEnd(k) <= instruction_offset
      BY <1>1, <2>1, <2>2 DEF IInv, Counted, Follows, SlotEnd
    <2> QED
      BY <1>1, <2>3, <2>4, <2>5 DEF LayoutOK, IInv, Follows
  <1> QED
    BY <1>1, InitIInv, NextIInv, PTL DEF Spec

(* Every account counted adds a multiple of ALIGN. *)
LEMMA NextCountsAligned ==
  IInv /\ CountsAligned /\ [Next]_vars => CountsAligned'
  <1> SUFFICES ASSUME IInv, CountsAligned, [Next]_vars
               PROVE  CountsAligned'
    OBVIOUS
  <1>1. CASE ReserveAccount
    <2> DEFINE s == EmptyAccountLen(Size(i))
    <2>1. /\ pc = "reserve" /\ pc' = "reserve" /\ i' = i + 1
          /\ i \in 0..(NumAccounts - 1) /\ i \in Nat
          /\ Size(i) \in Nat
      BY <1>1, ArgsTyped DEF ReserveAccount, IInv, TypeOK
    <2>2. /\ s \in Nat /\ s % ALIGN = 0
          /\ size' = size + s
      BY <1>1, <2>1, LoopsAgree, SlotAligned DEF ReserveAccount
    <2>3. /\ size = reserved[i] /\ size \in Nat
          /\ \A k \in 0..i : reserved[k] % ALIGN = 0
      BY <2>1 DEF IInv, TypeOK, Follows, CountsAligned, Counts
    <2> HIDE DEF s
    <2>4. (size + s) % ALIGN = 0
      <3>1. size % ALIGN = 0
        BY <2>1, <2>3
      <3> QED
        BY <2>2, <2>3, <3>1, AddMultiple
    <2>5. reserved' = [k \in 0..(i + 1) |-> IF k = i + 1 THEN size + s
                                                        ELSE reserved[k]]
      BY <1>1, <2>2 DEF ReserveAccount, Push
    <2>6. \A k \in 0..(i + 1) : reserved'[k] % ALIGN = 0
      <3> TAKE k \in 0..(i + 1)
      <3>1. CASE k = i + 1
        BY <3>1, <2>4, <2>5
      <3>2. CASE k \in 0..i
        BY <3>2, <2>1, <2>3, <2>5
      <3> QED
        BY <3>1, <3>2, <2>1
    <2> QED
      BY <2>1, <2>6 DEF CountsAligned, Counts
  <1>2. CASE ~ReserveAccount
    <2>1. reserved' = reserved /\ Counts' = Counts
      BY <1>2 DEF Next, Allocate, SerializeAccount, SerializeTail, Done, vars,
                  args, Counts, NumAccounts
    <2> QED
      BY <2>1 DEF CountsAligned
  <1> QED
    BY <1>1, <1>2

(* Every slot and the instruction start at an aligned address, which is    *)
(* what makes padding by size and padding by address the same.             *)
THEOREM ConstructionAligned == Spec => []SlotsAligned
  <1>1. Init => CountsAligned
    BY AlignedAssumption DEF Init, CountsAligned, Counts
  <1>2. ASSUME IInv, CountsAligned
        PROVE  SlotsAligned
    <2>1. NumAccounts \in Nat
      BY <1>2, ArgsTyped DEF IInv
    <2> QED
      BY <1>2, <2>1 DEF IInv, Follows, CountsAligned, Counts, SlotsAligned
  <1> QED
    BY <1>1, <1>2, InitIInv, NextIInv, NextCountsAligned, PTL DEF Spec
=============================================================================
