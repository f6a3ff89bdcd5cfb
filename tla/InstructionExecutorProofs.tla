--------------------- MODULE InstructionExecutorProofs ---------------------
(***************************************************************************)
(* InstructionExecutor keeps its parts apart, for every number and size of *)
(* accounts, every input and every program.                                *)
(***************************************************************************)
EXTENDS InstructionExecutor, SequenceTheorems, TLAPS

-----------------------------------------------------------------------------
(* The lengths and alignments of InputLayout, for every field width. *)

(* Every field offset and length of the layout is a natural number. *)
LEMMA AlignOffsetNat ==
  ASSUME NEW n \in Nat
  PROVE  AlignOffset(n) \in Nat
  <1>1. n % ALIGN \in 0..(ALIGN - 1)
    BY WidthsAssumption
  <1>2. ALIGN - (n % ALIGN) \in Nat
    BY <1>1, WidthsAssumption
  <1> QED
    BY <1>2, WidthsAssumption DEF AlignOffset

(* The two loops of `new' agree on every account: it reserves for it       *)
(* exactly what write_empty_account writes.                                *)
LEMMA LoopsAgree ==
  ASSUME NEW s \in Nat
  PROVE  /\ DataField \in Nat
         /\ EmptyFillLen(s) \in Nat
         /\ EmptyAccountLen(s) \in Nat
         /\ ReservedLen(s) = EmptyAccountLen(s)
         /\ EmptyAccountLen(s) = DataField + EmptyFillLen(s) + U64
  BY AlignOffsetNat, WidthsAssumption
     DEF ReservedLen, EmptyAccountLen, EmptyFillLen, DataField, DataLenField,
         LamportsField, OwnerField, KeyField

(* Division with remainder, as the provers know it. *)
LEMMA Division ==
  ASSUME NEW n \in Nat
  PROVE  /\ n \div ALIGN \in Nat
         /\ n % ALIGN \in 0..(ALIGN - 1)
         /\ n = ALIGN * (n \div ALIGN) + (n % ALIGN)
  BY WidthsAssumption

(* The remainder of a number written as a multiple of ALIGN and a rest. *)
LEMMA Remainder ==
  ASSUME NEW q \in Nat, NEW r \in 0..(ALIGN - 1)
  PROVE  (ALIGN * q + r) % ALIGN = r
  BY WidthsAssumption

(* A multiple of the alignment does not change a remainder. *)
LEMMA AddMultiple ==
  ASSUME NEW a \in Nat, NEW n \in Nat, a % ALIGN = 0
  PROVE  (a + n) % ALIGN = n % ALIGN
  <1> DEFINE p == a \div ALIGN
             q == n \div ALIGN
             r == n % ALIGN
  <1>1. p \in Nat /\ q \in Nat /\ r \in 0..(ALIGN - 1) /\ ALIGN \in Nat
    BY Division, WidthsAssumption
  <1>2. a = ALIGN * p + 0 /\ n = ALIGN * q + r
    BY Division
  <1> HIDE DEF p, q, r
  <1>3. p + q \in Nat /\ (ALIGN * (p + q) + r) % ALIGN = r
    BY <1>1, Remainder
  <1>4. a + n = ALIGN * (p + q) + r
    BY <1>1, <1>2
  <1>5. (a + n) % ALIGN = r
    BY <1>3, <1>4
  <1> QED
    BY <1>5 DEF r

(* What aligns n aligns it also after a multiple of the alignment: padding *)
(* by size, as the executor does, is padding by address, as the program's  *)
(* entrypoint does, from an aligned slot.                                  *)
LEMMA AlignOffsetShift ==
  ASSUME NEW a \in Nat, NEW n \in Nat, a % ALIGN = 0
  PROVE  AlignOffset(a + n) = AlignOffset(n)
  BY AddMultiple DEF AlignOffset

-----------------------------------------------------------------------------
(* The layout. *)

(* The fields of a slot lie in the order of the layout. *)
LEMMA Fields ==
  /\ U32 \in Nat /\ U64 \in Nat \ {0} /\ PUBKEY \in Nat \ {0}
  /\ MAX_INCREASE \in Nat
  /\ OwnerField \in Nat /\ LamportsField \in Nat /\ DataLenField \in Nat
  /\ DataField \in Nat
  /\ OwnerField + PUBKEY = LamportsField
  /\ LamportsField + U64 = DataLenField
  /\ DataLenField + U64 = DataField
  BY WidthsAssumption
     DEF OwnerField, LamportsField, DataLenField, DataField, KeyField

(* Rounding up to the alignment gives a natural number, not smaller. *)
LEMMA RoundedNat ==
  ASSUME NEW n \in Nat
  PROVE  Rounded(n) \in Nat /\ n <= Rounded(n)
  BY AlignOffsetNat DEF Rounded

(* Where a slot and its parts begin and end. *)
LEMMA SlotFacts ==
  ASSUME NEW i \in Slots
  PROVE  /\ AccountSize[i] \in Nat
         /\ RoomLen(i) \in Nat
         /\ RoomLen(i) = Rounded(AccountSize[i]) + MAX_INCREASE
         /\ AccountSize[i] <= RoomLen(i)
         /\ AccountOffset[i] \in Nat
         /\ AccountOffset[i + 1] \in Nat
         /\ AccountOffset[i + 1] = AccountOffset[i] + DataField + RoomLen(i) + U64
         /\ EmptyAccountLen(AccountSize[i]) = DataField + RoomLen(i) + U64
         /\ U64 <= AccountOffset[i]
         /\ AccountOffset[i + 1] <= InstructionOffset
  <1>1. /\ NumAccounts \in Nat /\ i \in 0..NumAccounts
        /\ i + 1 \in 0..NumAccounts /\ AccountSize[i] \in Nat
        /\ NumAccounts \in 0..NumAccounts /\ i < NumAccounts
    BY LayoutAssumption DEF Slots
  <1>2. /\ AccountOffset[i] \in Nat
        /\ AccountOffset[i + 1] \in Nat
        /\ AccountOffset[i + 1] =
             AccountOffset[i] + EmptyAccountLen(AccountSize[i])
        /\ AccountOffset[i] + EmptyAccountLen(AccountSize[i])
             <= InstructionOffset
    BY <1>1, LayoutAssumption DEF InstructionOffset
  <1>3. /\ RoomLen(i) \in Nat
        /\ RoomLen(i) = Rounded(AccountSize[i]) + MAX_INCREASE
        /\ AccountSize[i] <= RoomLen(i)
    BY <1>1, RoundedNat, Fields DEF RoomLen
  <1>4. EmptyAccountLen(AccountSize[i]) = DataField + RoomLen(i) + U64
    BY <1>1, AlignOffsetNat, Fields
       DEF RoomLen, Rounded, EmptyAccountLen, EmptyFillLen
  <1>5. U64 <= AccountOffset[i]
    <2>1. CASE i = 0
      BY <2>1, Fields, LayoutAssumption
    <2>2. CASE i > 0
      <3>0. 0 \in Slots
        BY <1>1, <2>2 DEF Slots
      <3>1. /\ AccountSize[0] \in Nat
            /\ EmptyAccountLen(AccountSize[0]) \in Nat
        BY <3>0, LoopsAgree, LayoutAssumption
      <3>2. U64 + EmptyAccountLen(AccountSize[0]) <= AccountOffset[i]
        BY <1>1, <2>2, <3>0, LayoutAssumption
      <3> QED
        BY <1>2, <3>1, <3>2, Fields
    <2> QED
      BY <2>1, <2>2, <1>1
  <1> QED
    BY <1>1, <1>2, <1>3, <1>4, <1>5, Fields

(* Of two slots, one ends before the other begins. *)
LEMMA SlotsDisjoint ==
  ASSUME NEW i \in Slots, NEW j \in Slots, i /= j
  PROVE  \/ AccountOffset[i + 1] <= AccountOffset[j]
         \/ AccountOffset[j + 1] <= AccountOffset[i]
  <1>1. NumAccounts \in Nat /\ i \in 0..NumAccounts /\ j \in 0..NumAccounts
    BY LayoutAssumption DEF Slots
  <1> QED
    BY <1>1, LayoutAssumption

(* The instruction and the program id follow the slots. *)
LEMMA TailFacts ==
  /\ InstructionOffset \in Nat /\ ProgramIdOffset \in Nat /\ BufferLen \in Nat
  /\ InstructionSize \in Nat
  /\ ProgramIdOffset = InstructionOffset + U64 + InstructionSize
  /\ BufferLen = ProgramIdOffset + PUBKEY
  /\ U64 <= InstructionOffset
  <1>1. NumAccounts \in Nat /\ InstructionOffset \in Nat
    BY LayoutAssumption DEF InstructionOffset
  <1>2. U64 <= InstructionOffset
    <2>1. CASE NumAccounts = 0
      BY <2>1, Fields, LayoutAssumption DEF InstructionOffset
    <2>2. CASE NumAccounts /= 0
      <3>1. 0 \in Slots
        BY <1>1, <2>2 DEF Slots
      <3>2. /\ AccountOffset[0] \in Nat /\ U64 <= AccountOffset[0]
            /\ AccountOffset[1] = AccountOffset[0] + DataField + RoomLen(0) + U64
            /\ AccountOffset[1] <= InstructionOffset
            /\ RoomLen(0) \in Nat
        BY <3>1, SlotFacts
      <3> QED
        BY <1>1, <3>2, Fields
    <2> QED
      BY <2>1, <2>2
  <1> QED
    BY <1>1, <1>2, Fields, LayoutAssumption DEF ProgramIdOffset, BufferLen

-----------------------------------------------------------------------------
(* Bytes. *)

(* fill_write writes bytes. *)
LEMMA ZerosTyped ==
  ASSUME NEW n \in Nat
  PROVE  /\ Zeros(n) \in Seq(Cells)
         /\ Len(Zeros(n)) = n
         /\ \A k \in 1..n : Zeros(n)[k] = Zero
  BY DEF Zeros, Zero, Cells

(* An integer is U64 bytes. *)
LEMMA IntBytesTyped ==
  ASSUME NEW n \in Nat
  PROVE  /\ IntBytes(n, U64) \in Seq(Cells)
         /\ Len(IntBytes(n, U64)) = U64
         /\ IntBytes(n, U64)[1] = Byte(n)
         /\ \A k \in 2..U64 : IntBytes(n, U64)[k] = Zero
  BY Fields DEF IntBytes, Zero, Byte, Cells

(* A pubkey is PUBKEY bytes. *)
LEMMA KeyBytesTyped ==
  ASSUME NEW p \in Keys
  PROVE  /\ KeyBytes(p) \in Seq(Cells)
         /\ Len(KeyBytes(p)) = PUBKEY
  <1>1. p \in Nat
    BY BoundsAssumption DEF Keys
  <1> QED
    BY <1>1, Fields DEF KeyBytes, Zero, Cells

(* A write changes the bytes it covers and no other. *)
LEMMA WriteAtFacts ==
  ASSUME NEW m \in [Addr -> Cells], NEW at \in Nat, NEW bytes \in Seq(Cells)
  PROVE  /\ WriteAt(m, at, bytes) \in [Addr -> Cells]
         /\ \A a \in Addr :
              (a < at \/ at + Len(bytes) <= a) => WriteAt(m, at, bytes)[a] = m[a]
         /\ \A a \in Addr :
              (at <= a /\ a < at + Len(bytes))
                => WriteAt(m, at, bytes)[a] = bytes[a - at + 1]
  <1>1. Len(bytes) \in Nat /\ \A k \in 1..Len(bytes) : bytes[k] \in Cells
    OBVIOUS
  <1>2. \A a \in Addr : a \in Nat
    BY TailFacts DEF Addr
  <1>3. DOMAIN m = Addr
    OBVIOUS
  <1>4. \A a \in Addr : a \in at..(at + Len(bytes) - 1)
          <=> at <= a /\ a < at + Len(bytes)
    BY <1>1, <1>2
  <1>5. \A a \in Addr : at <= a /\ a < at + Len(bytes)
          => a - at + 1 \in 1..Len(bytes)
    BY <1>1, <1>2
  <1>6. \A a \in Addr : WriteAt(m, at, bytes)[a] =
          IF at <= a /\ a < at + Len(bytes) THEN bytes[a - at + 1] ELSE m[a]
    BY <1>3, <1>4 DEF WriteAt
  <1>7. \A a \in Addr : WriteAt(m, at, bytes)[a] \in Cells
    BY <1>1, <1>5, <1>6
  <1>8. WriteAt(m, at, bytes) \in [Addr -> Cells]
    BY <1>3, <1>7 DEF WriteAt
  <1> QED
    BY <1>1, <1>2, <1>6, <1>8

(* A byte inside what was written. *)
LEMMA WriteInside ==
  ASSUME NEW m \in [Addr -> Cells], NEW at \in Nat, NEW bytes \in Seq(Cells),
         NEW a \in Addr, at <= a, a < at + Len(bytes)
  PROVE  WriteAt(m, at, bytes)[a] = bytes[a - at + 1]
  BY WriteAtFacts

(* Bytes written one after the other. *)
LEMMA Concat ==
  ASSUME NEW s \in Seq(Cells), NEW t \in Seq(Cells)
  PROVE  /\ s \o t \in Seq(Cells)
         /\ Len(s \o t) = Len(s) + Len(t)
         /\ Len(s) \in Nat /\ Len(t) \in Nat
         /\ \A k \in 1..Len(s) : (s \o t)[k] = s[k]
         /\ \A k \in 1..Len(t) : (s \o t)[Len(s) + k] = t[k]
  OBVIOUS

AccountArgs ==
  [key : Keys, owner : Keys, lamports : Nat, rent_epoch : Nat,
   data : Seq(Cells), signer : BOOLEAN, writable : BOOLEAN,
   executable : BOOLEAN]

(* write_account writes a whole slot, and the length field holds the       *)
(* capacity.                                                               *)
LEMMA AccountBytesFacts ==
  ASSUME NEW i \in Slots, NEW acc \in AccountArgs,
         Len(acc.data) <= AccountSize[i]
  PROVE  /\ AccountBytes(i, acc) \in Seq(Cells)
         /\ Len(AccountBytes(i, acc)) = AccountOffset[i + 1] - AccountOffset[i]
         /\ AccountBytes(i, acc)[DataLenField + 1] = Byte(AccountSize[i])
         /\ \A k \in 1..(U64 - 1) :
              AccountBytes(i, acc)[DataLenField + 1 + k] = Zero
  <1> DEFINE marks == <<Byte(255), Byte(Flag(acc.signer)),
                        Byte(Flag(acc.writable)), Byte(Flag(acc.executable))>>
             z1 == Zeros(U32)
             h1 == marks \o z1
             h2 == h1 \o KeyBytes(acc.key)
             h3 == h2 \o KeyBytes(acc.owner)
             lp == IntBytes(acc.lamports, U64)
             h4 == h3 \o lp
             sz == IntBytes(AccountSize[i], U64)
             h5 == h4 \o sz
             h6 == h5 \o acc.data
             pad == AccountSize[i] - Len(acc.data) + MAX_INCREASE
                      + AlignOffset(AccountSize[i])
             z2 == Zeros(pad)
             h7 == h6 \o z2
             re == IntBytes(acc.rent_epoch, U64)
             h8 == h7 \o re
  <1>0. /\ acc.key \in Keys /\ acc.owner \in Keys /\ acc.lamports \in Nat
        /\ acc.rent_epoch \in Nat /\ acc.data \in Seq(Cells)
        /\ AccountSize[i] \in Nat /\ Len(acc.data) \in Nat
    BY SlotFacts DEF AccountArgs
  <1>1. AccountBytes(i, acc) = h8
    BY DEF AccountBytes, AccountHeader
  <1>2. marks \in Seq(Cells) /\ Len(marks) = 4
    BY DEF Byte, Flag, Cells
  <1> HIDE DEF marks
  <1>3. h1 \in Seq(Cells) /\ Len(h1) = 4 + U32
    <2>1. z1 \in Seq(Cells) /\ Len(z1) = U32
      BY ZerosTyped, Fields
    <2> HIDE DEF z1
    <2>2. h1 \in Seq(Cells) /\ Len(h1) = Len(marks) + Len(z1)
      BY <1>2, <2>1, Concat
    <2> HIDE DEF h1
    <2> QED
      BY <1>2, <2>1, <2>2
  <1> HIDE DEF h1
  <1>4. h2 \in Seq(Cells) /\ Len(h2) = 4 + U32 + PUBKEY
    BY <1>0, <1>3, Concat, KeyBytesTyped, Fields
  <1> HIDE DEF h2
  <1>5. h3 \in Seq(Cells) /\ Len(h3) = 4 + U32 + PUBKEY + PUBKEY
    BY <1>0, <1>4, Concat, KeyBytesTyped, Fields
  <1> HIDE DEF h3
  <1>6. h4 \in Seq(Cells) /\ Len(h4) = DataLenField
    <2>1. lp \in Seq(Cells) /\ Len(lp) = U64
      BY <1>0, IntBytesTyped
    <2> HIDE DEF lp
    <2>2. h4 \in Seq(Cells) /\ Len(h4) = Len(h3) + Len(lp)
      BY <1>5, <2>1, Concat
    <2> HIDE DEF h4
    <2> QED
      BY <1>5, <2>1, <2>2, Fields DEF DataLenField, LamportsField, OwnerField, KeyField
  <1> HIDE DEF h4
  <1>7. /\ sz \in Seq(Cells) /\ Len(sz) = U64
        /\ sz[1] = Byte(AccountSize[i])
        /\ \A k \in 2..U64 : sz[k] = Zero
    BY <1>0, IntBytesTyped
  <1> HIDE DEF sz
  <1>8. /\ h5 \in Seq(Cells) /\ Len(h5) = DataField
        /\ \A k \in 1..U64 : h5[DataLenField + k] = sz[k]
    <2>1. /\ h5 \in Seq(Cells) /\ Len(h5) = Len(h4) + Len(sz)
          /\ \A k \in 1..Len(sz) : h5[Len(h4) + k] = sz[k]
      BY <1>6, <1>7, Concat
    <2> HIDE DEF h5
    <2> QED
      BY <2>1, <1>6, <1>7, Fields
  <1> HIDE DEF h5
  <1>9. /\ h6 \in Seq(Cells) /\ Len(h6) = DataField + Len(acc.data)
        /\ \A k \in 1..DataField : h6[k] = h5[k]
    BY <1>0, <1>8, Concat
  <1> HIDE DEF h6
  <1>10. /\ pad \in Nat
         /\ Len(acc.data) + pad = RoomLen(i)
    <2>1. AlignOffset(AccountSize[i]) \in Nat /\ MAX_INCREASE \in Nat
      BY <1>0, AlignOffsetNat, Fields
    <2> QED
      BY <1>0, <2>1 DEF RoomLen, Rounded
  <1> HIDE DEF pad
  <1>11. /\ h7 \in Seq(Cells) /\ Len(h7) = DataField + RoomLen(i)
         /\ \A k \in 1..DataField : h7[k] = h5[k]
    <2>1. /\ z2 \in Seq(Cells) /\ Len(z2) = pad
      BY <1>10, ZerosTyped
    <2> HIDE DEF z2
    <2>2. /\ h7 \in Seq(Cells) /\ Len(h7) = Len(h6) + Len(z2)
          /\ \A k \in 1..Len(h6) : h7[k] = h6[k]
      BY <1>9, <2>1, Concat
    <2> HIDE DEF h7
    <2>3. /\ RoomLen(i) \in Nat /\ DataField \in Nat
          /\ Len(h6) = DataField + Len(acc.data)
          /\ Len(h7) = Len(h6) + pad
      BY <2>1, <2>2, <1>9, SlotFacts, Fields
    <2>4. Len(h7) = DataField + RoomLen(i)
      BY <2>3, <1>0, <1>10
    <2>5. \A k \in 1..DataField : k \in 1..Len(h6)
      BY <2>3, <1>0
    <2> QED
      BY <2>2, <2>4, <2>5, <1>9
  <1> HIDE DEF h7
  <1>12. /\ h8 \in Seq(Cells) /\ Len(h8) = DataField + RoomLen(i) + U64
         /\ \A k \in 1..DataField : h8[k] = h5[k]
    <2>1. re \in Seq(Cells) /\ Len(re) = U64
      BY <1>0, IntBytesTyped
    <2> HIDE DEF re
    <2>2. /\ h8 \in Seq(Cells) /\ Len(h8) = Len(h7) + Len(re)
          /\ \A k \in 1..Len(h7) : h8[k] = h7[k]
      BY <1>11, <2>1, Concat
    <2> HIDE DEF h8
    <2>3. RoomLen(i) \in Nat /\ DataField \in Nat
      BY SlotFacts, Fields
    <2>4. \A k \in 1..DataField : k \in 1..Len(h7)
      BY <2>3, <1>11
    <2> QED
      BY <2>1, <2>2, <2>4, <1>11
  <1> HIDE DEF h8
  <1>13. \A k \in 1..U64 : h8[DataLenField + k] = sz[k]
    <2> TAKE k \in 1..U64
    <2>1. DataLenField + k \in 1..DataField
      BY Fields
    <2> QED
      BY <2>1, <1>8, <1>12
  <1>14. h8[DataLenField + 1] = Byte(AccountSize[i])
    BY <1>7, <1>13, Fields
  <1>15. \A k \in 1..(U64 - 1) : h8[DataLenField + 1 + k] = Zero
    <2> TAKE k \in 1..(U64 - 1)
    <2>1. k + 1 \in 2..U64 /\ k + 1 \in 1..U64
          /\ DataLenField + 1 + k = DataLenField + (k + 1)
      BY Fields
    <2> QED
      BY <2>1, <1>7, <1>13
  <1> QED
    BY <1>1, <1>12, <1>14, <1>15, SlotFacts, Fields

-----------------------------------------------------------------------------
(* Type correctness. *)

Views == [executable : BOOLEAN, owner : Keys, lamports : Nat,
          room : Seq(Cells), len : Nat, rent_epoch : Nat]

(* The account `new' serialises is one update_account could be given. *)
LEMMA EmptyAccountTyped == EmptyAccount \in AccountArgs /\ EmptyAccount.data = <<>>
  <1>1. 0 \in Keys /\ <<>> \in Seq(Cells)
    BY DEF Keys
  <1> QED
    BY <1>1 DEF EmptyAccount, AccountArgs

(* The record of an account as update_account leaves it. *)
LEMMA ViewOfTyped ==
  ASSUME NEW i \in Slots, NEW acc \in AccountArgs,
         Len(acc.data) <= AccountSize[i]
  PROVE  ViewOf(i, acc) \in Views /\ ViewOf(i, acc).len = AccountSize[i]
  <1>1. /\ acc.owner \in Keys /\ acc.lamports \in Nat /\ acc.rent_epoch \in Nat
        /\ acc.executable \in BOOLEAN /\ acc.data \in Seq(Cells)
        /\ Len(acc.data) \in Nat
    BY DEF AccountArgs
  <1>2. RoomLen(i) - Len(acc.data) \in Nat /\ AccountSize[i] \in Nat
    BY <1>1, SlotFacts
  <1>3. acc.data \o Zeros(RoomLen(i) - Len(acc.data)) \in Seq(Cells)
    BY <1>1, <1>2, ZerosTyped, Concat
  <1> QED
    BY <1>1, <1>2, <1>3 DEF ViewOf, Views

(* An address belongs to at most one slot. *)
LEMMA SlotUnique ==
  ASSUME NEW i \in Slots, NEW a \in SlotRegion(i)
  PROVE  (CHOOSE j \in Slots : a \in SlotRegion(j)) = i
  <1> DEFINE c == CHOOSE j \in Slots : a \in SlotRegion(j)
  <1>1. c \in Slots /\ a \in SlotRegion(c)
    OBVIOUS
  <1> HIDE DEF c
  <1>2. /\ AccountOffset[i] \in Nat /\ AccountOffset[i + 1] \in Nat
        /\ AccountOffset[c] \in Nat /\ AccountOffset[c + 1] \in Nat
    BY <1>1, SlotFacts
  <1>3. c = i
    BY <1>1, <1>2, SlotsDisjoint DEF SlotRegion
  <1> QED
    BY <1>3 DEF c

(* What `new' leaves in the length fields, the instruction and the id. *)
LEMMA EmptyBufferFacts ==
  /\ EmptyBuffer \in [Addr -> Cells]
  /\ \A i \in Slots : \A a \in SlotRegion(i) :
       a \in Addr /\ EmptyBuffer[a] =
         AccountBytes(i, EmptyAccount)[a - AccountOffset[i] + 1]
  <1>1. ASSUME NEW i \in Slots
        PROVE  /\ AccountBytes(i, EmptyAccount) \in Seq(Cells)
               /\ Len(AccountBytes(i, EmptyAccount)) =
                    AccountOffset[i + 1] - AccountOffset[i]
    BY EmptyAccountTyped, AccountBytesFacts, SlotFacts
  <1>2. ASSUME NEW i \in Slots, NEW a \in SlotRegion(i)
        PROVE  /\ AccountBytes(i, EmptyAccount)[a - AccountOffset[i] + 1] \in Cells
               /\ a \in Addr /\ a /= 0 /\ a /= InstructionOffset
    <2>1. /\ AccountOffset[i] \in Nat /\ AccountOffset[i + 1] \in Nat
          /\ U64 <= AccountOffset[i]
          /\ AccountOffset[i + 1] <= InstructionOffset
          /\ a \in AccountOffset[i]..(AccountOffset[i + 1] - 1)
      BY SlotFacts DEF SlotRegion
    <2>2. a - AccountOffset[i] + 1 \in 1..(AccountOffset[i + 1] - AccountOffset[i])
      BY <2>1
    <2>3. a \in Addr /\ a /= 0 /\ a /= InstructionOffset
      BY <2>1, TailFacts, Fields DEF Addr
    <2> QED
      BY <1>1, <2>2, <2>3
  <1>3. ASSUME NEW a \in Addr
        PROVE  EmptyBuffer[a] \in Cells
    <2>1. NumAccounts \in Nat /\ InstructionSize \in Nat
      BY LayoutAssumption
    <2>2. CASE a = 0
      BY <2>1, <2>2 DEF EmptyBuffer, Byte, Cells
    <2>3. CASE a /= 0 /\ a = InstructionOffset
      BY <2>1, <2>3 DEF EmptyBuffer, Byte, Cells
    <2>4. ASSUME a /= 0, a /= InstructionOffset,
                 NEW i \in Slots, a \in SlotRegion(i)
          PROVE  EmptyBuffer[a] \in Cells
      <3>1. EmptyBuffer[a] = AccountBytes(i, EmptyAccount)[a - AccountOffset[i] + 1]
        BY <2>4, SlotUnique DEF EmptyBuffer
      <3> QED
        BY <2>4, <3>1, <1>2
    <2>5. CASE /\ a /= 0 /\ a /= InstructionOffset
               /\ ~\E i \in Slots : a \in SlotRegion(i)
      BY <2>5 DEF EmptyBuffer, Zero, Cells
    <2> QED
      BY <2>2, <2>3, <2>4, <2>5
  <1>4. ASSUME NEW i \in Slots, NEW a \in SlotRegion(i)
        PROVE  a \in Addr /\ EmptyBuffer[a] =
                 AccountBytes(i, EmptyAccount)[a - AccountOffset[i] + 1]
    BY <1>2, SlotUnique DEF EmptyBuffer
  <1>5. EmptyBuffer \in [Addr -> Cells]
    BY <1>3 DEF EmptyBuffer
  <1> QED
    BY <1>4, <1>5

(* A new executor is well typed. *)
LEMMA InitTypeOK == Init => TypeOK
  <1> SUFFICES ASSUME Init
               PROVE  TypeOK
    OBVIOUS
  <1> USE DEF Init
  <1>1. mem \in [Addr -> Cells]
    BY EmptyBufferFacts
  <1>2. view \in [Slots -> Views]
    <2>1. \A i \in Slots : ViewOf(i, EmptyAccount) \in Views
      BY EmptyAccountTyped, ViewOfTyped, SlotFacts
    <2> QED
      BY <2>1
  <1>3. /\ 0 \in Keys /\ NumAccounts \in Nat /\ InstructionSize \in Nat
        /\ U64 \in Nat /\ <<>> \in Seq(Cells)
    BY LayoutAssumption, Fields DEF Keys
  <1>4. /\ return_data \in [pid : Keys, len : 0..MAX_RETURN_DATA,
                           run : 0..MaxRuns]
        /\ run \in [no : 0..MaxRuns, pid : Keys]
    BY <1>3, BoundsAssumption DEF NoReturnData
  <1>5. parsed \in [Slots -> [at : Nat, len : Nat]]
    BY DEF NothingParsed
  <1>6. ix \in [last : Seq(Cells), longest : 0..InstructionSize]
    BY <1>3
  <1>7. /\ remaining \in 0..BUDGET /\ scratch \in 0..MaxRuns
        /\ count \in 0..NumAccounts /\ cursor \in Nat
    BY <1>3, BoundsAssumption
  <1> QED
    BY <1>1, <1>2, <1>3, <1>4, <1>5, <1>6, <1>7
       DEF TypeOK, Results, Views

(* What a step of the program leaves alone, and what a store does. *)
LEMMA StoreFacts ==
  ASSUME TypeOK, NEW at \in Nat, NEW bytes \in Seq(Cells),
         NEW v \in [Slots -> Views], Store(at, bytes, v), pc = "running"
  PROVE  /\ mem' \in [Addr -> Cells]
         /\ view' \in [Slots -> Views]
         /\ pc' \in {"idle", "running"}
         /\ result' \in Results
         /\ \/ mem' = mem /\ view' = view /\ pc' = "idle"
            \/ mem' = WriteAt(mem, at, bytes) /\ view' = v /\ pc' = "running"
  <1>1. WriteAt(mem, at, bytes) \in [Addr -> Cells]
    BY WriteAtFacts DEF TypeOK
  <1> QED
    BY <1>1 DEF Store, TypeOK, Views, Return, Continue, Results

(* A store of the program, into the buffer or faulting, keeps the types. *)
LEMMA StoreTyped ==
  ASSUME TypeOK, Consume, ProgramLeaves, UNCHANGED <<return_data, scratch>>,
         mem' \in [Addr -> Cells], view' \in [Slots -> Views],
         pc' \in {"idle", "running"}, result' \in Results
  PROVE  TypeOK'
  <1>1. remaining' \in 0..BUDGET
    BY BoundsAssumption DEF TypeOK, Consume
  <1> QED
    BY <1>1 DEF TypeOK, ProgramLeaves, entrypoint, Views

(* The values the stores of a program leave in the history. *)
LEMMA ViewStores ==
  ASSUME TypeOK, NEW i \in Slots
  PROVE  /\ \A n \in Nat : [view EXCEPT ![i].lamports = n] \in [Slots -> Views]
         /\ \A n \in Nat : [view EXCEPT ![i].len = n] \in [Slots -> Views]
         /\ \A p \in Keys : [view EXCEPT ![i].owner = p] \in [Slots -> Views]
         /\ \A k \in DOMAIN view[i].room, x \in Cells :
              [view EXCEPT ![i].room[k] = x] \in [Slots -> Views]
  <1>1. view \in [Slots -> Views]
    BY DEF TypeOK, Views
  <1>2. ASSUME NEW k \in DOMAIN view[i].room, NEW x \in Cells
        PROVE  [view EXCEPT ![i].room[k] = x] \in [Slots -> Views]
    <2>1. view[i].room \in Seq(Cells)
      BY <1>1 DEF Views
    <2>2. [view[i].room EXCEPT ![k] = x] \in Seq(Cells)
      BY <2>1
    <2> QED
      BY <1>1, <2>2 DEF Views
  <1> QED
    BY <1>1, <1>2 DEF Views

(* Every operation and every step of a program keeps the types. *)
LEMMA NextTypeOK == TypeOK /\ [Next]_vars => TypeOK'
  <1> SUFFICES ASSUME TypeOK, [Next]_vars
               PROVE  TypeOK'
    OBVIOUS
  <1>0. /\ mem \in [Addr -> Cells] /\ view \in [Slots -> Views]
        /\ parsed \in [Slots -> [at : Nat, len : Nat]]
        /\ ProgramIds \subseteq Keys /\ Pubkeys \subseteq Keys
    BY BoundsAssumption DEF TypeOK, Views, Keys
  <1>1. ASSUME NEW pid \in ProgramIds, NEW elf \in Elfs \union {BadElf},
               UpdateProgram(pid, elf)
        PROVE  TypeOK'
    <2>1. pid \in Keys /\ ProgramIdOffset \in Nat
      BY <1>0, TailFacts
    <2>2. WriteAt(mem, ProgramIdOffset, KeyBytes(pid)) \in [Addr -> Cells]
      BY <1>0, <2>1, KeyBytesTyped, WriteAtFacts
    <2>3. CASE elf = BadElf
      BY <1>1, <2>3 DEF UpdateProgram, TypeOK, Results, entrypoint, history
    <2>4. CASE elf /= BadElf
      <3>1. executable' \in [elf : Elfs, pid : ProgramIds]
        BY <1>1, <2>4 DEF UpdateProgram
      <3> QED
        BY <1>1, <2>1, <2>2, <2>4, <3>1
           DEF UpdateProgram, TypeOK, Results, entrypoint, history
    <2> QED
      BY <2>3, <2>4
  <1>2. ASSUME NEW instruction \in InstructionInputs,
               UpdateInstruction(instruction)
        PROVE  TypeOK'
    <2>1. /\ instruction \in Seq(Cells) /\ Len(instruction) \in Nat
          /\ InstructionOffset \in Nat /\ InstructionOffset + U64 \in Nat
          /\ InstructionSize \in Nat
      BY BoundsAssumption, TailFacts, Fields
    <2>2. WriteAt(mem, InstructionOffset, IntBytes(InstructionSize, U64))
            \in [Addr -> Cells]
      BY <1>0, <2>1, IntBytesTyped, WriteAtFacts
    <2>3. WriteAt(WriteAt(mem, InstructionOffset,
                          IntBytes(InstructionSize, U64)),
                  InstructionOffset + U64, instruction) \in [Addr -> Cells]
      BY <2>1, <2>2, WriteAtFacts
    <2>4. ix \in [last : Seq(Cells), longest : 0..InstructionSize]
      BY DEF TypeOK
    <2>5. ix' \in [last : Seq(Cells), longest : 0..InstructionSize]
      BY <1>2, <2>1, <2>4 DEF UpdateInstruction
    <2>6. mem' \in [Addr -> Cells] /\ result' \in Results
      BY <1>0, <1>2, <2>3 DEF UpdateInstruction, Results
    <2> QED
      BY <1>2, <2>5, <2>6 DEF UpdateInstruction, TypeOK, context, entrypoint
  <1>3. ASSUME NEW i \in Slots, NEW acc \in AccountInputs,
               UpdateAccount(i, acc)
        PROVE  TypeOK'
    <2>1. acc \in AccountArgs /\ Len(acc.data) \in Nat /\ AccountSize[i] \in Nat
      BY BoundsAssumption, SlotFacts DEF AccountArgs
    <2>2. CASE Len(acc.data) > AccountSize[i]
      BY <1>3, <2>2 DEF UpdateAccount, TypeOK, Results, context, entrypoint
    <2>3. CASE ~(Len(acc.data) > AccountSize[i])
      <3>1. AccountBytes(i, acc) \in Seq(Cells) /\ ViewOf(i, acc) \in Views
        BY <2>1, <2>3, AccountBytesFacts, ViewOfTyped
      <3>2. mem' \in [Addr -> Cells]
        <4>1. AccountOffset[i] \in Nat
          BY SlotFacts
        <4>2. mem' = WriteAt(mem, AccountOffset[i], AccountBytes(i, acc))
          BY <1>3, <2>3 DEF UpdateAccount
        <4> QED
          BY <1>0, <3>1, <4>1, <4>2, WriteAtFacts
      <3>3. view' \in [Slots -> Views]
        BY <1>0, <1>3, <2>3, <3>1 DEF UpdateAccount
      <3> QED
        BY <1>3, <2>3, <3>2, <3>3
           DEF UpdateAccount, TypeOK, Results, context, entrypoint, Views
    <2> QED
      BY <2>2, <2>3
  <1>4. ASSUME Execute
        PROVE  TypeOK'
    <2>0. 0 \in 0..MaxRuns /\ 0 \in Keys /\ MaxRuns \in Nat
          /\ MAX_RETURN_DATA \in Nat
      BY BoundsAssumption DEF Keys
    <2>1. CASE executable = None
      BY <1>4, <2>0, <2>1 DEF Execute, TypeOK, Results, entrypoint
    <2>2. CASE executable /= None
      <3>1. /\ run \in [no : 0..MaxRuns, pid : Keys] /\ run.no < MaxRuns
            /\ executable.pid \in Keys
        BY <1>0, <1>4, <2>2 DEF TypeOK, Execute
      <3>2. run' \in [no : 0..MaxRuns, pid : Keys]
        BY <1>4, <2>0, <2>2, <3>1 DEF Execute
      <3>3. return_data' \in [pid : Keys, len : 0..MAX_RETURN_DATA,
                              run : 0..MaxRuns]
        BY <1>4, <2>0, <2>2 DEF Execute, NoReturnData
      <3>4. /\ parsed' \in [Slots -> [at : Nat, len : Nat]]
            /\ count' \in 0..NumAccounts /\ cursor' \in Nat
        BY <1>4, <2>2, Fields, LayoutAssumption DEF Execute, NothingParsed
      <3>5. misaligned' \in BOOLEAN
        BY <1>4, <2>2 DEF Execute
      <3> QED
        BY <1>4, <2>0, <2>2, <3>2, <3>3, <3>4, <3>5 DEF Execute, TypeOK
    <2> QED
      BY <2>1, <2>2
  <1>5. ASSUME ParseAccount
        PROVE  TypeOK'
    <2> DEFINE n == DataLenAt(mem, cursor)
               end == cursor + DataField + n + MAX_INCREASE
    <2>1. CASE n < 0
      BY <1>5, <2>1 DEF ParseAccount, TypeOK, Return, Results, context,
                        entrypoint, history
    <2>2. CASE ~(n < 0)
      <3>1. n \in Nat /\ end \in Nat
        <4>1. cursor \in Nat /\ BufferLen \in Nat
          BY TailFacts DEF TypeOK
        <4>2. cursor + DataField <= BufferLen
          BY <2>2, <4>1, Fields DEF DataLenAt
        <4>3. cursor + DataLenField \in Addr
          BY <4>1, <4>2, Fields DEF Addr
        <4>4. mem[cursor + DataLenField] \in Cells
          BY <1>0, <4>3
        <4>5. n \in Nat
          BY <2>2, <4>1, <4>2, <4>4, Fields DEF DataLenAt, ReadInt, Cells
        <4> QED
          BY <4>1, <4>5, Fields
      <3> HIDE DEF n, end
      <3>2. end + AlignOffset(end) + U64 \in Nat
        BY <3>1, AlignOffsetNat, Fields
      <3>3. count \in Slots /\ count + 1 \in 0..NumAccounts
        BY <1>5, LayoutAssumption DEF ParseAccount, TypeOK, Slots
      <3>4. /\ parsed' = [parsed EXCEPT ![count] = [at |-> cursor, len |-> n]]
            /\ count' = count + 1
            /\ cursor' = end + AlignOffset(end) + U64
            /\ UNCHANGED <<pc, result, mem, executable, program_id, return_data,
                           remaining, scratch, view, ix, run, misaligned>>
        BY <1>5, <2>2 DEF ParseAccount, Continue, context, history, n, end
      <3>5. parsed' \in [Slots -> [at : Nat, len : Nat]]
        BY <1>0, <3>1, <3>3, <3>4 DEF TypeOK
      <3> QED
        BY <3>2, <3>3, <3>4, <3>5 DEF TypeOK
    <2> QED
      BY <2>1, <2>2
  <1>6. ASSUME NEW i \in Slots, NEW n \in StoredLamports, StoreLamports(i, n)
        PROVE  TypeOK'
    <2>1. n \in Nat /\ parsed[i].at + LamportsField \in Nat
      BY <1>0, BoundsAssumption, Fields
    <2> QED
      BY <1>6, <2>1, IntBytesTyped, ViewStores, StoreFacts, StoreTyped
         DEF StoreLamports, Consume
  <1>7. ASSUME NEW i \in Slots, NEW p \in Pubkeys, StoreOwner(i, p)
        PROVE  TypeOK'
    <2>1. p \in Keys /\ parsed[i].at + OwnerField \in Nat
      BY <1>0, Fields
    <2> QED
      BY <1>7, <2>1, KeyBytesTyped, ViewStores, StoreFacts, StoreTyped
         DEF StoreOwner, Consume
  <1>8. ASSUME NEW i \in Slots, NEW k \in DOMAIN view[i].room, StoreData(i, k)
        PROVE  TypeOK'
    <2>1. Byte(StoredDatum) \in Cells
      BY BoundsAssumption DEF Byte, Cells
    <2>2. k \in Nat /\ k >= 1
      BY <1>0 DEF Views
    <2>3. parsed[i].at + DataField + k - 1 \in Nat
      BY <1>0, <2>2, Fields
    <2>4. <<Byte(StoredDatum)>> \in Seq(Cells)
      BY <2>1
    <2>5. [view EXCEPT ![i].room[k] = Byte(StoredDatum)] \in [Slots -> Views]
      BY <2>1, ViewStores
    <2> QED
      BY <1>8, <2>3, <2>4, <2>5, StoreFacts, StoreTyped
         DEF StoreData, Consume
  <1>9. ASSUME NEW i \in Slots, NEW n \in 0..RoomLen(i), Realloc(i, n)
        PROVE  TypeOK'
    <2>1. n \in Nat /\ parsed[i].at + DataLenField \in Nat
      BY <1>0, Fields, SlotFacts
    <2> QED
      BY <1>9, <2>1, IntBytesTyped, ViewStores, StoreFacts, StoreTyped
         DEF Realloc, Consume
  <1>10. ASSUME StoreScratch
         PROVE  TypeOK'
    <2>1. /\ remaining > 0 /\ remaining' = remaining - 1
          /\ scratch' = run.no
          /\ UNCHANGED <<pc, result, executable, program_id, parsed, count,
                         cursor, ix, run, misaligned, mem, return_data, view>>
      BY <1>10 DEF StoreScratch, Consume, Continue, ProgramLeaves, entrypoint
    <2>2. remaining \in 0..BUDGET /\ BUDGET \in Nat
      BY BoundsAssumption DEF TypeOK
    <2>3. remaining' \in 0..BUDGET
      BY <2>1, <2>2
    <2>4. scratch' \in 0..MaxRuns
      BY <2>1 DEF TypeOK
    <2> QED
      BY <2>1, <2>3, <2>4 DEF TypeOK
  <1>11. ASSUME NEW n \in ReturnDataInputs, NEW mapped \in BOOLEAN,
                SetReturnData(n, mapped)
         PROVE  TypeOK'
    <2>1. n \in Nat /\ MAX_RETURN_DATA \in Nat
      BY BoundsAssumption
    <2>2. return_data' \in [pid : Keys, len : 0..MAX_RETURN_DATA,
                            run : 0..MaxRuns]
      BY <1>11, <2>1 DEF SetReturnData, TypeOK
    <2>3. /\ pc' \in {"idle", "running"} /\ result' \in Results
          /\ remaining' \in 0..BUDGET
      BY <1>11, BoundsAssumption
         DEF SetReturnData, TypeOK, Return, Continue, Consume, Results
    <2> QED
      BY <1>11, <2>2, <2>3 DEF SetReturnData, TypeOK, ProgramLeaves, entrypoint
  <1>12. ASSUME NEW r \in {"ok", "code", "vm"}, Exit(r)
         PROVE  TypeOK'
    <2>1. /\ pc' = "idle" /\ result' \in Results /\ remaining' \in 0..BUDGET
      BY <1>12, BoundsAssumption DEF Exit, Return, Consume, TypeOK, Results
    <2> QED
      BY <1>12, <2>1 DEF Exit, TypeOK, ProgramLeaves, entrypoint
  <1>13. ASSUME OutOfMeter
         PROVE  TypeOK'
    BY <1>13 DEF OutOfMeter, TypeOK, Return, ProgramLeaves, entrypoint, Results
  <1>14. CASE UNCHANGED vars
    BY <1>14 DEF vars, context, entrypoint, history, TypeOK
  <1> QED
    BY <1>1, <1>2, <1>3, <1>4, <1>5, <1>6, <1>7, <1>8, <1>9, <1>10, <1>11,
       <1>12, <1>13, <1>14 DEF Next, CallerStep, ProgramStep

(* The executor's variables keep their types: the meter never goes below   *)
(* zero, no return data exceeds MAX_RETURN_DATA, and every store that the  *)
(* VM lets through lands in the buffer.                                    *)
THEOREM ExecutorTypeCorrect == Spec => []TypeOK
  BY InitTypeOK, NextTypeOK, PTL DEF Spec

-----------------------------------------------------------------------------
(* The program, its id and the traces of its runs. *)

Own ==
  /\ LoadedProgram
  /\ executable = None => program_id = 0
  /\ RunIsolation
  /\ pc = "running" => executable /= None /\ run.pid = program_id

(* A new executor has no program and no return data. *)
LEMMA InitOwn == Init => Own
  BY DEF Init, Own, LoadedProgram, RunIsolation

(* A step that leaves the program, the run, the return data and the        *)
(* scratch memory alone and does not enter a program.                      *)
LEMMA OwnKept ==
  ASSUME Own, pc' = "running" => pc = "running",
         UNCHANGED <<executable, program_id, run, return_data, scratch>>
  PROVE  Own'
  BY DEF Own, LoadedProgram, RunIsolation

(* The program, its id and the return data change together. *)
LEMMA NextOwn == TypeOK /\ Own /\ [Next]_vars => Own'
  <1> SUFFICES ASSUME TypeOK, Own, [Next]_vars
               PROVE  Own'
    OBVIOUS
  <1>1. ASSUME NEW pid \in ProgramIds, NEW elf \in Elfs \union {BadElf},
               UpdateProgram(pid, elf)
        PROVE  Own'
    <2>1. CASE elf = BadElf
      BY <1>1, <2>1, OwnKept DEF UpdateProgram, history
    <2>2. CASE elf /= BadElf
      <3>1. /\ executable' = [elf |-> elf, pid |-> pid] /\ program_id' = pid
            /\ pc = "idle" /\ pc' = "idle"
            /\ UNCHANGED <<return_data, scratch, run>>
        BY <1>1, <2>2 DEF UpdateProgram, history
      <3>2. executable' /= None
        BY <2>2, <3>1, BoundsAssumption
      <3> QED
        BY <3>1, <3>2 DEF Own, LoadedProgram, RunIsolation
    <2> QED
      BY <2>1, <2>2
  <1>2. ASSUME NEW instruction \in InstructionInputs,
               UpdateInstruction(instruction)
        PROVE  Own'
    BY <1>2, OwnKept DEF UpdateInstruction, context
  <1>3. ASSUME NEW i \in Slots, NEW acc \in AccountInputs,
               UpdateAccount(i, acc)
        PROVE  Own'
    BY <1>3, OwnKept DEF UpdateAccount, context
  <1>4. ASSUME Execute
        PROVE  Own'
    <2>1. CASE executable = None
      BY <1>4, <2>1 DEF Execute, Own, LoadedProgram, RunIsolation
    <2>2. CASE executable /= None
      BY <1>4, <2>2 DEF Execute, Own, LoadedProgram, RunIsolation
    <2> QED
      BY <2>1, <2>2
  <1>5. ASSUME ParseAccount
        PROVE  Own'
    BY <1>5, OwnKept DEF ParseAccount, Return, Continue, context, history
  <1>6. ASSUME \/ \E i \in Slots, n \in StoredLamports : StoreLamports(i, n)
               \/ \E i \in Slots, p \in Pubkeys : StoreOwner(i, p)
               \/ \E i \in Slots : \E k \in DOMAIN view[i].room : StoreData(i, k)
               \/ \E i \in Slots : \E n \in 0..RoomLen(i) : Realloc(i, n)
               \/ \E r \in {"ok", "code", "vm"} : Exit(r)
               \/ OutOfMeter
        PROVE  Own'
    <2>1. /\ pc = "running"
          /\ UNCHANGED <<executable, program_id, run, return_data, scratch>>
      BY <1>6 DEF StoreLamports, StoreOwner, StoreData, Realloc, Exit,
                  OutOfMeter, Consume, ProgramLeaves
    <2> QED
      BY <2>1, OwnKept
  <1>7. ASSUME StoreScratch
        PROVE  Own'
    BY <1>7 DEF StoreScratch, Consume, Continue, ProgramLeaves, Own,
                LoadedProgram, RunIsolation
  <1>8. ASSUME NEW n \in ReturnDataInputs, NEW mapped \in BOOLEAN,
               SetReturnData(n, mapped)
        PROVE  Own'
    <2>1. /\ pc = "running"
          /\ UNCHANGED <<executable, program_id, run, scratch>>
          /\ \/ return_data' = return_data
             \/ return_data' = [pid |-> program_id, len |-> n, run |-> run.no]
      BY <1>8 DEF SetReturnData, Consume, ProgramLeaves
    <2> QED
      BY <2>1 DEF Own, LoadedProgram, RunIsolation
  <1>9. CASE UNCHANGED vars
    BY <1>9, OwnKept DEF vars, context, history
  <1> QED
    BY <1>1, <1>2, <1>3, <1>4, <1>5, <1>6, <1>7, <1>8, <1>9
       DEF Next, CallerStep, ProgramStep

(* No run sees what an earlier one left on the stack, on the heap or in    *)
(* the return data, and the caller is never given return data that another *)
(* run or another program set.                                             *)
THEOREM ExecutorRunIsolation == Spec => []RunIsolation
  <1>1. Own => RunIsolation
    BY DEF Own
  <1> QED
    BY <1>1, InitTypeOK, NextTypeOK, InitOwn, NextOwn, PTL DEF Spec

-----------------------------------------------------------------------------
(* The buffer.  As long as no run began on a resized account, each length  *)
(* field holds the account's current length, the walk of the entrypoint is *)
(* at the slot the executor recorded, and the tail of the buffer is what   *)
(* the last successful updates wrote.                                      *)

LenField(i) ==
  /\ view[i].len <= RoomLen(i)
  /\ mem[AccountOffset[i] + DataLenField] = Byte(view[i].len)
  /\ \A k \in 1..(U64 - 1) :
       mem[AccountOffset[i] + DataLenField + k] = Zero
LenFields == \A i \in Slots : LenField(i)

Walked ==
  pc = "running" =>
    /\ cursor = AccountOffset[count]
    /\ \A i \in Slots : i < count =>
         /\ parsed[i].at = AccountOffset[i]
         /\ parsed[i].len <= Rounded(AccountSize[i])
    /\ count < NumAccounts => \A i \in Slots : InPlace(i)

IdBytes ==
  \A k \in 1..PUBKEY : mem[ProgramIdOffset + k - 1] = KeyBytes(program_id)[k]

InstructionBytes ==
  /\ mem[InstructionOffset] = Byte(InstructionSize)
  /\ \A k \in 1..(U64 - 1) : mem[InstructionOffset + k] = Zero
  /\ Len(ix.last) <= ix.longest
  /\ \A k \in 1..Len(ix.last) :
       mem[InstructionOffset + U64 + k - 1] = ix.last[k]
  /\ \A k \in (ix.longest + 1)..InstructionSize :
       mem[InstructionOffset + U64 + k - 1] = Zero

Intact == LenFields /\ Walked /\ IdBytes /\ InstructionBytes
IInv == TypeOK /\ Own /\ (~misaligned => Intact)

(* Where the regions are. *)
LEMMA LenFieldAddr ==
  ASSUME NEW i \in Slots, NEW k \in 0..(U64 - 1)
  PROVE  /\ AccountOffset[i] + DataLenField + k \in SlotRegion(i)
         /\ AccountOffset[i] + DataLenField + k \in Addr
  <1>1. /\ AccountOffset[i] \in Nat /\ AccountOffset[i + 1] \in Nat
        /\ RoomLen(i) \in Nat
        /\ AccountOffset[i + 1] = AccountOffset[i] + DataField + RoomLen(i) + U64
        /\ AccountOffset[i + 1] <= InstructionOffset
    BY SlotFacts
  <1>2. /\ AccountOffset[i] + DataLenField + k \in Nat
        /\ AccountOffset[i] + DataLenField + k < AccountOffset[i + 1]
        /\ AccountOffset[i] <= AccountOffset[i] + DataLenField + k
    BY <1>1, Fields
  <1>3. AccountOffset[i + 1] <= BufferLen /\ BufferLen \in Nat
    BY <1>1, TailFacts, Fields
  <1> QED
    BY <1>1, <1>2, <1>3 DEF SlotRegion, Addr

(* A byte of one slot is of no other. *)
LEMMA RegionsDisjoint ==
  ASSUME NEW i \in Slots, NEW j \in Slots, i /= j, NEW a \in SlotRegion(j)
  PROVE  a \notin SlotRegion(i)
  <1>1. /\ AccountOffset[i] \in Nat /\ AccountOffset[i + 1] \in Nat
        /\ AccountOffset[j] \in Nat /\ AccountOffset[j + 1] \in Nat
    BY SlotFacts
  <1> QED
    BY <1>1, SlotsDisjoint DEF SlotRegion

(* A byte of the instruction or of the id is of no slot. *)
LEMMA SlotBelowTail ==
  ASSUME NEW i \in Slots, NEW a \in Nat, InstructionOffset <= a
  PROVE  a \notin SlotRegion(i)
  <1>1. /\ AccountOffset[i] \in Nat /\ AccountOffset[i + 1] \in Nat
        /\ AccountOffset[i + 1] <= InstructionOffset /\ InstructionOffset \in Nat
    BY SlotFacts, TailFacts
  <1> QED
    BY <1>1 DEF SlotRegion

(* The bytes of the instruction and of the id lie in the buffer. *)
LEMMA TailAddr ==
  /\ \A k \in 1..PUBKEY :
       /\ ProgramIdOffset + k - 1 \in Addr
       /\ ProgramIdOffset <= ProgramIdOffset + k - 1
  /\ \A k \in 0..(U64 - 1) :
       /\ InstructionOffset + k \in Addr
       /\ InstructionOffset <= InstructionOffset + k
       /\ InstructionOffset + k < InstructionOffset + U64
  /\ \A k \in 1..InstructionSize :
       /\ InstructionOffset + U64 + k - 1 \in Addr
       /\ InstructionOffset + U64 <= InstructionOffset + U64 + k - 1
       /\ InstructionOffset + U64 + k - 1 < ProgramIdOffset
  BY TailFacts, Fields DEF Addr

(* A step confined to slot i leaves the other slots' length fields and the *)
(* tail of the buffer alone.                                               *)
ConfinedTo(i) == \A a \in Addr \ SlotRegion(i) : mem'[a] = mem[a]

(* A step confined to a slot leaves the lengths of the others. *)
LEMMA OtherSlots ==
  ASSUME TypeOK, LenFields, NEW i \in Slots, ConfinedTo(i),
         NEW j \in Slots, i /= j, view'[j] = view[j]
  PROVE  LenField(j)'
  <1>1. \A k \in 0..(U64 - 1) : mem'[AccountOffset[j] + DataLenField + k] =
                                mem[AccountOffset[j] + DataLenField + k]
    BY LenFieldAddr, RegionsDisjoint DEF ConfinedTo
  <1>2. AccountOffset[j] + DataLenField + 0 = AccountOffset[j] + DataLenField
        /\ 0 \in 0..(U64 - 1)
    BY SlotFacts, Fields
  <1>3. mem'[AccountOffset[j] + DataLenField] =
          mem[AccountOffset[j] + DataLenField]
    BY <1>1, <1>2
  <1>4. \A k \in 1..(U64 - 1) : k \in 0..(U64 - 1)
    BY Fields
  <1> QED
    BY <1>1, <1>3, <1>4 DEF LenFields, LenField

(* A step confined to a slot leaves the instruction and the id. *)
LEMMA TailKept ==
  ASSUME TypeOK, IdBytes, InstructionBytes, NEW i \in Slots, ConfinedTo(i),
         UNCHANGED <<program_id, ix>>
  PROVE  IdBytes' /\ InstructionBytes'
  <1>1. ASSUME NEW a \in Addr, InstructionOffset <= a
        PROVE  mem'[a] = mem[a]
    <2>1. a \in Nat
      BY TailFacts DEF Addr
    <2> QED
      BY <1>1, <2>1, SlotBelowTail DEF ConfinedTo
  <1>2. /\ ix.longest \in 0..InstructionSize /\ ix.last \in Seq(Cells)
        /\ Len(ix.last) \in Nat /\ Len(ix.last) <= ix.longest
    BY DEF TypeOK, InstructionBytes
  <1>3. IdBytes'
    <2>1. ASSUME NEW k \in 1..PUBKEY
          PROVE  mem'[ProgramIdOffset + k - 1] = mem[ProgramIdOffset + k - 1]
      BY <1>1, TailAddr, TailFacts, Fields
    <2> QED
      BY <2>1 DEF IdBytes
  <1>4. \A k \in 0..(U64 - 1) :
          mem'[InstructionOffset + k] = mem[InstructionOffset + k]
    BY <1>1, TailAddr
  <1>5. \A k \in 1..InstructionSize : mem'[InstructionOffset + U64 + k - 1] =
                                     mem[InstructionOffset + U64 + k - 1]
    <2> TAKE k \in 1..InstructionSize
    <2>1. InstructionOffset + U64 + k - 1 \in Addr
      BY TailAddr
    <2>2. InstructionOffset <= InstructionOffset + U64 + k - 1
      BY TailFacts, Fields
    <2> QED
      BY <1>1, <2>1, <2>2
  <1>6. /\ mem'[InstructionOffset] = mem[InstructionOffset]
        /\ \A k \in 1..(U64 - 1) :
             mem'[InstructionOffset + k] = mem[InstructionOffset + k]
    <2>1. InstructionOffset + 0 = InstructionOffset /\ 0 \in 0..(U64 - 1)
          /\ \A k \in 1..(U64 - 1) : k \in 0..(U64 - 1)
      BY TailFacts, Fields
    <2> QED
      BY <2>1, <1>4
  <1>7. /\ \A k \in 1..Len(ix.last) : k \in 1..InstructionSize
        /\ \A k \in (ix.longest + 1)..InstructionSize : k \in 1..InstructionSize
    BY <1>2, TailFacts
  <1> QED
    BY <1>3, <1>5, <1>6, <1>7 DEF InstructionBytes

(* A write within slot i, and one that spares its length field. *)
LEMMA SlotWrite ==
  ASSUME TypeOK, NEW i \in Slots, NEW off \in Nat, NEW bytes \in Seq(Cells),
         off + Len(bytes) <= DataField + RoomLen(i) + U64,
         mem' = WriteAt(mem, AccountOffset[i] + off, bytes)
  PROVE  /\ ConfinedTo(i)
         /\ (off + Len(bytes) <= DataLenField \/ DataField <= off) =>
              /\ mem'[AccountOffset[i] + DataLenField] =
                   mem[AccountOffset[i] + DataLenField]
              /\ \A k \in 1..(U64 - 1) :
                   mem'[AccountOffset[i] + DataLenField + k] =
                     mem[AccountOffset[i] + DataLenField + k]
  <1> DEFINE n == Len(bytes)
             o == AccountOffset[i]
             e == AccountOffset[i + 1]
             room == RoomLen(i)
  <1>m. mem \in [Addr -> Cells]
    BY DEF TypeOK
  <1>0. /\ o \in Nat /\ e \in Nat /\ room \in Nat
        /\ e = o + DataField + room + U64
        /\ n \in Nat
        /\ off + n <= DataField + room + U64
    BY SlotFacts
  <1>f. /\ DataField \in Nat /\ DataLenField \in Nat /\ U64 \in Nat
        /\ DataLenField + U64 = DataField
    BY Fields
  <1>1. \A a \in Addr :
          (a < o + off \/ o + off + n <= a) => mem'[a] = mem[a]
    <2>1. o + off \in Nat
      BY <1>0
    <2> QED
      BY <1>m, <2>1, WriteAtFacts
  <1>2. ASSUME NEW a \in Addr, a \notin SlotRegion(i)
        PROVE  mem'[a] = mem[a]
    <2>1. a \in Nat
      BY TailFacts DEF Addr
    <2>2. a < o \/ e <= a
      BY <1>0, <1>2, <2>1 DEF SlotRegion
    <2> HIDE DEF n, o, e, room
    <2>3. a < o + off \/ o + off + n <= a
      BY <1>0, <1>f, <2>1, <2>2
    <2> QED
      BY <1>1, <2>3
  <1>3. ASSUME off + Len(bytes) <= DataLenField \/ DataField <= off,
               NEW k \in 0..(U64 - 1)
        PROVE  mem'[AccountOffset[i] + DataLenField + k] =
                 mem[AccountOffset[i] + DataLenField + k]
    <2> DEFINE a == AccountOffset[i] + DataLenField + k
    <2>1. a \in Addr
      BY LenFieldAddr
    <2>2. o + DataLenField + k < o + off \/ o + off + n <= o + DataLenField + k
      <3>1. off + n <= DataLenField \/ DataField <= off
        BY <1>3
      <3> HIDE DEF n, o, e, room
      <3> QED
        BY <1>0, <1>f, <3>1
    <2> QED
      BY <1>1, <2>1, <2>2
  <1>4. /\ AccountOffset[i] + DataLenField + 0 = AccountOffset[i] + DataLenField
        /\ 0 \in 0..(U64 - 1)
        /\ \A k \in 1..(U64 - 1) : k \in 0..(U64 - 1)
    BY <1>0, Fields
  <1>5. ConfinedTo(i)
    BY <1>2 DEF ConfinedTo
  <1>6. ASSUME off + Len(bytes) <= DataLenField \/ DataField <= off
        PROVE  /\ mem'[AccountOffset[i] + DataLenField] =
                    mem[AccountOffset[i] + DataLenField]
               /\ \A k \in 1..(U64 - 1) :
                    mem'[AccountOffset[i] + DataLenField + k] =
                      mem[AccountOffset[i] + DataLenField + k]
    BY <1>3, <1>4, <1>6
  <1> QED
    BY <1>5, <1>6

(* What update_account and the stores of a program do to the buffer. *)
SlotStep(i) ==
  /\ ConfinedTo(i)
  /\ LenField(i)'
  /\ \A j \in Slots : j /= i => view'[j] = view[j]

(* update_account keeps the buffer intact. *)
LEMMA UpdateAccountStep ==
  ASSUME IInv, ~misaligned, NEW i \in Slots, NEW acc \in AccountInputs,
         UpdateAccount(i, acc)
  PROVE  SlotStep(i)
  <1>a. acc \in AccountArgs /\ Len(acc.data) \in Nat
    BY BoundsAssumption DEF AccountArgs
  <1>b. TypeOK /\ LenField(i)
    BY DEF IInv, Intact, LenFields
  <1>c. view \in [Slots -> Views]
    BY <1>b DEF TypeOK, Views
  <1>1. /\ acc \in AccountArgs /\ Len(acc.data) \in Nat
        /\ AccountSize[i] \in Nat /\ AccountSize[i] <= RoomLen(i)
        /\ AccountOffset[i] \in Nat /\ TypeOK /\ LenField(i)
        /\ view \in [Slots -> Views]
    BY <1>a, <1>b, <1>c, SlotFacts
  <1>2. CASE Len(acc.data) > AccountSize[i]
    BY <1>1, <1>2 DEF UpdateAccount, SlotStep, ConfinedTo, LenField
  <1>3. CASE Len(acc.data) <= AccountSize[i]
    <2> DEFINE bytes == AccountBytes(i, acc)
    <2>1. /\ mem' = WriteAt(mem, AccountOffset[i], bytes)
          /\ view' = [view EXCEPT ![i] = ViewOf(i, acc)]
      BY <1>1, <1>3 DEF UpdateAccount
    <2>2. /\ bytes \in Seq(Cells)
          /\ Len(bytes) = AccountOffset[i + 1] - AccountOffset[i]
          /\ bytes[DataLenField + 1] = Byte(AccountSize[i])
          /\ \A k \in 1..(U64 - 1) : bytes[DataLenField + 1 + k] = Zero
      BY <1>1, <1>3, AccountBytesFacts
    <2> HIDE DEF bytes
    <2>3. Len(bytes) = DataField + RoomLen(i) + U64 /\ RoomLen(i) \in Nat
      BY <2>2, SlotFacts, Fields
    <2>4. ConfinedTo(i)
      <3>1. /\ AccountOffset[i] + 0 = AccountOffset[i]
            /\ 0 + Len(bytes) <= DataField + RoomLen(i) + U64
        <4>1. Len(bytes) \in Nat /\ DataField \in Nat /\ U64 \in Nat
          BY <2>2, Fields
        <4> QED
          BY <1>1, <2>3, <4>1
      <3>2. mem' = WriteAt(mem, AccountOffset[i] + 0, bytes)
        BY <2>1, <3>1
      <3> QED
        BY <1>1, <2>2, <3>1, <3>2, SlotWrite
    <2>5. ASSUME NEW k \in 0..(U64 - 1)
          PROVE  mem'[AccountOffset[i] + DataLenField + k] =
                   bytes[DataLenField + 1 + k]
      <3> DEFINE a == AccountOffset[i] + DataLenField + k
      <3>1. a \in Addr
        BY LenFieldAddr
      <3>2. /\ AccountOffset[i] <= a /\ a < AccountOffset[i] + Len(bytes)
            /\ a - AccountOffset[i] + 1 = DataLenField + 1 + k
        <4>1. /\ AccountOffset[i] \in Nat /\ DataLenField \in Nat
              /\ U64 \in Nat /\ DataLenField + U64 = DataField
              /\ RoomLen(i) \in Nat
              /\ Len(bytes) = DataField + RoomLen(i) + U64
          BY <1>1, <2>3, Fields
        <4> QED
          BY <4>1
      <3>3. /\ mem \in [Addr -> Cells] /\ AccountOffset[i] \in Nat
            /\ bytes \in Seq(Cells)
        BY <1>1, <2>2 DEF TypeOK
      <3> HIDE DEF a
      <3>4. mem'[a] = bytes[a - AccountOffset[i] + 1]
        <4>1. WriteAt(mem, AccountOffset[i], bytes)[a] =
                bytes[a - AccountOffset[i] + 1]
          BY <3>1, <3>2, <3>3, WriteInside
        <4> QED
          BY <2>1, <4>1
      <3> QED
        BY <3>2, <3>4 DEF a
    <2>6. /\ mem'[AccountOffset[i] + DataLenField] = Byte(AccountSize[i])
          /\ \A k \in 1..(U64 - 1) :
               mem'[AccountOffset[i] + DataLenField + k] = Zero
      <3>1. /\ 0 \in 0..(U64 - 1) /\ DataLenField + 1 + 0 = DataLenField + 1
            /\ AccountOffset[i] + DataLenField + 0 =
                 AccountOffset[i] + DataLenField
            /\ \A k \in 1..(U64 - 1) : k \in 0..(U64 - 1)
        <4>1. /\ AccountOffset[i] \in Nat /\ DataLenField \in Nat
              /\ U64 \in Nat \ {0}
          BY <1>1, Fields
        <4> QED
          BY <4>1
      <3>2. mem'[AccountOffset[i] + DataLenField] = bytes[DataLenField + 1]
        BY <2>5, <3>1
      <3> QED
        BY <2>2, <2>5, <3>1, <3>2
    <2>7. view'[i].len = AccountSize[i]
      BY <1>1, <1>3, <2>1, ViewOfTyped
    <2>8. LenField(i)'
      BY <1>1, <2>6, <2>7 DEF LenField
    <2>9. \A j \in Slots : j /= i => view'[j] = view[j]
      BY <1>1, <2>1
    <2> QED
      BY <2>4, <2>8, <2>9 DEF SlotStep
  <1> QED
    BY <1>1, <1>2, <1>3

(* The length read from a slot is the account's. *)
LEMMA LenRead ==
  ASSUME TypeOK, NEW i \in Slots, LenField(i)
  PROVE  /\ DataLenAt(mem, AccountOffset[i]) = view[i].len
         /\ view[i].len \in Nat /\ view[i].len <= RoomLen(i)
  <1>1. view[i].len \in Nat /\ view[i].len <= RoomLen(i)
    BY DEF TypeOK, LenField
  <1>2. ~(AccountOffset[i] + DataField > BufferLen)
    <2>1. /\ AccountOffset[i] \in Nat /\ RoomLen(i) \in Nat
          /\ AccountOffset[i + 1] = AccountOffset[i] + DataField + RoomLen(i) + U64
          /\ AccountOffset[i + 1] <= InstructionOffset
      BY SlotFacts
    <2>2. InstructionOffset \in Nat /\ BufferLen \in Nat
          /\ InstructionOffset <= BufferLen
      BY TailFacts, Fields
    <2> QED
      BY <2>1, <2>2, Fields
  <1>3. /\ mem[AccountOffset[i] + DataLenField] = <<view[i].len, 0>>
        /\ \A k \in 1..(U64 - 1) :
             mem[AccountOffset[i] + DataLenField + k] = Zero
    BY DEF LenField, Byte
  <1>4. ReadInt(mem, AccountOffset[i] + DataLenField) = view[i].len
    BY <1>3 DEF ReadInt
  <1> QED
    BY <1>1, <1>2, <1>4 DEF DataLenAt

(* A program past its entrypoint knows its accounts' slots. *)
LEMMA Entered ==
  ASSUME IInv, ~misaligned, NEW i \in Slots, Consume
  PROVE  /\ TypeOK /\ LenField(i) /\ view \in [Slots -> Views]
         /\ pc = "running"
         /\ parsed[i].at = AccountOffset[i]
         /\ AccountOffset[i] \in Nat /\ RoomLen(i) \in Nat
  <1>1. pc = "running" /\ count = NumAccounts
    BY DEF Consume
  <1>2. i < NumAccounts
    BY LayoutAssumption DEF Slots
  <1>3. TypeOK /\ LenField(i) /\ parsed[i].at = AccountOffset[i]
    BY <1>1, <1>2 DEF IInv, Intact, LenFields, Walked
  <1>4. view \in [Slots -> Views]
    BY <1>3 DEF TypeOK, Views
  <1> QED
    BY <1>1, <1>3, <1>4, SlotFacts

(* A store that spares the length field and the length. *)
LEMMA SparingStore ==
  ASSUME IInv, ~misaligned, NEW i \in Slots, Consume,
         NEW off \in Nat, NEW bytes \in Seq(Cells), NEW v \in [Slots -> Views],
         off + Len(bytes) <= DataLenField
           \/ (DataField <= off
                 /\ off + Len(bytes) <= DataField + RoomLen(i) + U64),
         v[i].len = view[i].len,
         \A j \in Slots : j /= i => v[j] = view[j],
         Store(AccountOffset[i] + off, bytes, v)
  PROVE  SlotStep(i)
  <1>0. /\ TypeOK /\ LenField(i) /\ view \in [Slots -> Views]
        /\ pc = "running"
        /\ AccountOffset[i] \in Nat /\ RoomLen(i) \in Nat
    BY Entered
  <1>1. AccountOffset[i] + off \in Nat
    BY <1>0
  <1>2. \/ mem' = mem /\ view' = view
        \/ mem' = WriteAt(mem, AccountOffset[i] + off, bytes) /\ view' = v
    BY <1>0, <1>1, StoreFacts
  <1>3. CASE mem' = mem /\ view' = view
    BY <1>0, <1>3 DEF SlotStep, ConfinedTo, LenField
  <1>4. CASE mem' = WriteAt(mem, AccountOffset[i] + off, bytes) /\ view' = v
    <2>1. Len(bytes) \in Nat
      OBVIOUS
    <2>2. off + Len(bytes) <= DataField + RoomLen(i) + U64
      BY <1>0, <2>1, Fields
    <2>3. /\ ConfinedTo(i)
          /\ mem'[AccountOffset[i] + DataLenField] =
               mem[AccountOffset[i] + DataLenField]
          /\ \A k \in 1..(U64 - 1) :
               mem'[AccountOffset[i] + DataLenField + k] =
                 mem[AccountOffset[i] + DataLenField + k]
      BY <1>0, <1>4, <2>2, SlotWrite
    <2> QED
      BY <1>0, <1>4, <2>3 DEF SlotStep, LenField
  <1> QED
    BY <1>2, <1>3, <1>4

(* A store of lamports keeps the buffer intact. *)
LEMMA StoreLamportsStep ==
  ASSUME IInv, ~misaligned, NEW i \in Slots, NEW n \in StoredLamports,
         StoreLamports(i, n)
  PROVE  SlotStep(i)
  <1> DEFINE v == [view EXCEPT ![i].lamports = n]
             bytes == IntBytes(n, U64)
  <1>0. Consume
    BY DEF StoreLamports
  <1>1. /\ TypeOK /\ view \in [Slots -> Views]
        /\ parsed[i].at = AccountOffset[i]
    BY <1>0, Entered
  <1>2. n \in Nat
    BY BoundsAssumption
  <1>3. bytes \in Seq(Cells) /\ Len(bytes) = U64
    BY <1>2, IntBytesTyped
  <1>4. /\ v \in [Slots -> Views] /\ v[i].len = view[i].len
        /\ \A j \in Slots : j /= i => v[j] = view[j]
    BY <1>1, <1>2, ViewStores DEF Views
  <1>5. Store(AccountOffset[i] + LamportsField, bytes, v)
    BY <1>1 DEF StoreLamports
  <1> HIDE DEF v, bytes
  <1>6. LamportsField \in Nat /\ LamportsField + Len(bytes) <= DataLenField
    BY <1>3, Fields
  <1> QED
    BY <1>0, <1>3, <1>4, <1>5, <1>6, SparingStore

(* A store of an owner keeps the buffer intact. *)
LEMMA StoreOwnerStep ==
  ASSUME IInv, ~misaligned, NEW i \in Slots, NEW p \in Pubkeys,
         StoreOwner(i, p)
  PROVE  SlotStep(i)
  <1> DEFINE v == [view EXCEPT ![i].owner = p]
             bytes == KeyBytes(p)
  <1>0. Consume
    BY DEF StoreOwner
  <1>1. /\ TypeOK /\ view \in [Slots -> Views]
        /\ parsed[i].at = AccountOffset[i]
    BY <1>0, Entered
  <1>2. p \in Keys
    BY DEF Keys
  <1>3. bytes \in Seq(Cells) /\ Len(bytes) = PUBKEY
    BY <1>2, KeyBytesTyped
  <1>4. /\ v \in [Slots -> Views] /\ v[i].len = view[i].len
        /\ \A j \in Slots : j /= i => v[j] = view[j]
    BY <1>1, <1>2, ViewStores DEF Views
  <1>5. Store(AccountOffset[i] + OwnerField, bytes, v)
    BY <1>1 DEF StoreOwner
  <1> HIDE DEF v, bytes
  <1>6. OwnerField \in Nat /\ OwnerField + Len(bytes) <= DataLenField
    BY <1>3, Fields
  <1> QED
    BY <1>0, <1>3, <1>4, <1>5, <1>6, SparingStore

(* A store into the data keeps the buffer intact. *)
LEMMA StoreDataStep ==
  ASSUME IInv, ~misaligned, NEW i \in Slots, NEW k \in DOMAIN view[i].room,
         StoreData(i, k)
  PROVE  SlotStep(i)
  <1> DEFINE v == [view EXCEPT ![i].room[k] = Byte(StoredDatum)]
             bytes == <<Byte(StoredDatum)>>
             off == DataField + k - 1
  <1>0. Consume
    BY DEF StoreData
  <1>1. /\ TypeOK /\ view \in [Slots -> Views] /\ LenField(i)
        /\ parsed[i].at = AccountOffset[i]
        /\ AccountOffset[i] \in Nat /\ RoomLen(i) \in Nat
    BY <1>0, Entered
  <1>2. Byte(StoredDatum) \in Cells
    BY BoundsAssumption DEF Byte, Cells
  <1>3. bytes \in Seq(Cells) /\ Len(bytes) = 1
    BY <1>2
  <1>4. /\ v \in [Slots -> Views] /\ v[i].len = view[i].len
        /\ \A j \in Slots : j /= i => v[j] = view[j]
    <2>1. v \in [Slots -> Views]
      BY <1>1, <1>2, ViewStores
    <2> QED
      BY <1>1, <2>1 DEF Views
  <1>5. k \in Nat /\ k >= 1
    BY <1>1 DEF Views
  <1>6. k <= RoomLen(i)
    <2>1. k <= DataLenAt(mem, AccountOffset[i])
      BY <1>1 DEF StoreData
    <2> QED
      BY <1>1, <1>5, <2>1, LenRead
  <1>7. parsed[i].at + DataField + k - 1 = AccountOffset[i] + off
    BY <1>1, <1>5, Fields
  <1>8. Store(AccountOffset[i] + off, bytes, v)
    BY <1>7 DEF StoreData
  <1> HIDE DEF v, bytes
  <1>9. /\ off \in Nat /\ DataField <= off
        /\ off + Len(bytes) <= DataField + RoomLen(i) + U64
    <2>1. /\ Len(bytes) = 1 /\ k \in Nat /\ k >= 1 /\ k <= RoomLen(i)
          /\ RoomLen(i) \in Nat /\ DataField \in Nat /\ U64 \in Nat
      BY <1>1, <1>3, <1>5, <1>6, Fields
    <2> QED
      BY <2>1
  <1> HIDE DEF off
  <1> QED
    BY <1>0, <1>3, <1>4, <1>8, <1>9, SparingStore

(* A resize within the slot keeps the buffer intact. *)
LEMMA ReallocStep ==
  ASSUME IInv, ~misaligned, NEW i \in Slots, NEW n \in 0..RoomLen(i),
         Realloc(i, n)
  PROVE  SlotStep(i)
  <1> DEFINE v == [view EXCEPT ![i].len = n]
             bytes == IntBytes(n, U64)
  <1>0. Consume
    BY DEF Realloc
  <1>1. /\ TypeOK /\ view \in [Slots -> Views] /\ LenField(i)
        /\ parsed[i].at = AccountOffset[i] /\ pc = "running"
        /\ AccountOffset[i] \in Nat /\ RoomLen(i) \in Nat
    BY <1>0, Entered
  <1>2. n \in Nat /\ n <= RoomLen(i)
    BY <1>1
  <1>3. /\ bytes \in Seq(Cells) /\ Len(bytes) = U64
        /\ bytes[1] = Byte(n) /\ \A k \in 2..U64 : bytes[k] = Zero
    BY <1>2, IntBytesTyped
  <1>4. /\ v \in [Slots -> Views] /\ v[i].len = n
        /\ \A j \in Slots : j /= i => v[j] = view[j]
    <2>1. v \in [Slots -> Views]
      BY <1>1, <1>2, ViewStores
    <2> QED
      BY <1>1, <2>1 DEF Views
  <1>5. Store(AccountOffset[i] + DataLenField, bytes, v)
    BY <1>1 DEF Realloc
  <1> HIDE DEF v, bytes
  <1>6. /\ DataLenField \in Nat /\ AccountOffset[i] + DataLenField \in Nat
        /\ DataLenField + Len(bytes) <= DataField + RoomLen(i) + U64
    BY <1>1, <1>3, Fields
  <1>7. \/ mem' = mem /\ view' = view
        \/ /\ mem' = WriteAt(mem, AccountOffset[i] + DataLenField, bytes)
           /\ view' = v
    BY <1>1, <1>3, <1>4, <1>5, <1>6, StoreFacts
  <1>8. CASE mem' = mem /\ view' = view
    BY <1>1, <1>8 DEF SlotStep, ConfinedTo, LenField
  <1>9. CASE /\ mem' = WriteAt(mem, AccountOffset[i] + DataLenField, bytes)
             /\ view' = v
    <2>1. ConfinedTo(i)
      BY <1>1, <1>3, <1>6, <1>9, SlotWrite
    <2>2. ASSUME NEW k \in 0..(U64 - 1)
          PROVE  mem'[AccountOffset[i] + DataLenField + k] = bytes[k + 1]
      <3> DEFINE a == AccountOffset[i] + DataLenField + k
      <3>1. a \in Addr
        BY LenFieldAddr
      <3>2. /\ AccountOffset[i] + DataLenField <= a
            /\ a < AccountOffset[i] + DataLenField + Len(bytes)
            /\ a - (AccountOffset[i] + DataLenField) + 1 = k + 1
        <4>1. /\ AccountOffset[i] \in Nat /\ DataLenField \in Nat
              /\ U64 \in Nat /\ Len(bytes) = U64
          BY <1>1, <1>3, Fields
        <4> QED
          BY <4>1
      <3>3. mem \in [Addr -> Cells]
        BY <1>1 DEF TypeOK
      <3> HIDE DEF a
      <3> DEFINE at == AccountOffset[i] + DataLenField
      <3>4. at \in Nat /\ bytes \in Seq(Cells) /\ mem' = WriteAt(mem, at, bytes)
              /\ at <= a /\ a < at + Len(bytes) /\ a - at + 1 = k + 1
        BY <1>3, <1>6, <1>9, <3>2
      <3> HIDE DEF at
      <3>5. WriteAt(mem, at, bytes)[a] = bytes[a - at + 1]
        BY <3>1, <3>3, <3>4, WriteInside
      <3> QED
        BY <3>4, <3>5 DEF a
    <2>3. mem'[AccountOffset[i] + DataLenField] = Byte(n)
      <3>1. /\ AccountOffset[i] + DataLenField + 0 =
                 AccountOffset[i] + DataLenField
            /\ 0 \in 0..(U64 - 1) /\ 0 + 1 = 1
        BY <1>1, Fields
      <3> QED
        BY <1>3, <2>2, <3>1
    <2>4. \A k \in 1..(U64 - 1) :
            mem'[AccountOffset[i] + DataLenField + k] = Zero
      <3> TAKE k \in 1..(U64 - 1)
      <3>1. k \in 0..(U64 - 1) /\ k + 1 \in 2..U64
        BY Fields
      <3> QED
        BY <1>3, <2>2, <3>1
    <2>5. LenField(i)'
      BY <1>2, <1>4, <1>9, <2>3, <2>4 DEF LenField
    <2> QED
      BY <1>4, <1>9, <2>1, <2>5 DEF SlotStep
  <1> QED
    BY <1>7, <1>8, <1>9

(* A step in slot i keeps what does not depend on the entrypoint's walk. *)
LEMMA SlotStepKeeps ==
  ASSUME TypeOK, Intact, NEW i \in Slots, SlotStep(i),
         UNCHANGED <<program_id, ix>>
  PROVE  LenFields' /\ IdBytes' /\ InstructionBytes'
  <1>1. ConfinedTo(i) /\ LenField(i)'
    BY DEF SlotStep
  <1>2. ASSUME NEW j \in Slots
        PROVE  LenField(j)'
    <2>1. CASE j = i
      BY <1>1, <2>1
    <2>2. CASE j /= i
      BY <1>1, <2>2, OtherSlots DEF SlotStep, Intact
    <2> QED
      BY <2>1, <2>2
  <1>3. IdBytes' /\ InstructionBytes'
    BY <1>1, TailKept DEF Intact
  <1> QED
    BY <1>2, <1>3 DEF LenFields

(* A step of the program proper does not move the entrypoint. *)
LEMMA WalkedPast ==
  ASSUME Walked, Consume, ProgramLeaves
  PROVE  Walked'
  <1>1. /\ pc = "running" /\ count = NumAccounts
        /\ UNCHANGED <<parsed, count, cursor>>
    BY DEF Consume, ProgramLeaves, entrypoint
  <1>2. ~(count' < NumAccounts)
    BY <1>1, LayoutAssumption
  <1> QED
    BY <1>1, <1>2 DEF Walked

(* What touches none of its parts keeps the buffer intact. *)
LEMMA IntactKept ==
  ASSUME Intact, UNCHANGED <<mem, view, program_id, ix, parsed, count, cursor>>,
         pc' = pc \/ pc' = "idle"
  PROVE  Intact'
  <1>1. LenFields' /\ IdBytes' /\ InstructionBytes'
    BY DEF Intact, LenFields, LenField, IdBytes, InstructionBytes
  <1>2. Walked'
    BY DEF Intact, Walked, InPlace
  <1> QED
    BY <1>1, <1>2 DEF Intact

(* A write to the tail of the buffer leaves the slots' length fields. *)
LEMMA TailWriteLenFields ==
  ASSUME LenFields, UNCHANGED view,
         \A a \in Addr : a < InstructionOffset => mem'[a] = mem[a]
  PROVE  LenFields'
  <1>1. ASSUME NEW i \in Slots, NEW k \in 0..(U64 - 1)
        PROVE  mem'[AccountOffset[i] + DataLenField + k] =
                 mem[AccountOffset[i] + DataLenField + k]
    <2> DEFINE a == AccountOffset[i] + DataLenField + k
    <2>1. a \in Addr /\ a \in SlotRegion(i)
      BY LenFieldAddr
    <2>2. /\ AccountOffset[i] \in Nat /\ AccountOffset[i + 1] \in Nat
          /\ AccountOffset[i + 1] <= InstructionOffset /\ InstructionOffset \in Nat
      BY SlotFacts, TailFacts
    <2> HIDE DEF a
    <2>3. a < InstructionOffset
      BY <2>1, <2>2 DEF SlotRegion
    <2>4. mem'[a] = mem[a]
      BY <2>1, <2>3
    <2> QED
      BY <2>4 DEF a
  <1>2. ASSUME NEW i \in Slots
        PROVE  LenField(i)'
    <2>1. /\ AccountOffset[i] + DataLenField + 0 = AccountOffset[i] + DataLenField
          /\ 0 \in 0..(U64 - 1)
          /\ \A k \in 1..(U64 - 1) : k \in 0..(U64 - 1)
      BY SlotFacts, Fields
    <2>2. mem'[AccountOffset[i] + DataLenField] =
            mem[AccountOffset[i] + DataLenField]
      BY <1>1, <2>1
    <2> QED
      BY <1>1, <2>1, <2>2 DEF LenFields, LenField
  <1> QED
    BY <1>2 DEF LenFields

(* The buffer `new' leaves is intact. *)
LEMMA InitIntact == Init => Intact
  <1> SUFFICES ASSUME Init
               PROVE  Intact
    OBVIOUS
  <1>1. ASSUME NEW i \in Slots
        PROVE  LenField(i)
    <2> DEFINE bytes == AccountBytes(i, EmptyAccount)
    <2>1. /\ bytes[DataLenField + 1] = Byte(AccountSize[i])
          /\ \A k \in 1..(U64 - 1) : bytes[DataLenField + 1 + k] = Zero
          /\ ViewOf(i, EmptyAccount).len = AccountSize[i]
      BY EmptyAccountTyped, AccountBytesFacts, ViewOfTyped, SlotFacts
    <2>2. ASSUME NEW k \in 0..(U64 - 1)
          PROVE  mem[AccountOffset[i] + DataLenField + k] =
                   bytes[DataLenField + 1 + k]
      <3> DEFINE a == AccountOffset[i] + DataLenField + k
      <3>1. a \in SlotRegion(i)
        BY LenFieldAddr
      <3>2. a - AccountOffset[i] + 1 = DataLenField + 1 + k
        BY SlotFacts, Fields
      <3> HIDE DEF a
      <3>3. mem[a] = bytes[a - AccountOffset[i] + 1]
        BY <3>1, EmptyBufferFacts DEF Init
      <3> QED
        BY <3>2, <3>3 DEF a
    <2>3. /\ AccountOffset[i] + DataLenField + 0 = AccountOffset[i] + DataLenField
          /\ 0 \in 0..(U64 - 1) /\ DataLenField + 1 + 0 = DataLenField + 1
          /\ \A k \in 1..(U64 - 1) : k \in 0..(U64 - 1)
      BY SlotFacts, Fields
    <2>4. view[i].len = AccountSize[i] /\ AccountSize[i] <= RoomLen(i)
      BY <2>1, SlotFacts DEF Init
    <2>5. mem[AccountOffset[i] + DataLenField] = bytes[DataLenField + 1]
      BY <2>2, <2>3
    <2> QED
      BY <2>1, <2>2, <2>3, <2>4, <2>5 DEF LenField
  <1>2. ASSUME NEW a \in Addr, InstructionOffset < a
        PROVE  mem[a] = Zero
    <2>1. a \in Nat /\ a /= 0 /\ a /= InstructionOffset /\ InstructionOffset <= a
      BY <1>2, TailFacts DEF Addr
    <2>2. ~\E i \in Slots : a \in SlotRegion(i)
      BY <2>1, SlotBelowTail
    <2> QED
      BY <2>1, <2>2 DEF Init, EmptyBuffer
  <1>3. IdBytes
    <2> SUFFICES ASSUME NEW k \in 1..PUBKEY
                 PROVE  mem[ProgramIdOffset + k - 1] = KeyBytes(program_id)[k]
      BY DEF IdBytes
    <2>1. KeyBytes(program_id)[k] = Zero
      BY DEF Init, KeyBytes
    <2>2. /\ ProgramIdOffset + k - 1 \in Addr
          /\ InstructionOffset < ProgramIdOffset + k - 1
      BY TailAddr, TailFacts, Fields
    <2> QED
      BY <1>2, <2>1, <2>2
  <1>4. InstructionBytes
    <2>1. mem[InstructionOffset] = Byte(InstructionSize)
      <3>1. InstructionOffset \in Addr /\ InstructionOffset /= 0
        BY TailFacts, Fields DEF Addr
      <3> QED
        BY <3>1 DEF Init, EmptyBuffer
    <2>2. ASSUME NEW k \in 1..(U64 - 1)
          PROVE  mem[InstructionOffset + k] = Zero
      <3>1. InstructionOffset + k \in Addr /\ InstructionOffset < InstructionOffset + k
        BY TailAddr, TailFacts, Fields
      <3> QED
        BY <1>2, <3>1
    <2>3. ASSUME NEW k \in 1..InstructionSize
          PROVE  mem[InstructionOffset + U64 + k - 1] = Zero
      <3>1. InstructionOffset + U64 + k - 1 \in Addr
        BY TailAddr
      <3>2. InstructionOffset < InstructionOffset + U64 + k - 1
        BY TailFacts, Fields
      <3> QED
        BY <1>2, <3>1, <3>2
    <2>4. ix.last = <<>> /\ Len(ix.last) = 0 /\ ix.longest = 0
      BY DEF Init
    <2> QED
      BY <2>1, <2>2, <2>3, <2>4 DEF InstructionBytes
  <1>5. Walked
    BY DEF Init, Walked
  <1> QED
    BY <1>1, <1>3, <1>4, <1>5 DEF Intact, LenFields

(* update_program keeps the buffer intact, also when it fails. *)
LEMMA UpdateProgramStep ==
  ASSUME TypeOK, Intact, NEW pid \in ProgramIds, NEW elf \in Elfs \union {BadElf},
         UpdateProgram(pid, elf)
  PROVE  /\ Intact'
         /\ \A a \in Addr : a < ProgramIdOffset => mem'[a] = mem[a]
  <1>1. CASE elf = BadElf
    BY <1>1, IntactKept DEF UpdateProgram, history, entrypoint
  <1>2. CASE elf /= BadElf
    <2>1. /\ mem' = WriteAt(mem, ProgramIdOffset, KeyBytes(pid))
          /\ program_id' = pid /\ pc' = "idle" /\ UNCHANGED <<view, ix>>
      BY <1>2 DEF UpdateProgram, history
    <2>2. /\ mem \in [Addr -> Cells] /\ pid \in Keys /\ ProgramIdOffset \in Nat
      BY TailFacts, BoundsAssumption DEF TypeOK, Keys
    <2>3. KeyBytes(pid) \in Seq(Cells) /\ Len(KeyBytes(pid)) = PUBKEY
      BY <2>2, KeyBytesTyped
    <2>4. /\ \A a \in Addr : a < ProgramIdOffset => mem'[a] = mem[a]
          /\ \A a \in Addr : (ProgramIdOffset <= a /\ a < ProgramIdOffset + PUBKEY)
               => mem'[a] = KeyBytes(pid)[a - ProgramIdOffset + 1]
      BY <2>1, <2>2, <2>3, WriteAtFacts
    <2>5. LenFields'
      <3>1. \A a \in Addr : a < InstructionOffset => mem'[a] = mem[a]
        <4> TAKE a \in Addr
        <4>1. a \in Nat
          BY TailFacts DEF Addr
        <4>2. a < InstructionOffset => a < ProgramIdOffset
          BY <4>1, TailFacts, Fields
        <4> QED
          BY <2>4, <4>2
      <3> QED
        BY <2>1, <3>1, TailWriteLenFields DEF Intact
    <2>6. IdBytes'
      <3> SUFFICES ASSUME NEW k \in 1..PUBKEY
                   PROVE  mem'[ProgramIdOffset + k - 1] = KeyBytes(pid)[k]
        BY <2>1 DEF IdBytes
      <3>1. ProgramIdOffset + k - 1 \in Addr
        BY TailAddr
      <3>2. /\ ProgramIdOffset <= ProgramIdOffset + k - 1
            /\ ProgramIdOffset + k - 1 < ProgramIdOffset + PUBKEY
            /\ (ProgramIdOffset + k - 1) - ProgramIdOffset + 1 = k
        BY <2>2, Fields
      <3> QED
        BY <2>4, <3>1, <3>2
    <2>7. InstructionBytes'
      <3>1. /\ ix.longest \in 0..InstructionSize
            /\ Len(ix.last) \in Nat /\ Len(ix.last) <= ix.longest
        BY DEF TypeOK, Intact, InstructionBytes
      <3>2. ASSUME NEW k \in 0..(U64 - 1)
            PROVE  mem'[InstructionOffset + k] = mem[InstructionOffset + k]
        <4>1. InstructionOffset + k \in Addr /\ InstructionOffset + k < ProgramIdOffset
          BY TailAddr, TailFacts, Fields
        <4> QED
          BY <2>4, <4>1
      <3>3. \A k \in 1..InstructionSize :
              mem'[InstructionOffset + U64 + k - 1] =
                mem[InstructionOffset + U64 + k - 1]
        BY <2>4, TailAddr
      <3>4. /\ InstructionOffset + 0 = InstructionOffset /\ 0 \in 0..(U64 - 1)
            /\ \A k \in 1..(U64 - 1) : k \in 0..(U64 - 1)
        BY TailFacts, Fields
      <3>5. mem'[InstructionOffset] = mem[InstructionOffset]
        BY <3>2, <3>4
      <3>6. /\ \A k \in 1..Len(ix.last) : k \in 1..InstructionSize
            /\ \A k \in (ix.longest + 1)..InstructionSize :
                 k \in 1..InstructionSize
        BY <3>1, TailFacts
      <3> QED
        BY <2>1, <3>2, <3>3, <3>4, <3>5, <3>6 DEF Intact, InstructionBytes
    <2>8. Walked'
      BY <2>1 DEF Walked
    <2> QED
      BY <2>4, <2>5, <2>6, <2>7, <2>8 DEF Intact
  <1> QED
    BY <1>1, <1>2

(* update_instruction keeps the buffer intact, also when it fails. *)
LEMMA UpdateInstructionStep ==
  ASSUME TypeOK, Intact, NEW instruction \in InstructionInputs,
         UpdateInstruction(instruction)
  PROVE  /\ Intact'
         /\ \A a \in Addr : (a < InstructionOffset \/ ProgramIdOffset <= a)
              => mem'[a] = mem[a]
  <1>0. /\ instruction \in Seq(Cells) /\ Len(instruction) \in Nat
        /\ InstructionSize \in Nat
        /\ mem \in [Addr -> Cells]
        /\ ix.longest \in 0..InstructionSize
        /\ ix.last \in Seq(Cells)
    BY BoundsAssumption, TailFacts DEF TypeOK
  <1>1. CASE Len(instruction) > InstructionSize
    BY <1>1, IntactKept DEF UpdateInstruction, context, entrypoint
  <1>2. CASE ~(Len(instruction) > InstructionSize)
    <2> DEFINE bytes == IntBytes(InstructionSize, U64)
               m1 == WriteAt(mem, InstructionOffset, bytes)
               n == Len(instruction)
    <2>1. /\ mem' = WriteAt(m1, InstructionOffset + U64, instruction)
          /\ ix'.last = instruction
          /\ ix'.longest = IF n > ix.longest THEN n ELSE ix.longest
          /\ pc' = "idle" /\ UNCHANGED <<view, program_id>>
      BY <1>2 DEF UpdateInstruction, context
    <2>2. /\ bytes \in Seq(Cells) /\ Len(bytes) = U64
          /\ bytes[1] = Byte(InstructionSize)
          /\ \A k \in 2..U64 : bytes[k] = Zero
      BY <1>0, IntBytesTyped
    <2> HIDE DEF bytes
    <2>3. /\ m1 \in [Addr -> Cells]
          /\ \A a \in Addr :
               (a < InstructionOffset \/ InstructionOffset + U64 <= a)
                 => m1[a] = mem[a]
          /\ \A a \in Addr :
               (InstructionOffset <= a /\ a < InstructionOffset + U64)
                 => m1[a] = bytes[a - InstructionOffset + 1]
      <3>1. mem \in [Addr -> Cells] /\ InstructionOffset \in Nat
        BY <1>0, TailFacts
      <3>2. bytes \in Seq(Cells) /\ Len(bytes) = U64
        BY <2>2
      <3>3. /\ m1 \in [Addr -> Cells]
            /\ \A a \in Addr :
                 (a < InstructionOffset \/ InstructionOffset + Len(bytes) <= a)
                   => m1[a] = mem[a]
            /\ \A a \in Addr :
                 (InstructionOffset <= a /\ a < InstructionOffset + Len(bytes))
                   => m1[a] = bytes[a - InstructionOffset + 1]
        <4> HIDE DEF bytes
        <4> QED
          BY <3>1, <3>2, WriteAtFacts
      <3> HIDE DEF m1
      <3> QED
        BY <3>2, <3>3
    <2> HIDE DEF m1
    <2>4. /\ \A a \in Addr :
               (a < InstructionOffset + U64 \/ InstructionOffset + U64 + n <= a)
                 => mem'[a] = m1[a]
          /\ \A a \in Addr :
               (InstructionOffset + U64 <= a /\ a < InstructionOffset + U64 + n)
                 => mem'[a] = instruction[a - (InstructionOffset + U64) + 1]
      <3>1. InstructionOffset + U64 \in Nat
        BY TailFacts, Fields
      <3> QED
        BY <1>0, <2>1, <2>3, <3>1, WriteAtFacts
    <2>n. n \in Nat /\ n <= InstructionSize
      BY <1>0, <1>2
    <2> HIDE DEF n
    <2>5. ASSUME NEW a \in Addr, a < InstructionOffset \/ ProgramIdOffset <= a
          PROVE  mem'[a] = mem[a]
      <3>1. a \in Nat
        BY TailFacts DEF Addr
      <3>2. /\ a < InstructionOffset \/ InstructionOffset + U64 <= a
            /\ a < InstructionOffset + U64 \/ InstructionOffset + U64 + n <= a
        BY <2>5, <2>n, <3>1, TailFacts, Fields
      <3> QED
        BY <2>3, <2>4, <3>2
    <2>6. LenFields'
      BY <2>1, <2>5, TailWriteLenFields DEF Intact
    <2>7. IdBytes'
      <3>1. ASSUME NEW k \in 1..PUBKEY
            PROVE  mem'[ProgramIdOffset + k - 1] = mem[ProgramIdOffset + k - 1]
        BY <2>5, TailAddr
      <3> QED
        BY <2>1, <3>1 DEF Intact, IdBytes
    <2>8. ASSUME NEW k \in 0..(U64 - 1)
          PROVE  mem'[InstructionOffset + k] = bytes[k + 1]
      <3>1. /\ InstructionOffset + k \in Addr
            /\ InstructionOffset <= InstructionOffset + k
            /\ InstructionOffset + k < InstructionOffset + U64
        BY TailAddr
      <3>2. (InstructionOffset + k) - InstructionOffset + 1 = k + 1
        BY TailFacts, Fields
      <3>3. mem'[InstructionOffset + k] = m1[InstructionOffset + k]
        BY <2>4, <3>1
      <3>4. m1[InstructionOffset + k] =
              bytes[(InstructionOffset + k) - InstructionOffset + 1]
        BY <2>3, <3>1
      <3> QED
        BY <3>2, <3>3, <3>4
    <2>9. mem'[InstructionOffset] = Byte(InstructionSize)
      <3>1. InstructionOffset + 0 = InstructionOffset /\ 0 \in 0..(U64 - 1)
            /\ 0 + 1 = 1
        BY TailFacts, Fields
      <3> QED
        BY <2>2, <2>8, <3>1
    <2>10. \A k \in 1..(U64 - 1) : mem'[InstructionOffset + k] = Zero
      <3> TAKE k \in 1..(U64 - 1)
      <3>1. k \in 0..(U64 - 1) /\ k + 1 \in 2..U64
        BY Fields
      <3> QED
        BY <2>2, <2>8, <3>1
    <2>11. \A k \in 1..n : mem'[InstructionOffset + U64 + k - 1] = instruction[k]
      <3> TAKE k \in 1..n
      <3>1. InstructionOffset + U64 + k - 1 \in Addr
        <4>1. k \in 1..InstructionSize
          BY <1>0, <2>n
        <4> QED
          BY <4>1, TailAddr
      <3>2. /\ InstructionOffset + U64 <= InstructionOffset + U64 + k - 1
            /\ InstructionOffset + U64 + k - 1 < InstructionOffset + U64 + n
            /\ (InstructionOffset + U64 + k - 1) - (InstructionOffset + U64) + 1 = k
        BY <2>n, TailFacts, Fields
      <3> QED
        BY <2>4, <3>1, <3>2
    <2>12. \A k \in (ix'.longest + 1)..InstructionSize :
             mem'[InstructionOffset + U64 + k - 1] = Zero
      <3> TAKE k \in (ix'.longest + 1)..InstructionSize
      <3>1. k \in (ix.longest + 1)..InstructionSize /\ k > n /\ k \in 1..InstructionSize
        BY <1>0, <2>1, <2>n
      <3>2. InstructionOffset + U64 + k - 1 \in Addr
        BY <3>1, TailAddr
      <3>3. /\ InstructionOffset + U64 + n <= InstructionOffset + U64 + k - 1
            /\ InstructionOffset + U64 <= InstructionOffset + U64 + k - 1
        BY <2>n, <3>1, TailFacts, Fields
      <3>4. mem'[InstructionOffset + U64 + k - 1] =
              mem[InstructionOffset + U64 + k - 1]
        BY <2>3, <2>4, <3>2, <3>3
      <3> QED
        BY <3>1, <3>4 DEF Intact, InstructionBytes
    <2>13. Len(ix'.last) = n /\ n <= ix'.longest
      BY <1>0, <2>1, <2>n DEF n
    <2>14. InstructionBytes'
      BY <2>1, <2>9, <2>10, <2>11, <2>12, <2>13 DEF InstructionBytes
    <2>15. Walked'
      BY <2>1 DEF Walked
    <2> QED
      BY <2>5, <2>6, <2>7, <2>14, <2>15 DEF Intact
  <1> QED
    BY <1>1, <1>2

(* The walk of the entrypoint meets the next slot: it pads by address, the *)
(* executor by size, and the slots are aligned.                            *)
LEMMA ParseAccountStep ==
  ASSUME TypeOK, Intact, ParseAccount
  PROVE  Intact'
  <1> DEFINE c == count
             n == view[c].len
             o == AccountOffset[c]
             end == o + DataField + n + MAX_INCREASE
  <1>1. /\ pc = "running" /\ c \in Slots /\ c \in Nat
        /\ UNCHANGED <<mem, view, program_id, ix>>
    BY LayoutAssumption DEF ParseAccount, TypeOK, Slots, context, history
  <1>2. /\ cursor = o
        /\ \A i \in Slots : i < c =>
             /\ parsed[i].at = AccountOffset[i]
             /\ parsed[i].len <= Rounded(AccountSize[i])
        /\ \A i \in Slots : InPlace(i)
    BY <1>1 DEF Intact, Walked, ParseAccount
  <1>3. /\ DataLenAt(mem, o) = n /\ n \in Nat
    BY <1>1, LenRead DEF Intact, LenFields
  <1>4. /\ parsed' = [parsed EXCEPT ![c] = [at |-> o, len |-> n]]
        /\ count' = c + 1 /\ pc' = pc
        /\ cursor' = end + AlignOffset(end) + U64
    BY <1>2, <1>3 DEF ParseAccount, Continue
  <1>5. /\ o \in Nat /\ AccountSize[c] \in Nat
        /\ AccountOffset[c + 1] =
             o + DataField + (Rounded(AccountSize[c]) + MAX_INCREASE) + U64
        /\ o % ALIGN = 0
    BY <1>1, SlotFacts, LayoutAssumption DEF Slots
  <1>6. Rounded(n) = Rounded(AccountSize[c])
    BY <1>1, <1>2 DEF InPlace
  <1>7. AlignOffset(end) = AlignOffset(n)
    <2> DEFINE base == o + (DataField + MAX_INCREASE)
    <2>1. /\ DataField \in Nat /\ MAX_INCREASE \in Nat
          /\ (DataField + MAX_INCREASE) % ALIGN = 0
      BY Fields, AddMultiple, AlignedAssumption
    <2>2. base \in Nat /\ base % ALIGN = 0
      BY <1>5, <2>1, AddMultiple
    <2>3. end = base + n
      BY <1>3, <1>5, <2>1
    <2> HIDE DEF base
    <2> QED
      BY <1>3, <2>2, <2>3, AlignOffsetShift
  <1>8. cursor' = AccountOffset[c + 1]
    <2>1. AlignOffset(n) \in Nat /\ n + AlignOffset(n) = Rounded(n)
      BY <1>3, AlignOffsetNat DEF Rounded
    <2>2. end + AlignOffset(n) + U64 =
            o + DataField + (Rounded(n) + MAX_INCREASE) + U64
      BY <1>3, <1>5, <2>1, Fields
    <2> QED
      BY <1>4, <1>5, <1>6, <1>7, <2>2
  <1>9. parsed \in [Slots -> [at : Nat, len : Nat]]
    BY DEF TypeOK
  <1>10. n <= Rounded(AccountSize[c])
    BY <1>3, <1>6, RoundedNat
  <1> HIDE DEF c, n, o, end
  <1>11. ASSUME NEW i \in Slots, i < c + 1
         PROVE  /\ parsed'[i].at = AccountOffset[i]
                /\ parsed'[i].len <= Rounded(AccountSize[i])
    <2>1. CASE i = c
      BY <1>1, <1>4, <1>9, <1>10, <2>1 DEF o
    <2>2. CASE i /= c
      <3>1. i < c
        BY <1>1, <1>11, <2>2, LayoutAssumption DEF Slots
      <3> QED
        BY <1>2, <1>4, <1>9, <2>2, <3>1
    <2> QED
      BY <2>1, <2>2
  <1>12. \A i \in Slots : InPlace(i)'
    BY <1>1, <1>2 DEF InPlace
  <1>13. Walked'
    BY <1>4, <1>8, <1>11, <1>12 DEF Walked
  <1>14. LenFields' /\ IdBytes' /\ InstructionBytes'
    BY <1>1 DEF Intact, LenFields, LenField, IdBytes, InstructionBytes
  <1> QED
    BY <1>13, <1>14 DEF Intact

(* execute begins a run whose walk starts at the first slot. *)
LEMMA ExecuteStep ==
  ASSUME TypeOK, Intact, Execute, ~misaligned'
  PROVE  Intact'
  <1>1. CASE executable = None
    BY <1>1, IntactKept DEF Execute, entrypoint
  <1>2. CASE executable /= None
    <2>1. /\ count' = 0 /\ cursor' = U64
          /\ UNCHANGED <<mem, view, program_id, ix>>
          /\ \A i \in Slots : InPlace(i)
      BY <1>2 DEF Execute
    <2>2. LenFields' /\ IdBytes' /\ InstructionBytes'
      BY <2>1 DEF Intact, LenFields, LenField, IdBytes, InstructionBytes
    <2>3. \A i \in Slots : InPlace(i)'
      BY <2>1 DEF InPlace
    <2>4. AccountOffset[0] = U64 /\ \A i \in Slots : ~(i < 0)
      BY LayoutAssumption DEF Slots
    <2>5. Walked'
      BY <2>1, <2>3, <2>4 DEF Walked
    <2> QED
      BY <2>2, <2>5 DEF Intact
  <1> QED
    BY <1>1, <1>2

(* The program steps that store into an account. *)
AccountStore(i) ==
  \/ \E n \in StoredLamports : StoreLamports(i, n)
  \/ \E p \in Pubkeys : StoreOwner(i, p)
  \/ \E k \in DOMAIN view[i].room : StoreData(i, k)
  \/ \E n \in 0..RoomLen(i) : Realloc(i, n)

(* The stores of a program, taken together. *)
LEMMA AccountStoreStep ==
  ASSUME IInv, ~misaligned, NEW i \in Slots, AccountStore(i)
  PROVE  SlotStep(i) /\ Consume /\ ProgramLeaves
  <1>1. SlotStep(i)
    BY StoreLamportsStep, StoreOwnerStep, StoreDataStep, ReallocStep
       DEF AccountStore
  <1>2. Consume /\ ProgramLeaves
    BY DEF AccountStore, StoreLamports, StoreOwner, StoreData, Realloc
  <1> QED
    BY <1>1, <1>2

(* The other program steps leave buffer and history alone. *)
OtherStep ==
  \/ StoreScratch
  \/ \E n \in ReturnDataInputs, mapped \in BOOLEAN : SetReturnData(n, mapped)
  \/ \E r \in {"ok", "code", "vm"} : Exit(r)
  \/ OutOfMeter

(* The remaining steps leave the buffer and its records alone. *)
LEMMA OtherStepKeeps ==
  ASSUME OtherStep
  PROVE  /\ UNCHANGED <<mem, view, program_id, ix, parsed, count, cursor,
                        misaligned>>
         /\ pc' = pc \/ pc' = "idle"
  BY DEF OtherStep, StoreScratch, SetReturnData, Exit, OutOfMeter,
         ProgramLeaves, entrypoint, Return, Continue

(* The cases of Next, as the proofs below split them. *)
LEMMA Steps ==
  ASSUME [Next]_vars
  PROVE  \/ \E pid \in ProgramIds, elf \in Elfs \union {BadElf} :
              UpdateProgram(pid, elf)
         \/ \E instruction \in InstructionInputs :
              UpdateInstruction(instruction)
         \/ \E i \in Slots, acc \in AccountInputs : UpdateAccount(i, acc)
         \/ Execute
         \/ ParseAccount
         \/ \E i \in Slots : AccountStore(i)
         \/ OtherStep
         \/ UNCHANGED vars
  BY DEF Next, CallerStep, ProgramStep, AccountStore, OtherStep

(* Every step keeps the buffer intact, as long as slots are in place. *)
LEMMA NextIntact ==
  IInv /\ [Next]_vars => (~misaligned' => Intact')
  <1> SUFFICES ASSUME IInv, [Next]_vars, ~misaligned'
               PROVE  Intact'
    OBVIOUS
  <1>0. misaligned => misaligned'
    <2>1. ASSUME Execute PROVE misaligned => misaligned'
      BY <2>1 DEF Execute
    <2>2. ASSUME NEW i \in Slots, AccountStore(i) PROVE misaligned' = misaligned
      BY <2>2 DEF AccountStore, StoreLamports, StoreOwner, StoreData, Realloc,
                  ProgramLeaves
    <2> QED
      BY <2>1, <2>2, Steps, OtherStepKeeps
         DEF UpdateProgram, UpdateInstruction, UpdateAccount, ParseAccount,
             history, vars
  <1>1. TypeOK /\ Intact /\ ~misaligned
    BY <1>0 DEF IInv
  <1>2. ASSUME NEW pid \in ProgramIds, NEW elf \in Elfs \union {BadElf},
               UpdateProgram(pid, elf)
        PROVE  Intact'
    BY <1>1, <1>2, UpdateProgramStep
  <1>3. ASSUME NEW instruction \in InstructionInputs,
               UpdateInstruction(instruction)
        PROVE  Intact'
    BY <1>1, <1>3, UpdateInstructionStep
  <1>4. ASSUME NEW i \in Slots, NEW acc \in AccountInputs, UpdateAccount(i, acc)
        PROVE  Intact'
    <2>1. SlotStep(i)
      BY <1>1, <1>4, UpdateAccountStep
    <2>2. UNCHANGED <<program_id, ix>> /\ pc' = "idle"
      BY <1>4 DEF UpdateAccount, context
    <2>3. Walked'
      BY <2>2 DEF Walked
    <2> QED
      BY <1>1, <2>1, <2>2, <2>3, SlotStepKeeps DEF Intact
  <1>5. ASSUME NEW i \in Slots, AccountStore(i)
        PROVE  Intact'
    <2>1. SlotStep(i) /\ Consume /\ ProgramLeaves
      BY <1>1, <1>5, AccountStoreStep
    <2>2. UNCHANGED <<program_id, ix>>
      BY <2>1 DEF ProgramLeaves
    <2>3. Walked'
      BY <1>1, <2>1, WalkedPast DEF Intact
    <2> QED
      BY <1>1, <2>1, <2>2, <2>3, SlotStepKeeps DEF Intact
  <1>6. CASE Execute
    BY <1>1, <1>6, ExecuteStep
  <1>7. CASE ParseAccount
    BY <1>1, <1>7, ParseAccountStep
  <1>8. CASE OtherStep
    BY <1>1, <1>8, OtherStepKeeps, IntactKept
  <1>9. CASE UNCHANGED vars
    BY <1>1, <1>9, IntactKept DEF vars, context, entrypoint, history
  <1> QED
    BY <1>2, <1>3, <1>4, <1>5, <1>6, <1>7, <1>8, <1>9, Steps

(* IInv holds in every state of an executor. *)
LEMMA Invariance == Spec => []IInv
  <1>1. Init => IInv
    BY InitTypeOK, InitOwn, InitIntact DEF IInv
  <1>2. IInv /\ [Next]_vars => IInv'
    BY NextTypeOK, NextOwn, NextIntact DEF IInv
  <1> QED
    BY <1>1, <1>2, PTL DEF Spec

(* A program finds every account where the executor put it, for every      *)
(* number and size of accounts, as long as no run began on a buffer in     *)
(* which an earlier one left an account resized across an alignment        *)
(* boundary.                                                               *)
THEOREM ExecutorParseAgrees == Spec => []ParseAgrees
  <1>1. IInv => ParseAgrees
    BY DEF IInv, Intact, Walked, ParseAgrees
  <1> QED
    BY <1>1, Invariance, PTL

(* The loaded program, the id it runs under and the id in its input are of *)
(* one successful update_program.                                          *)
THEOREM ExecutorProgramAgreement == Spec => []ProgramAgreement
  <1>1. ASSUME IInv
        PROVE  ProgramAgreement
    <2>1. LoadedProgram /\ (executable = None => program_id = 0)
      BY <1>1 DEF IInv, Own
    <2>2. ASSUME ~misaligned
          PROVE  Slice(mem, ProgramIdOffset, PUBKEY) = KeyBytes(program_id)
      <3>1. \A k \in 1..PUBKEY :
              mem[ProgramIdOffset + k - 1] = KeyBytes(program_id)[k]
        BY <1>1, <2>2 DEF IInv, Intact, IdBytes
      <3> QED
        BY <3>1 DEF Slice, KeyBytes
    <2> QED
      BY <2>1, <2>2 DEF ProgramAgreement
  <1> QED
    BY <1>1, Invariance, PTL

(* The instruction region holds the last instruction accepted, at full     *)
(* length, and zeros past the longest one.                                 *)
THEOREM ExecutorInstructionView == Spec => []InstructionView
  <1>1. ASSUME IInv
        PROVE  InstructionView
    <2> SUFFICES ASSUME ~misaligned
                 PROVE  InstructionView
      BY DEF InstructionView
    <2>1. InstructionBytes /\ TypeOK
      BY <1>1 DEF IInv, Intact
    <2>2. ReadInt(mem, InstructionOffset) = InstructionSize
      BY <2>1 DEF InstructionBytes, ReadInt, Byte
    <2>3. Slice(mem, InstructionOffset + U64, Len(ix.last)) = ix.last
      <3>1. /\ ix.last \in Seq(Cells)
            /\ \A k \in 1..Len(ix.last) :
                 mem[InstructionOffset + U64 + k - 1] = ix.last[k]
        BY <2>1 DEF TypeOK, InstructionBytes
      <3> QED
        BY <3>1 DEF Slice
    <2> QED
      BY <2>1, <2>2, <2>3 DEF InstructionView, InstructionBytes
  <1> QED
    BY <1>1, Invariance, PTL

(* Every step of the caller or of a program changes bytes of at most one   *)
(* slot, of the instruction or of the program id.                          *)
THEOREM ExecutorSlotIsolation == Spec => SlotIsolation
  <1>1. ASSUME IInv, [Next]_vars
        PROVE  OneRegion
    <2> SUFFICES ASSUME ~misaligned
                 PROVE  OneRegion
      BY DEF OneRegion
    <2>0. TypeOK /\ Intact
      BY <1>1 DEF IInv
    <2>1. ASSUME NEW i \in Slots, ConfinedTo(i)
          PROVE  OneRegion
      <3>1. SlotRegion(i) \in Regions
        BY DEF Regions
      <3> QED
        BY <2>1, <3>1 DEF OneRegion, ConfinedTo
    <2>2. ASSUME NEW i \in Slots, NEW acc \in AccountInputs,
                 UpdateAccount(i, acc)
          PROVE  OneRegion
      BY <1>1, <2>1, <2>2, UpdateAccountStep DEF SlotStep
    <2>3. ASSUME NEW i \in Slots, AccountStore(i)
          PROVE  OneRegion
      BY <1>1, <2>1, <2>3, AccountStoreStep DEF SlotStep
    <2>4. ASSUME NEW pid \in ProgramIds, NEW elf \in Elfs \union {BadElf},
                 UpdateProgram(pid, elf)
          PROVE  OneRegion
      <3> DEFINE R == ProgramIdOffset..(BufferLen - 1)
      <3>1. \A a \in Addr : a < ProgramIdOffset => mem'[a] = mem[a]
        BY <2>0, <2>4, UpdateProgramStep
      <3>2. \A a \in Addr \ R : a < ProgramIdOffset
        BY TailFacts DEF Addr
      <3>3. R \in Regions
        BY DEF Regions
      <3> QED
        BY <3>1, <3>2, <3>3 DEF OneRegion
    <2>5. ASSUME NEW instruction \in InstructionInputs,
                 UpdateInstruction(instruction)
          PROVE  OneRegion
      <3> DEFINE R == InstructionOffset..(ProgramIdOffset - 1)
      <3>1. \A a \in Addr : (a < InstructionOffset \/ ProgramIdOffset <= a)
              => mem'[a] = mem[a]
        BY <2>0, <2>5, UpdateInstructionStep
      <3>2. \A a \in Addr \ R : a < InstructionOffset \/ ProgramIdOffset <= a
        BY TailFacts DEF Addr
      <3>3. R \in Regions
        BY DEF Regions
      <3> QED
        BY <3>1, <3>2, <3>3 DEF OneRegion
    <2>6. CASE UNCHANGED mem
      <3>1. ProgramIdOffset..(BufferLen - 1) \in Regions
        BY DEF Regions
      <3> QED
        BY <2>6, <3>1 DEF OneRegion
    <2>7. Execute \/ ParseAccount \/ OtherStep \/ UNCHANGED vars => UNCHANGED mem
      BY OtherStepKeeps DEF Execute, ParseAccount, vars
    <2> QED
      BY <1>1, <2>2, <2>3, <2>4, <2>5, <2>6, <2>7, Steps
  <1>2. IInv /\ [Next]_vars => [OneRegion]_vars
    BY <1>1
  <1> QED
    BY <1>2, Invariance, PTL DEF Spec, SlotIsolation

-----------------------------------------------------------------------------
(* What get_account reads.  As long as no run began on a resized account,  *)
(* every field of a slot holds the bytes of the account as the caller and  *)
(* the programs left it, its data up to the end of the room.               *)

Holds(m, at, bytes) == \A k \in 1..Len(bytes) : m[at + k - 1] = bytes[k]

Keeps(m, i, v) ==
  /\ Len(v.room) = RoomLen(i)
  /\ Holds(m, AccountOffset[i] + ExecutableField, <<Byte(Flag(v.executable))>>)
  /\ Holds(m, AccountOffset[i] + OwnerField, KeyBytes(v.owner))
  /\ Holds(m, AccountOffset[i] + LamportsField, IntBytes(v.lamports, U64))
  /\ Holds(m, AccountOffset[i] + DataField, v.room)
  /\ Holds(m, AccountOffset[i] + (DataField + RoomLen(i)),
           IntBytes(v.rent_epoch, U64))

Accounts == ~misaligned => \A i \in Slots : Keeps(mem, i, view[i])

(* Bytes one after the other are held one after the other. *)
LEMMA HoldsConcat ==
  ASSUME NEW m, NEW at \in Nat, NEW s \in Seq(Cells), NEW t \in Seq(Cells)
  PROVE  Holds(m, at, s \o t)
           <=> Holds(m, at, s) /\ Holds(m, at + Len(s), t)
  <1> DEFINE u == s \o t
             p == Len(s)
             q == Len(t)
  <1>1. /\ Len(u) = p + q /\ p \in Nat /\ q \in Nat
        /\ \A k \in 1..p : u[k] = s[k]
        /\ \A k \in 1..q : u[p + k] = t[k]
    BY Concat
  <1> HIDE DEF u, p, q
  <1>2. ASSUME Holds(m, at, u)
        PROVE  Holds(m, at, s) /\ Holds(m, at + p, t)
    <2>1. \A k \in 1..(p + q) : m[at + k - 1] = u[k]
      BY <1>1, <1>2 DEF Holds
    <2>2. ASSUME NEW k \in 1..p
          PROVE  m[at + k - 1] = s[k]
      BY <1>1, <2>1
    <2>3. ASSUME NEW k \in 1..q
          PROVE  m[at + p + k - 1] = t[k]
      <3>1. p + k \in 1..(p + q) /\ at + (p + k) - 1 = at + p + k - 1
        BY <1>1
      <3> QED
        BY <1>1, <2>1, <3>1
    <2> QED
      BY <2>2, <2>3 DEF Holds, p, q
  <1>3. ASSUME Holds(m, at, s), Holds(m, at + p, t)
        PROVE  Holds(m, at, u)
    <2>1. /\ \A k \in 1..p : m[at + k - 1] = s[k]
          /\ \A k \in 1..q : m[at + p + k - 1] = t[k]
      BY <1>3 DEF Holds, p, q
    <2>2. ASSUME NEW k \in 1..(p + q)
          PROVE  m[at + k - 1] = u[k]
      <3>1. CASE k <= p
        BY <1>1, <2>1, <3>1
      <3>2. CASE k > p
        <4>1. /\ k - p \in 1..q /\ p + (k - p) = k
              /\ at + p + (k - p) - 1 = at + k - 1
          BY <1>1, <3>2
        <4>2. m[at + p + (k - p) - 1] = t[k - p] /\ u[p + (k - p)] = t[k - p]
          BY <1>1, <2>1, <4>1
        <4> QED
          BY <4>1, <4>2
      <3> QED
        BY <1>1, <3>1, <3>2
    <2> QED
      BY <1>1, <2>2 DEF Holds
  <1> QED
    BY <1>2, <1>3 DEF u, p

(* A write that fits is held. *)
LEMMA HoldsWritten ==
  ASSUME NEW m \in [Addr -> Cells], NEW at \in Nat, NEW bytes \in Seq(Cells),
         at + Len(bytes) <= BufferLen
  PROVE  Holds(WriteAt(m, at, bytes), at, bytes)
  <1> SUFFICES ASSUME NEW k \in 1..Len(bytes)
               PROVE  WriteAt(m, at, bytes)[at + k - 1] = bytes[k]
    BY DEF Holds
  <1> DEFINE n == Len(bytes)
             a == at + k - 1
  <1>0. n \in Nat /\ k \in 1..n /\ at + n <= BufferLen /\ BufferLen \in Nat
    BY TailFacts
  <1> HIDE DEF n
  <1>1. a \in Addr /\ at <= a /\ a < at + n /\ a - at + 1 = k
    BY <1>0 DEF Addr
  <1> HIDE DEF a
  <1>2. WriteAt(m, at, bytes)[a] = bytes[a - at + 1]
    BY <1>1, WriteInside DEF n
  <1> QED
    BY <1>1, <1>2 DEF a

(* Bytes are held as long as their addresses are left alone. *)
LEMMA HoldsKept ==
  ASSUME NEW m, NEW m2, NEW at \in Nat, NEW bytes \in Seq(Cells),
         Holds(m, at, bytes),
         \A a \in at..(at + Len(bytes) - 1) : m2[a] = m[a]
  PROVE  Holds(m2, at, bytes)
  <1> SUFFICES ASSUME NEW k \in 1..Len(bytes)
               PROVE  m2[at + k - 1] = bytes[k]
    BY DEF Holds
  <1> DEFINE n == Len(bytes)
  <1>0. n \in Nat /\ k \in 1..n
    OBVIOUS
  <1>1. m[at + k - 1] = bytes[k]
    BY DEF Holds
  <1>2. \A a \in at..(at + n - 1) : m2[a] = m[a]
    OBVIOUS
  <1> HIDE DEF n
  <1>3. at + k - 1 \in at..(at + n - 1)
    BY <1>0
  <1> QED
    BY <1>1, <1>2, <1>3

(* Where a field of a slot is. *)
LEMMA FieldAddr ==
  ASSUME NEW i \in Slots, NEW f \in Nat, NEW w \in Nat,
         f + w <= DataField + RoomLen(i) + U64,
         NEW a \in (AccountOffset[i] + f)..(AccountOffset[i] + f + w - 1)
  PROVE  a \in SlotRegion(i) /\ a \in Addr
  <1> DEFINE o == AccountOffset[i]
             e == AccountOffset[i + 1]
             r == RoomLen(i)
  <1>1. /\ o \in Nat /\ e \in Nat /\ r \in Nat
        /\ e = o + DataField + r + U64 /\ e <= InstructionOffset
    BY SlotFacts
  <1>2. /\ DataField \in Nat /\ U64 \in Nat /\ f + w <= DataField + r + U64
        /\ a \in (o + f)..(o + f + w - 1)
    BY Fields
  <1>3. BufferLen \in Nat /\ InstructionOffset \in Nat /\ InstructionOffset <= BufferLen
    BY TailFacts, Fields
  <1>4. SlotRegion(i) = o..(e - 1)
    BY DEF SlotRegion
  <1> HIDE DEF o, e, r
  <1>5. a \in Nat /\ o <= a /\ a < e
    BY <1>1, <1>2
  <1> QED
    BY <1>1, <1>3, <1>4, <1>5 DEF Addr

(* A field of a slot is held through a write beside it. *)
LEMMA FieldKept ==
  ASSUME NEW m \in [Addr -> Cells], NEW i \in Slots,
         NEW off \in Nat, NEW bytes \in Seq(Cells),
         NEW f \in Nat, NEW b \in Seq(Cells),
         f + Len(b) <= DataField + RoomLen(i) + U64,
         off + Len(bytes) <= f \/ f + Len(b) <= off,
         Holds(m, AccountOffset[i] + f, b)
  PROVE  Holds(WriteAt(m, AccountOffset[i] + off, bytes),
               AccountOffset[i] + f, b)
  <1> DEFINE o == AccountOffset[i]
             n == Len(bytes)
             w == Len(b)
             m2 == WriteAt(m, o + off, bytes)
  <1>1. /\ o \in Nat /\ n \in Nat /\ w \in Nat /\ o + f \in Nat /\ o + off \in Nat
        /\ (off + n <= f \/ f + w <= off)
    BY SlotFacts
  <1>2. \A a \in Addr : (a < o + off \/ o + off + n <= a) => m2[a] = m[a]
    BY <1>1, WriteAtFacts
  <1>3. ASSUME NEW a \in (o + f)..(o + f + w - 1)
        PROVE  m2[a] = m[a]
    <2>1. a \in Addr
      BY <1>1, FieldAddr
    <2> HIDE DEF o, n, w, m2
    <2>2. a < o + off \/ o + off + n <= a
      BY <1>1
    <2> QED
      BY <1>2, <2>1, <2>2
  <1> QED
    BY <1>1, <1>3, HoldsKept

(* The types of what a slot holds, and where. *)
LEMMA PartsTyped ==
  ASSUME NEW i \in Slots, NEW v \in Views
  PROVE  /\ <<Byte(Flag(v.executable))>> \in Seq(Cells)
         /\ Len(<<Byte(Flag(v.executable))>>) = 1
         /\ KeyBytes(v.owner) \in Seq(Cells) /\ Len(KeyBytes(v.owner)) = PUBKEY
         /\ IntBytes(v.lamports, U64) \in Seq(Cells)
         /\ Len(IntBytes(v.lamports, U64)) = U64
         /\ v.room \in Seq(Cells)
         /\ IntBytes(v.rent_epoch, U64) \in Seq(Cells)
         /\ Len(IntBytes(v.rent_epoch, U64)) = U64
         /\ ExecutableField \in Nat /\ ExecutableField + 1 <= OwnerField
         /\ DataField + RoomLen(i) \in Nat
         /\ AccountOffset[i] \in Nat
  <1>1. /\ v.owner \in Keys /\ v.lamports \in Nat /\ v.rent_epoch \in Nat
        /\ v.room \in Seq(Cells)
    BY DEF Views
  <1>2. Byte(Flag(v.executable)) \in Cells
    BY DEF Byte, Flag, Cells
  <1>3. ExecutableField \in Nat /\ ExecutableField + 1 <= OwnerField
    BY WidthsAssumption DEF ExecutableField, OwnerField, KeyField
  <1>4. DataField + RoomLen(i) \in Nat /\ AccountOffset[i] \in Nat
    BY SlotFacts, Fields
  <1> QED
    BY <1>1, <1>2, <1>3, <1>4, KeyBytesTyped, IntBytesTyped

(* write_account and write_empty_account leave an account's bytes. *)
LEMMA SlotParts ==
  ASSUME NEW i \in Slots, NEW acc \in AccountArgs,
         Len(acc.data) <= AccountSize[i], NEW m,
         Holds(m, AccountOffset[i], AccountBytes(i, acc))
  PROVE  Keeps(m, i, ViewOf(i, acc))
  <1> DEFINE o == AccountOffset[i]
             marks == <<Byte(255), Byte(Flag(acc.signer)),
                        Byte(Flag(acc.writable)), Byte(Flag(acc.executable))>>
             z1 == Zeros(U32)
             key == KeyBytes(acc.key)
             owner == KeyBytes(acc.owner)
             lp == IntBytes(acc.lamports, U64)
             sz == IntBytes(AccountSize[i], U64)
             data == acc.data
             pad == AccountSize[i] - Len(acc.data) + MAX_INCREASE
                      + AlignOffset(AccountSize[i])
             z2 == Zeros(pad)
             re == IntBytes(acc.rent_epoch, U64)
             h1 == marks \o z1
             h2 == h1 \o key
             h3 == h2 \o owner
             h4 == h3 \o lp
             h5 == h4 \o sz
             h6 == h5 \o data
             h7 == h6 \o z2
             h8 == h7 \o re
             room == data \o z2
  <1>0. /\ acc.key \in Keys /\ acc.owner \in Keys /\ acc.lamports \in Nat
        /\ acc.rent_epoch \in Nat /\ acc.data \in Seq(Cells)
        /\ AccountSize[i] \in Nat /\ Len(acc.data) \in Nat
        /\ o \in Nat /\ RoomLen(i) \in Nat
    BY SlotFacts DEF AccountArgs
  <1>1. Holds(m, o, h8)
    BY DEF AccountBytes, AccountHeader
  <1>2. /\ pad \in Nat /\ pad = RoomLen(i) - Len(acc.data)
        /\ Len(acc.data) + pad = RoomLen(i)
    <2>1. AlignOffset(AccountSize[i]) \in Nat /\ MAX_INCREASE \in Nat
      BY <1>0, AlignOffsetNat, Fields
    <2>2. RoomLen(i) = AccountSize[i] + AlignOffset(AccountSize[i]) + MAX_INCREASE
      BY DEF RoomLen, Rounded
    <2> DEFINE s == AccountSize[i]
               d == Len(acc.data)
               al == AlignOffset(AccountSize[i])
               r == RoomLen(i)
    <2>3. /\ s \in Nat /\ d \in Nat /\ d <= s /\ al \in Nat /\ MAX_INCREASE \in Nat
          /\ r = s + al + MAX_INCREASE /\ pad = s - d + MAX_INCREASE + al
      BY <1>0, <2>1, <2>2
    <2> HIDE DEF s, d, al, r, pad
    <2>4. pad \in Nat /\ pad = r - d /\ d + pad = r
      BY <2>3
    <2> QED
      BY <2>4 DEF r, d
  <1>3. ViewOf(i, acc) =
          [executable |-> acc.executable, owner |-> acc.owner,
           lamports |-> acc.lamports, room |-> room,
           len |-> AccountSize[i], rent_epoch |-> acc.rent_epoch]
    BY <1>2 DEF ViewOf
  <1>4. /\ marks \in Seq(Cells) /\ Len(marks) = 4
        /\ marks[4] = Byte(Flag(acc.executable))
    BY DEF Byte, Flag, Cells
  <1>5. /\ z1 \in Seq(Cells) /\ Len(z1) = U32
        /\ key \in Seq(Cells) /\ Len(key) = PUBKEY
        /\ owner \in Seq(Cells) /\ Len(owner) = PUBKEY
        /\ lp \in Seq(Cells) /\ Len(lp) = U64
        /\ sz \in Seq(Cells) /\ Len(sz) = U64
        /\ re \in Seq(Cells) /\ Len(re) = U64
        /\ data \in Seq(Cells) /\ Len(data) \in Nat
    BY <1>0, ZerosTyped, KeyBytesTyped, IntBytesTyped, Fields
  <1>6. z2 \in Seq(Cells) /\ Len(z2) = pad
    BY <1>2, ZerosTyped
  <1>7. data \o z2 = room /\ Len(data) + pad = RoomLen(i)
    BY <1>2
  <1> HIDE DEF marks, z1, key, owner, lp, sz, data, pad, z2, re
  <1>c. ASSUME NEW s \in Seq(Cells), NEW t \in Seq(Cells)
        PROVE  s \o t \in Seq(Cells) /\ Len(s \o t) = Len(s) + Len(t)
    BY Concat
  <1>8. h1 \in Seq(Cells) /\ Len(h1) = Len(marks) + Len(z1)
    BY <1>4, <1>5, <1>c
  <1>9. room \in Seq(Cells) /\ Len(room) = Len(data) + Len(z2)
    BY <1>5, <1>6, <1>c
  <1>h. ASSUME NEW s \in Seq(Cells), NEW t \in Seq(Cells), Holds(m, o, s \o t)
        PROVE  Holds(m, o, s) /\ Holds(m, o + Len(s), t)
    BY <1>0, <1>h, HoldsConcat
  <1> HIDE DEF h1
  <1>10. h2 \in Seq(Cells) /\ Len(h2) = Len(h1) + Len(key)
    BY <1>5, <1>8, <1>c
  <1> HIDE DEF h2
  <1>11. h3 \in Seq(Cells) /\ Len(h3) = Len(h2) + Len(owner)
    BY <1>5, <1>10, <1>c
  <1> HIDE DEF h3
  <1>12. h4 \in Seq(Cells) /\ Len(h4) = Len(h3) + Len(lp)
    BY <1>5, <1>11, <1>c
  <1> HIDE DEF h4
  <1>13. h5 \in Seq(Cells) /\ Len(h5) = Len(h4) + Len(sz)
    BY <1>5, <1>12, <1>c
  <1> HIDE DEF h5
  <1>14. h6 \in Seq(Cells) /\ Len(h6) = Len(h5) + Len(data)
    BY <1>5, <1>13, <1>c
  <1> HIDE DEF h6
  <1>15. h7 \in Seq(Cells) /\ Len(h7) = Len(h6) + Len(z2)
    BY <1>6, <1>14, <1>c
  <1> HIDE DEF h7, room
  <1>16. /\ Len(h2) = OwnerField /\ Len(h3) = LamportsField
         /\ Len(h5) = DataField /\ Len(h7) = DataField + RoomLen(i)
         /\ Len(room) = RoomLen(i)
    <2>1. Len(h2) = OwnerField
      BY <1>4, <1>5, <1>8, <1>10, Fields DEF OwnerField, KeyField
    <2>2. Len(h3) = LamportsField
      BY <1>5, <1>11, <2>1, Fields
    <2>3. Len(h5) = DataField
      BY <1>5, <1>12, <1>13, <2>2, Fields
    <2>4. Len(h7) = DataField + RoomLen(i)
      <3>1. Len(h7) = DataField + Len(data) + pad
        BY <1>6, <1>14, <1>15, <2>3
      <3>2. /\ DataField \in Nat /\ Len(data) \in Nat /\ pad \in Nat
            /\ Len(data) + pad = RoomLen(i)
        BY <1>2, <1>5, <1>7, Fields
      <3> QED
        BY <3>1, <3>2
    <2> QED
      BY <1>6, <1>7, <1>9, <2>1, <2>2, <2>3, <2>4
  <1>17. Holds(m, o, h7) /\ Holds(m, o + Len(h7), re)
    BY <1>1, <1>5, <1>15, <1>h
  <1>18. Holds(m, o, h6) /\ Holds(m, o + Len(h6), z2)
    BY <1>6, <1>14, <1>17, <1>h DEF h7
  <1>19. Holds(m, o, h5) /\ Holds(m, o + Len(h5), data)
    BY <1>5, <1>13, <1>18, <1>h DEF h6
  <1>20. Holds(m, o, h4)
    BY <1>5, <1>12, <1>19, <1>h DEF h5
  <1>21. Holds(m, o, h3) /\ Holds(m, o + Len(h3), lp)
    BY <1>5, <1>11, <1>20, <1>h DEF h4
  <1>22. Holds(m, o, h2) /\ Holds(m, o + Len(h2), owner)
    BY <1>5, <1>10, <1>21, <1>h DEF h3
  <1>23. Holds(m, o, marks)
    <2>1. Holds(m, o, h1)
      BY <1>5, <1>8, <1>22, <1>h DEF h2
    <2> QED
      BY <1>4, <1>5, <2>1, <1>h DEF h1
  <1>24. Holds(m, o + DataField, room)
    <2>1. /\ o + Len(h6) = o + DataField + Len(data)
          /\ o + DataField \in Nat
      <3>1. /\ o \in Nat /\ DataField \in Nat /\ Len(data) \in Nat
            /\ Len(h6) = DataField + Len(data)
        BY <1>0, <1>5, <1>14, <1>16, Fields
      <3> HIDE DEF o
      <3> QED
        BY <3>1
    <2>2. Holds(m, o + DataField, data) /\ Holds(m, o + DataField + Len(data), z2)
      BY <1>16, <1>18, <1>19, <2>1
    <2> QED
      BY <1>5, <1>6, <2>1, <2>2, HoldsConcat DEF room
  <1>25. Holds(m, o + ExecutableField, <<Byte(Flag(acc.executable))>>)
    <2>1. m[o + 4 - 1] = marks[4]
      BY <1>4, <1>23 DEF Holds
    <2>2. o + 4 - 1 = o + ExecutableField + 1 - 1
      BY <1>0 DEF ExecutableField
    <2> DEFINE x == Byte(Flag(acc.executable))
    <2>3. m[o + ExecutableField + 1 - 1] = x
      BY <1>4, <2>1, <2>2
    <2> HIDE DEF x, o
    <2>4. Len(<<x>>) = 1 /\ <<x>>[1] = x
      OBVIOUS
    <2>5. \A k \in 1..1 : m[o + ExecutableField + k - 1] = <<x>>[k]
      BY <2>3, <2>4
    <2> QED
      BY <2>4, <2>5 DEF Holds, x
  <1> QED
    BY <1>3, <1>16, <1>17, <1>21, <1>22, <1>24, <1>25
       DEF Keeps, owner, lp, re

(* A slot that no write touched keeps its account. *)
LEMMA KeepsElsewhere ==
  ASSUME NEW i \in Slots, NEW v \in Views, NEW m, NEW m2, Keeps(m, i, v),
         \A a \in SlotRegion(i) : m2[a] = m[a]
  PROVE  Keeps(m2, i, v)
  <1>1. ASSUME NEW f \in Nat, NEW b \in Seq(Cells),
               f + Len(b) <= DataField + RoomLen(i) + U64,
               Holds(m, AccountOffset[i] + f, b)
        PROVE  Holds(m2, AccountOffset[i] + f, b)
    <2>1. AccountOffset[i] + f \in Nat /\ Len(b) \in Nat
      BY SlotFacts
    <2>2. \A a \in (AccountOffset[i] + f)..(AccountOffset[i] + f + Len(b) - 1) :
            m2[a] = m[a]
      BY <1>1, <2>1, FieldAddr
    <2> QED
      BY <1>1, <2>1, <2>2, HoldsKept
  <1>2. /\ ExecutableField + 1 <= DataField + RoomLen(i) + U64
        /\ OwnerField + PUBKEY <= DataField + RoomLen(i) + U64
        /\ LamportsField + U64 <= DataField + RoomLen(i) + U64
        /\ DataField + RoomLen(i) <= DataField + RoomLen(i) + U64
        /\ DataField + RoomLen(i) + U64 <= DataField + RoomLen(i) + U64
    BY PartsTyped, Fields, SlotFacts
  <1> QED
    BY <1>1, <1>2, PartsTyped, Fields DEF Keeps

(* The fields of a slot follow one another. *)
LEMMA FieldOrder ==
  ASSUME NEW i \in Slots
  PROVE  /\ ExecutableField + 1 <= OwnerField
         /\ OwnerField + PUBKEY <= LamportsField
         /\ LamportsField + U64 <= DataLenField
         /\ DataLenField + U64 <= DataField
         /\ DataField + RoomLen(i) <= DataField + RoomLen(i) + U64
         /\ ExecutableField \in Nat /\ OwnerField \in Nat /\ LamportsField \in Nat
         /\ DataLenField \in Nat /\ DataField \in Nat /\ RoomLen(i) \in Nat
         /\ U64 \in Nat /\ PUBKEY \in Nat
  BY WidthsAssumption, Fields, SlotFacts
     DEF ExecutableField, OwnerField, KeyField

(* The fields beside a write in a slot are held. *)
LEMMA FieldsBeside ==
  ASSUME NEW m \in [Addr -> Cells], NEW i \in Slots, NEW v \in Views,
         Keeps(m, i, v), NEW off \in Nat, NEW bytes \in Seq(Cells), NEW m2,
         m2 = WriteAt(m, AccountOffset[i] + off, bytes)
  PROVE  /\ ExecutableField + 1 <= off =>
              Holds(m2, AccountOffset[i] + ExecutableField,
                    <<Byte(Flag(v.executable))>>)
         /\ (off + Len(bytes) <= OwnerField \/ OwnerField + PUBKEY <= off) =>
              Holds(m2, AccountOffset[i] + OwnerField, KeyBytes(v.owner))
         /\ (off + Len(bytes) <= LamportsField \/ LamportsField + U64 <= off) =>
              Holds(m2, AccountOffset[i] + LamportsField,
                    IntBytes(v.lamports, U64))
         /\ off + Len(bytes) <= DataField =>
              Holds(m2, AccountOffset[i] + DataField, v.room)
         /\ off + Len(bytes) <= DataField + RoomLen(i) =>
              Holds(m2, AccountOffset[i] + (DataField + RoomLen(i)),
                    IntBytes(v.rent_epoch, U64))
  <1> DEFINE beside(f, b) ==
        (off + Len(bytes) <= f \/ f + Len(b) <= off)
          => Holds(m2, AccountOffset[i] + f, b)
  <1>1. ASSUME NEW f \in Nat, NEW b \in Seq(Cells),
               f + Len(b) <= DataField + RoomLen(i) + U64,
               Holds(m, AccountOffset[i] + f, b)
        PROVE  beside(f, b)
    BY <1>1, FieldKept
  <1>2. /\ ExecutableField + 1 <= DataField + RoomLen(i) + U64
        /\ OwnerField + PUBKEY <= DataField + RoomLen(i) + U64
        /\ LamportsField + U64 <= DataField + RoomLen(i) + U64
        /\ DataField + RoomLen(i) <= DataField + RoomLen(i) + U64
        /\ DataField + RoomLen(i) + U64 <= DataField + RoomLen(i) + U64
    BY FieldOrder
  <1> HIDE DEF beside
  <1>3. /\ beside(ExecutableField, <<Byte(Flag(v.executable))>>)
        /\ beside(OwnerField, KeyBytes(v.owner))
        /\ beside(LamportsField, IntBytes(v.lamports, U64))
        /\ beside(DataField, v.room)
        /\ beside(DataField + RoomLen(i), IntBytes(v.rent_epoch, U64))
    BY <1>1, <1>2, PartsTyped, Fields DEF Keeps
  <1> QED
    BY <1>3, PartsTyped DEF beside

(* A store of lamports changes the account's lamports. *)
LEMMA LamportsStored ==
  ASSUME NEW m \in [Addr -> Cells], NEW i \in Slots, NEW v \in Views,
         Keeps(m, i, v), NEW n \in Nat
  PROVE  Keeps(WriteAt(m, AccountOffset[i] + LamportsField, IntBytes(n, U64)),
               i, [v EXCEPT !.lamports = n])
  <1> DEFINE bytes == IntBytes(n, U64)
             m2 == WriteAt(m, AccountOffset[i] + LamportsField, bytes)
             v2 == [v EXCEPT !.lamports = n]
  <1>1. bytes \in Seq(Cells) /\ Len(bytes) = U64
    BY IntBytesTyped
  <1>2. /\ v2.executable = v.executable /\ v2.owner = v.owner
        /\ v2.lamports = n /\ v2.room = v.room /\ v2.rent_epoch = v.rent_epoch
    BY DEF Views
  <1>3. Holds(m2, AccountOffset[i] + LamportsField, bytes)
    <2>1. /\ AccountOffset[i] + LamportsField \in Nat
          /\ AccountOffset[i] + LamportsField + U64 <= BufferLen
      BY FieldOrder, SlotFacts, TailFacts
    <2> QED
      BY <1>1, <2>1, HoldsWritten
  <1> HIDE DEF bytes, v2
  <1>4. /\ Holds(m2, AccountOffset[i] + ExecutableField, <<Byte(Flag(v.executable))>>)
        /\ Holds(m2, AccountOffset[i] + OwnerField, KeyBytes(v.owner))
        /\ Holds(m2, AccountOffset[i] + DataField, v.room)
        /\ Holds(m2, AccountOffset[i] + (DataField + RoomLen(i)),
           IntBytes(v.rent_epoch, U64))
    <2>1. /\ LamportsField \in Nat /\ ExecutableField + 1 <= LamportsField
          /\ OwnerField + PUBKEY <= LamportsField
          /\ LamportsField + Len(bytes) <= DataField
          /\ LamportsField + Len(bytes) <= DataField + RoomLen(i)
      BY <1>1, FieldOrder
    <2> QED
      BY <1>1, <2>1, FieldsBeside
  <1> HIDE DEF m2
  <1>5. Keeps(m2, i, v2)
    BY <1>2, <1>3, <1>4 DEF Keeps, bytes
  <1> QED
    BY <1>5 DEF m2, v2, bytes

(* A store of an owner changes the account's owner. *)
LEMMA OwnerStored ==
  ASSUME NEW m \in [Addr -> Cells], NEW i \in Slots, NEW v \in Views,
         Keeps(m, i, v), NEW p \in Keys
  PROVE  Keeps(WriteAt(m, AccountOffset[i] + OwnerField, KeyBytes(p)),
               i, [v EXCEPT !.owner = p])
  <1> DEFINE bytes == KeyBytes(p)
             m2 == WriteAt(m, AccountOffset[i] + OwnerField, bytes)
             v2 == [v EXCEPT !.owner = p]
  <1>1. bytes \in Seq(Cells) /\ Len(bytes) = PUBKEY
    BY KeyBytesTyped
  <1>2. /\ v2.executable = v.executable /\ v2.owner = p
        /\ v2.lamports = v.lamports /\ v2.room = v.room
        /\ v2.rent_epoch = v.rent_epoch
    BY DEF Views
  <1>3. Holds(m2, AccountOffset[i] + OwnerField, bytes)
    <2>1. /\ AccountOffset[i] + OwnerField \in Nat
          /\ AccountOffset[i] + OwnerField + PUBKEY <= BufferLen
      BY FieldOrder, SlotFacts, TailFacts
    <2> QED
      BY <1>1, <2>1, HoldsWritten
  <1> HIDE DEF bytes, v2
  <1>4. /\ Holds(m2, AccountOffset[i] + ExecutableField, <<Byte(Flag(v.executable))>>)
        /\ Holds(m2, AccountOffset[i] + LamportsField, IntBytes(v.lamports, U64))
        /\ Holds(m2, AccountOffset[i] + DataField, v.room)
        /\ Holds(m2, AccountOffset[i] + (DataField + RoomLen(i)),
           IntBytes(v.rent_epoch, U64))
    <2>1. /\ OwnerField \in Nat /\ ExecutableField + 1 <= OwnerField
          /\ OwnerField + Len(bytes) <= LamportsField
          /\ OwnerField + Len(bytes) <= DataField
          /\ OwnerField + Len(bytes) <= DataField + RoomLen(i)
      BY <1>1, FieldOrder
    <2> QED
      BY <1>1, <2>1, FieldsBeside
  <1> HIDE DEF m2
  <1>5. Keeps(m2, i, v2)
    BY <1>2, <1>3, <1>4 DEF Keeps, bytes
  <1> QED
    BY <1>5 DEF m2, v2, bytes

(* A resize changes the length field, which is none of the others. *)
LEMMA LenStored ==
  ASSUME NEW m \in [Addr -> Cells], NEW i \in Slots, NEW v \in Views,
         Keeps(m, i, v), NEW n \in Nat
  PROVE  Keeps(WriteAt(m, AccountOffset[i] + DataLenField, IntBytes(n, U64)),
               i, [v EXCEPT !.len = n])
  <1> DEFINE bytes == IntBytes(n, U64)
             m2 == WriteAt(m, AccountOffset[i] + DataLenField, bytes)
             v2 == [v EXCEPT !.len = n]
  <1>1. bytes \in Seq(Cells) /\ Len(bytes) = U64
    BY IntBytesTyped
  <1>2. /\ v2.executable = v.executable /\ v2.owner = v.owner
        /\ v2.lamports = v.lamports /\ v2.room = v.room
        /\ v2.rent_epoch = v.rent_epoch
    BY DEF Views
  <1> HIDE DEF bytes, v2
  <1>4. /\ Holds(m2, AccountOffset[i] + ExecutableField, <<Byte(Flag(v.executable))>>)
        /\ Holds(m2, AccountOffset[i] + OwnerField, KeyBytes(v.owner))
        /\ Holds(m2, AccountOffset[i] + LamportsField, IntBytes(v.lamports, U64))
        /\ Holds(m2, AccountOffset[i] + DataField, v.room)
        /\ Holds(m2, AccountOffset[i] + (DataField + RoomLen(i)),
           IntBytes(v.rent_epoch, U64))
    <2>1. /\ DataLenField \in Nat /\ ExecutableField + 1 <= DataLenField
          /\ OwnerField + PUBKEY <= DataLenField
          /\ LamportsField + U64 <= DataLenField
          /\ DataLenField + Len(bytes) <= DataField
          /\ DataLenField + Len(bytes) <= DataField + RoomLen(i)
      BY <1>1, FieldOrder
    <2> QED
      BY <1>1, <2>1, FieldsBeside
  <1> HIDE DEF m2
  <1>5. Keeps(m2, i, v2)
    BY <1>2, <1>4 DEF Keeps
  <1> QED
    BY <1>5 DEF m2, v2, bytes

(* A store of a byte of data changes that byte of the account. *)
LEMMA DataStored ==
  ASSUME NEW m \in [Addr -> Cells], NEW i \in Slots, NEW v \in Views,
         Keeps(m, i, v), NEW k \in 1..RoomLen(i), NEW x \in Cells
  PROVE  Keeps(WriteAt(m, AccountOffset[i] + (DataField + k - 1), <<x>>),
               i, [v EXCEPT !.room[k] = x])
  <1> DEFINE o == AccountOffset[i]
             off == DataField + k - 1
             m2 == WriteAt(m, o + off, <<x>>)
             v2 == [v EXCEPT !.room[k] = x]
             r == RoomLen(i)
             room2 == [v.room EXCEPT ![k] = x]
  <1>1. <<x>> \in Seq(Cells) /\ Len(<<x>>) = 1
    OBVIOUS
  <1>2. /\ v2.executable = v.executable /\ v2.owner = v.owner
        /\ v2.lamports = v.lamports /\ v2.room = room2
        /\ v2.rent_epoch = v.rent_epoch
    BY DEF Views
  <1>3. /\ o \in Nat /\ r \in Nat /\ DataField \in Nat /\ U64 \in Nat
        /\ k \in 1..r /\ off \in Nat /\ o + off \in Nat
        /\ off + 1 <= DataField + r /\ DataField <= off
    BY SlotFacts, Fields
  <1>4. /\ v.room \in Seq(Cells) /\ Len(v.room) = r
        /\ \A j \in 1..r : m[o + DataField + j - 1] = v.room[j]
    BY DEF Views, Keeps, Holds
  <1>5. /\ room2 \in Seq(Cells) /\ Len(room2) = r
        /\ \A j \in 1..r : room2[j] = IF j = k THEN x ELSE v.room[j]
    <2> DEFINE s == v.room
    <2>1. s \in Seq(Cells) /\ Len(s) = r /\ k \in 1..Len(s)
      BY <1>3, <1>4
    <2> HIDE DEF s
    <2>2. [s EXCEPT ![k] = x] \in Seq(Cells) /\ Len([s EXCEPT ![k] = x]) = Len(s)
      BY <2>1
    <2>3. \A j \in 1..Len(s) :
            [s EXCEPT ![k] = x][j] = IF j = k THEN x ELSE s[j]
      BY <2>1
    <2> QED
      BY <2>1, <2>2, <2>3 DEF s
  <1>6. Holds(m2, o + DataField, room2)
    <2>1. /\ \A a \in Addr : a < o + off \/ o + off + 1 <= a => m2[a] = m[a]
          /\ \A a \in Addr : (o + off <= a /\ a < o + off + 1)
               => m2[a] = <<x>>[a - (o + off) + 1]
      <3> DEFINE at == o + off
                 one == <<x>>
      <3>1. at \in Nat /\ one \in Seq(Cells) /\ Len(one) = 1
        BY <1>1, <1>3
      <3> HIDE DEF at, one
      <3>2. /\ \A a \in Addr : a < at \/ at + Len(one) <= a
                 => WriteAt(m, at, one)[a] = m[a]
            /\ \A a \in Addr : (at <= a /\ a < at + Len(one))
                 => WriteAt(m, at, one)[a] = one[a - at + 1]
        BY <3>1, WriteAtFacts
      <3> QED
        BY <3>1, <3>2 DEF at, one
    <2> HIDE DEF m2, room2, v2
    <2>2. ASSUME NEW j \in 1..r
          PROVE  m2[o + DataField + j - 1] = room2[j]
      <3> DEFINE a == o + DataField + j - 1
      <3>1. a \in Addr
        <4>1. a \in (o + DataField)..(o + DataField + r - 1)
          BY <1>3
        <4>2. DataField + r <= DataField + r + U64
          BY <1>3
        <4> HIDE DEF a
        <4> QED
          BY <1>3, <4>1, <4>2, FieldAddr
      <3>2. CASE j = k
        <4>1. a = o + off /\ a - (o + off) + 1 = 1 /\ a < o + off + 1
          BY <1>3, <3>2
        <4> HIDE DEF a, off, o
        <4>2. m2[a] = <<x>>[1]
          BY <2>1, <3>1, <4>1
        <4> QED
          BY <1>5, <3>2, <4>2 DEF a
      <3>3. CASE j /= k
        <4>1. a < o + off \/ o + off + 1 <= a
          BY <1>3, <3>3
        <4> HIDE DEF a, off
        <4>2. m2[a] = m[a]
          BY <2>1, <3>1, <4>1
        <4> QED
          BY <1>4, <1>5, <3>3, <4>2 DEF a
      <3> QED
        BY <3>2, <3>3
    <2> QED
      BY <1>5, <2>2 DEF Holds
  <1> HIDE DEF v2, room2
  <1>7. /\ Holds(m2, AccountOffset[i] + ExecutableField,
                 <<Byte(Flag(v.executable))>>)
        /\ Holds(m2, AccountOffset[i] + OwnerField, KeyBytes(v.owner))
        /\ Holds(m2, AccountOffset[i] + LamportsField, IntBytes(v.lamports, U64))
        /\ Holds(m2, AccountOffset[i] + (DataField + RoomLen(i)),
                 IntBytes(v.rent_epoch, U64))
    <2>1. /\ ExecutableField + 1 <= off
          /\ OwnerField + PUBKEY <= off
          /\ LamportsField + U64 <= off
          /\ off + Len(<<x>>) <= DataField + RoomLen(i)
      <3> HIDE DEF off
      <3> QED
        BY <1>1, <1>3, FieldOrder
    <2> HIDE DEF off
    <2> QED
      BY <1>1, <1>3, <2>1, FieldsBeside
  <1> HIDE DEF m2, o, r, off
  <1>8. Keeps(m2, i, v2)
    BY <1>2, <1>5, <1>6, <1>7 DEF Keeps, o, r
  <1> QED
    BY <1>8 DEF m2, v2, o, off

(* Every store of a program does to the slot what it does to the account. *)
LEMMA AccountStoreKeeps ==
  ASSUME IInv, ~misaligned, NEW i \in Slots, Keeps(mem, i, view[i]),
         AccountStore(i)
  PROVE  Keeps(mem', i, view'[i])
  <1>0. /\ TypeOK /\ LenField(i) /\ view \in [Slots -> Views] /\ pc = "running"
        /\ parsed[i].at = AccountOffset[i]
        /\ AccountOffset[i] \in Nat /\ RoomLen(i) \in Nat
    BY AccountStoreStep, Entered
  <1>1. mem \in [Addr -> Cells] /\ view[i] \in Views
    BY <1>0 DEF TypeOK
  <1>2. ASSUME NEW at \in Nat, NEW bytes \in Seq(Cells),
               NEW v \in [Slots -> Views], Store(at, bytes, v),
               Keeps(WriteAt(mem, at, bytes), i, v[i])
        PROVE  Keeps(mem', i, view'[i])
    <2>1. \/ mem' = mem /\ view' = view
          \/ mem' = WriteAt(mem, at, bytes) /\ view' = v
      BY <1>0, <1>2, StoreFacts
    <2> QED
      BY <1>2, <2>1
  <1>3. ASSUME NEW n \in StoredLamports, StoreLamports(i, n)
        PROVE  Keeps(mem', i, view'[i])
    <2> DEFINE v == [view EXCEPT ![i].lamports = n]
               at == AccountOffset[i] + LamportsField
    <2>1. n \in Nat /\ at \in Nat
      <3>1. n \in Nat
        BY BoundsAssumption
      <3> QED
        BY <1>0, <3>1, Fields
    <2>2. v \in [Slots -> Views] /\ v[i] = [view[i] EXCEPT !.lamports = n]
      BY <1>0, <2>1, ViewStores
    <2>3. Store(at, IntBytes(n, U64), v)
      BY <1>0, <1>3 DEF StoreLamports
    <2>4. Keeps(WriteAt(mem, at, IntBytes(n, U64)), i, v[i])
      BY <1>1, <2>1, <2>2, LamportsStored
    <2>5. IntBytes(n, U64) \in Seq(Cells)
      BY <2>1, IntBytesTyped
    <2> HIDE DEF v, at
    <2> QED
      BY <1>2, <2>1, <2>2, <2>3, <2>4, <2>5
  <1>4. ASSUME NEW p \in Pubkeys, StoreOwner(i, p)
        PROVE  Keeps(mem', i, view'[i])
    <2> DEFINE v == [view EXCEPT ![i].owner = p]
               at == AccountOffset[i] + OwnerField
    <2>1. p \in Keys /\ at \in Nat
      BY <1>0, Fields DEF Keys
    <2>2. v \in [Slots -> Views] /\ v[i] = [view[i] EXCEPT !.owner = p]
      BY <1>0, <2>1, ViewStores
    <2>3. Store(at, KeyBytes(p), v)
      BY <1>0, <1>4 DEF StoreOwner
    <2>4. Keeps(WriteAt(mem, at, KeyBytes(p)), i, v[i])
      BY <1>1, <2>1, <2>2, OwnerStored
    <2>5. KeyBytes(p) \in Seq(Cells)
      BY <2>1, KeyBytesTyped
    <2> HIDE DEF v, at
    <2> QED
      BY <1>2, <2>1, <2>2, <2>3, <2>4, <2>5
  <1>5. ASSUME NEW k \in DOMAIN view[i].room, StoreData(i, k)
        PROVE  Keeps(mem', i, view'[i])
    <2> DEFINE x == Byte(StoredDatum)
               v == [view EXCEPT ![i].room[k] = x]
               at == AccountOffset[i] + (DataField + k - 1)
    <2>1. x \in Cells
      BY BoundsAssumption DEF Byte, Cells
    <2>2. k \in 1..RoomLen(i)
      <3>1. view[i].room \in Seq(Cells) /\ Len(view[i].room) = RoomLen(i)
        BY <1>1 DEF Views, Keeps
      <3> QED
        BY <3>1
    <2>3. at \in Nat /\ AccountOffset[i] + DataField + k - 1 = at
      BY <1>0, <2>2, Fields
    <2> HIDE DEF x
    <2>4. v \in [Slots -> Views] /\ v[i] = [view[i] EXCEPT !.room[k] = x]
      BY <1>0, <2>1, ViewStores
    <2>5. Store(at, <<x>>, v)
      BY <1>0, <1>5, <2>3 DEF StoreData, x
    <2>6. Keeps(WriteAt(mem, at, <<x>>), i, v[i])
      BY <1>1, <2>1, <2>2, <2>4, DataStored
    <2>7. <<x>> \in Seq(Cells)
      BY <2>1
    <2> HIDE DEF v, at
    <2> QED
      BY <1>2, <2>3, <2>4, <2>5, <2>6, <2>7
  <1>6. ASSUME NEW n \in 0..RoomLen(i), Realloc(i, n)
        PROVE  Keeps(mem', i, view'[i])
    <2> DEFINE v == [view EXCEPT ![i].len = n]
               at == AccountOffset[i] + DataLenField
    <2>1. n \in Nat /\ at \in Nat
      BY <1>0, Fields
    <2>2. v \in [Slots -> Views] /\ v[i] = [view[i] EXCEPT !.len = n]
      BY <1>0, <2>1, ViewStores
    <2>3. Store(at, IntBytes(n, U64), v)
      BY <1>0, <1>6 DEF Realloc
    <2>4. Keeps(WriteAt(mem, at, IntBytes(n, U64)), i, v[i])
      BY <1>1, <2>1, <2>2, LenStored
    <2>5. IntBytes(n, U64) \in Seq(Cells)
      BY <2>1, IntBytesTyped
    <2> HIDE DEF v, at
    <2> QED
      BY <1>2, <2>1, <2>2, <2>3, <2>4, <2>5
  <1> QED
    BY <1>3, <1>4, <1>5, <1>6 DEF AccountStore

(* update_account leaves the account it was given, or the old one. *)
LEMMA UpdateAccountKeeps ==
  ASSUME TypeOK, NEW i \in Slots, NEW acc \in AccountInputs,
         UpdateAccount(i, acc), Keeps(mem, i, view[i])
  PROVE  Keeps(mem', i, view'[i])
  <1>1. /\ acc \in AccountArgs /\ Len(acc.data) \in Nat
        /\ mem \in [Addr -> Cells] /\ view \in [Slots -> Views]
    BY BoundsAssumption DEF AccountArgs, TypeOK, Views
  <1>2. AccountSize[i] \in Nat /\ AccountOffset[i] \in Nat
    BY SlotFacts
  <1>3. CASE Len(acc.data) > AccountSize[i]
    BY <1>3 DEF UpdateAccount
  <1>4. CASE Len(acc.data) <= AccountSize[i]
    <2> DEFINE bytes == AccountBytes(i, acc)
    <2>1. /\ mem' = WriteAt(mem, AccountOffset[i], bytes)
          /\ view' = [view EXCEPT ![i] = ViewOf(i, acc)]
      BY <1>1, <1>2, <1>4 DEF UpdateAccount
    <2>2. /\ bytes \in Seq(Cells)
          /\ Len(bytes) = AccountOffset[i + 1] - AccountOffset[i]
      BY <1>1, <1>4, AccountBytesFacts
    <2>3. AccountOffset[i] + Len(bytes) <= BufferLen
      <3>1. /\ AccountOffset[i + 1] \in Nat
            /\ AccountOffset[i + 1] <= InstructionOffset
            /\ InstructionOffset \in Nat /\ BufferLen \in Nat
            /\ InstructionOffset <= BufferLen
        BY SlotFacts, TailFacts, Fields
      <3> HIDE DEF bytes
      <3> QED
        BY <1>2, <2>2, <3>1
    <2>4. Holds(mem', AccountOffset[i], bytes)
      BY <1>1, <1>2, <2>1, <2>2, <2>3, HoldsWritten
    <2>5. Keeps(mem', i, ViewOf(i, acc))
      BY <1>1, <1>4, <2>4, SlotParts
    <2> QED
      BY <1>1, <2>1, <2>5
  <1> QED
    BY <1>1, <1>2, <1>3, <1>4

(* The buffer `new' leaves holds empty accounts. *)
LEMMA InitAccounts == Init => Accounts
  <1> SUFFICES ASSUME Init, NEW i \in Slots
               PROVE  Keeps(mem, i, view[i])
    BY DEF Accounts
  <1> DEFINE bytes == AccountBytes(i, EmptyAccount)
             o == AccountOffset[i]
             e == AccountOffset[i + 1]
  <1>1. /\ EmptyAccount \in AccountArgs
        /\ Len(EmptyAccount.data) <= AccountSize[i]
    BY EmptyAccountTyped, SlotFacts
  <1>2. bytes \in Seq(Cells) /\ Len(bytes) = e - o
    BY <1>1, AccountBytesFacts
  <1>3. \A a \in o..(e - 1) : mem[a] = bytes[a - o + 1]
    BY EmptyBufferFacts DEF Init, SlotRegion
  <1>4. o \in Nat /\ e \in Nat
    BY SlotFacts
  <1>5. Holds(mem, o, bytes)
    <2> HIDE DEF bytes, o, e
    <2>1. ASSUME NEW k \in 1..(e - o)
          PROVE  mem[o + k - 1] = bytes[k]
      <3>1. o + k - 1 \in o..(e - 1) /\ (o + k - 1) - o + 1 = k
        BY <1>4
      <3> QED
        BY <1>3, <3>1
    <2> QED
      BY <1>2, <2>1 DEF Holds
  <1>6. view[i] = ViewOf(i, EmptyAccount)
    BY DEF Init
  <1> QED
    BY <1>1, <1>5, <1>6, SlotParts

(* Every step keeps every slot's account. *)
LEMMA NextAccounts ==
  IInv /\ Accounts /\ [Next]_vars => Accounts'
  <1> SUFFICES ASSUME IInv, Accounts, [Next]_vars, ~misaligned',
                      NEW j \in Slots
               PROVE  Keeps(mem', j, view'[j])
    BY DEF Accounts
  <1>0. misaligned => misaligned'
    <2>1. ASSUME NEW i \in Slots, AccountStore(i) PROVE misaligned' = misaligned
      BY <2>1 DEF AccountStore, StoreLamports, StoreOwner, StoreData, Realloc,
                  ProgramLeaves
    <2> QED
      BY <2>1, Steps, OtherStepKeeps
         DEF Execute, UpdateProgram, UpdateInstruction, UpdateAccount,
             ParseAccount, history, vars
  <1>1. /\ TypeOK /\ Intact /\ ~misaligned /\ Keeps(mem, j, view[j])
        /\ view[j] \in Views
    <2>1. TypeOK /\ Intact /\ ~misaligned
      BY <1>0 DEF IInv
    <2> QED
      BY <1>0, <2>1 DEF Accounts, TypeOK, Views
  <1>2. ASSUME \A a \in Addr : a < InstructionOffset => mem'[a] = mem[a],
               view' = view
        PROVE  Keeps(mem', j, view'[j])
    <2>1. ASSUME NEW a \in SlotRegion(j)
          PROVE  mem'[a] = mem[a]
      <3>1. a \in Addr
        BY EmptyBufferFacts
      <3>2. a \in Nat /\ ~(InstructionOffset <= a) /\ InstructionOffset \in Nat
        BY <3>1, SlotBelowTail, TailFacts DEF Addr
      <3> QED
        BY <1>2, <3>1, <3>2
    <2> QED
      BY <1>1, <1>2, <2>1, KeepsElsewhere
  <1>3. ASSUME NEW i \in Slots, SlotStep(i), i /= j
        PROVE  Keeps(mem', j, view'[j])
    <2>1. ASSUME NEW a \in SlotRegion(j)
          PROVE  mem'[a] = mem[a]
      <3>1. a \in Addr
        BY EmptyBufferFacts
      <3> QED
        BY <1>3, <3>1, RegionsDisjoint DEF SlotStep, ConfinedTo
    <2>2. view'[j] = view[j]
      BY <1>3 DEF SlotStep
    <2> QED
      BY <1>1, <2>1, <2>2, KeepsElsewhere
  <1>4. ASSUME NEW i \in Slots, NEW acc \in AccountInputs, UpdateAccount(i, acc)
        PROVE  Keeps(mem', j, view'[j])
    <2>1. CASE i = j
      BY <1>1, <1>4, <2>1, UpdateAccountKeeps
    <2>2. CASE i /= j
      BY <1>1, <1>3, <1>4, <2>2, UpdateAccountStep
    <2> QED
      BY <2>1, <2>2
  <1>5. ASSUME NEW i \in Slots, AccountStore(i)
        PROVE  Keeps(mem', j, view'[j])
    <2>1. CASE i = j
      BY <1>1, <1>5, <2>1, AccountStoreKeeps
    <2>2. CASE i /= j
      BY <1>1, <1>3, <1>5, <2>2, AccountStoreStep
    <2> QED
      BY <2>1, <2>2
  <1>6. ASSUME NEW pid \in ProgramIds, NEW elf \in Elfs \union {BadElf},
               UpdateProgram(pid, elf)
        PROVE  Keeps(mem', j, view'[j])
    <2>1. \A a \in Addr : a < ProgramIdOffset => mem'[a] = mem[a]
      BY <1>1, <1>6, UpdateProgramStep
    <2>2. \A a \in Addr : a < InstructionOffset => a < ProgramIdOffset
      BY TailFacts, Fields DEF Addr
    <2>3. view' = view
      BY <1>6 DEF UpdateProgram, history
    <2> QED
      BY <1>2, <2>1, <2>2, <2>3
  <1>7. ASSUME NEW instruction \in InstructionInputs,
               UpdateInstruction(instruction)
        PROVE  Keeps(mem', j, view'[j])
    <2>1. \A a \in Addr : a < InstructionOffset => mem'[a] = mem[a]
      BY <1>1, <1>7, UpdateInstructionStep
    <2>2. view' = view
      BY <1>7 DEF UpdateInstruction
    <2> QED
      BY <1>2, <2>1, <2>2
  <1>8. Execute \/ ParseAccount \/ OtherStep \/ UNCHANGED vars
          => mem' = mem /\ view' = view
    BY OtherStepKeeps DEF Execute, ParseAccount, vars, history
  <1> QED
    BY <1>1, <1>4, <1>5, <1>6, <1>7, <1>8, Steps

(* The executor reads back an integer it wrote. *)
LEMMA IntRead ==
  ASSUME NEW m, NEW at \in Nat, NEW n \in Nat, Holds(m, at, IntBytes(n, U64))
  PROVE  ReadInt(m, at) = n
  <1>1. \A k \in 1..U64 : m[at + k - 1] = IntBytes(n, U64)[k]
    BY IntBytesTyped DEF Holds
  <1>2. m[at] = <<n, 0>>
    <2>1. 1 \in 1..U64 /\ at + 1 - 1 = at
      BY Fields
    <2> QED
      BY <1>1, <2>1, IntBytesTyped DEF Byte
  <1>3. ASSUME NEW k \in 1..(U64 - 1)
        PROVE  m[at + k] = Zero
    <2>1. k + 1 \in 1..U64 /\ k + 1 \in 2..U64 /\ at + (k + 1) - 1 = at + k
      BY Fields
    <2> QED
      BY <1>1, <2>1, IntBytesTyped
  <1> QED
    BY <1>2, <1>3 DEF ReadInt

(* The bytes of two pubkeys differ. *)
LEMMA KeysDiffer ==
  ASSUME NEW p \in Keys, NEW q \in Keys, KeyBytes(p) = KeyBytes(q)
  PROVE  p = q
  <1>1. 1 \in 1..PUBKEY
    BY Fields
  <1>2. KeyBytes(p)[1] = KeyBytes(q)[1]
    OBVIOUS
  <1>3. /\ KeyBytes(p)[1] = IF p = 0 THEN Zero ELSE <<p, 1>>
        /\ KeyBytes(q)[1] = IF q = 0 THEN Zero ELSE <<q, 1>>
    BY <1>1 DEF KeyBytes
  <1> QED
    BY <1>2, <1>3 DEF Zero

(* The executor reads back a pubkey it wrote. *)
LEMMA KeyRead ==
  ASSUME NEW m, NEW at \in Nat, NEW p \in Keys, Holds(m, at, KeyBytes(p))
  PROVE  ReadKey(m, at) = p
  <1>1. Slice(m, at, PUBKEY) = KeyBytes(p)
    <2>1. \A k \in 1..PUBKEY : m[at + k - 1] = KeyBytes(p)[k]
      BY KeyBytesTyped DEF Holds
    <2> QED
      BY <2>1 DEF Slice, KeyBytes
  <1> DEFINE keys == {q \in Keys : Slice(m, at, PUBKEY) = KeyBytes(q)}
  <1>2. p \in keys /\ \A q \in keys : q = p
    BY <1>1, KeysDiffer
  <1>3. ReadKey(m, at) = IF keys = {} THEN -1 ELSE CHOOSE q \in keys : TRUE
    BY DEF ReadKey, Keys
  <1> HIDE DEF keys
  <1>4. keys /= {} /\ (CHOOSE q \in keys : TRUE) \in keys
    BY <1>2
  <1> QED
    BY <1>2, <1>3, <1>4

(* get_account returns the account as the caller last gave it to           *)
(* update_account and the programs changed it since, for every number and  *)
(* size of accounts, every input and every program, unless it was resized  *)
(* across an alignment boundary.                                           *)
THEOREM ExecutorAccountView == Spec => []AccountView
  <1>1. ASSUME IInv, Accounts
        PROVE  AccountView
    <2> SUFFICES ASSUME ~misaligned, NEW i \in Slots, InPlace(i)
                 PROVE  GetAccount(mem, i) = Expected(i)
      BY DEF AccountView
    <2> DEFINE o == AccountOffset[i]
               v == view[i]
               rent == o + DataField + v.len + AlignOffset(v.len) + MAX_INCREASE
    <2>1. /\ Keeps(mem, i, v) /\ TypeOK /\ LenField(i) /\ v \in Views
      BY <1>1 DEF IInv, Accounts, Intact, LenFields, TypeOK, Views
    <2>2. /\ v.executable \in BOOLEAN /\ v.owner \in Keys /\ v.lamports \in Nat
          /\ v.room \in Seq(Cells) /\ v.len \in Nat /\ v.rent_epoch \in Nat
      BY <2>1 DEF Views
    <2>3. /\ o \in Nat /\ RoomLen(i) \in Nat /\ BufferLen \in Nat
          /\ RoomLen(i) = Rounded(AccountSize[i]) + MAX_INCREASE
          /\ o + DataField + RoomLen(i) + U64 <= BufferLen
      BY SlotFacts, TailFacts, Fields
    <2>4. ReadInt(mem, o + DataLenField) = v.len
      <3>1. /\ mem[o + DataLenField] = <<v.len, 0>>
            /\ \A k \in 1..(U64 - 1) : mem[o + DataLenField + k] = Zero
        BY <2>1 DEF LenField, Byte
      <3> QED
        BY <3>1 DEF ReadInt
    <2>5. /\ rent = o + (DataField + RoomLen(i)) /\ rent \in Nat
          /\ ~(v.len < 0 \/ rent + U64 > BufferLen)
      <3>1. v.len + AlignOffset(v.len) = Rounded(AccountSize[i])
        BY DEF InPlace, Rounded
      <3>2. AlignOffset(v.len) \in Nat
        BY <2>2, AlignOffsetNat
      <3> DEFINE al == AlignOffset(v.len)
                 n == v.len
                 r == RoomLen(i)
      <3>3. /\ n \in Nat /\ al \in Nat /\ r \in Nat /\ o \in Nat
            /\ DataField \in Nat /\ MAX_INCREASE \in Nat /\ U64 \in Nat
            /\ r = n + al + MAX_INCREASE /\ BufferLen \in Nat
            /\ o + DataField + r + U64 <= BufferLen
            /\ rent = o + DataField + n + al + MAX_INCREASE
        BY <2>2, <2>3, <3>1, <3>2, Fields
      <3> HIDE DEF o, v, n, al, r, rent
      <3>4. rent = o + (DataField + r) /\ rent \in Nat
            /\ ~(n < 0 \/ rent + U64 > BufferLen)
        BY <3>3
      <3> QED
        BY <3>4 DEF r, n
    <2>6. GetAccount(mem, i) =
            [executable |-> mem[o + ExecutableField] = Byte(1),
             owner      |-> ReadKey(mem, o + OwnerField),
             lamports   |-> ReadInt(mem, o + LamportsField),
             data       |-> Slice(mem, o + DataField, v.len),
             rent_epoch |-> ReadInt(mem, rent)]
      <3> HIDE DEF v
      <3> QED
        BY <2>4, <2>5 DEF GetAccount
    <2> HIDE DEF o, v, rent
    <2>7. (mem[o + ExecutableField] = Byte(1)) = v.executable
      <3>1. Holds(mem, o + ExecutableField, <<Byte(Flag(v.executable))>>)
        BY <2>1 DEF Keeps, o
      <3>2. mem[o + ExecutableField + 1 - 1] = Byte(Flag(v.executable))
        BY <3>1 DEF Holds
      <3>3. mem[o + ExecutableField] = <<Flag(v.executable), 0>>
        <4>1. o + ExecutableField + 1 - 1 = o + ExecutableField
          BY <2>3, FieldOrder
        <4> QED
          BY <3>2, <4>1 DEF Byte
      <3>4. CASE v.executable
        BY <3>3, <3>4 DEF Byte, Flag
      <3>5. CASE ~v.executable
        <4>1. mem[o + ExecutableField] /= Byte(1)
          BY <3>3, <3>5 DEF Byte, Flag
        <4> QED
          BY <2>2, <3>5, <4>1
      <3> QED
        BY <3>4, <3>5
    <2>8. ReadKey(mem, o + OwnerField) = v.owner
      <3>1. o + OwnerField \in Nat
        BY <2>3, Fields
      <3>2. Holds(mem, o + OwnerField, KeyBytes(v.owner))
        BY <2>1 DEF Keeps, o
      <3> QED
        BY <2>2, <3>1, <3>2, KeyRead
    <2>9. ReadInt(mem, o + LamportsField) = v.lamports
      <3>1. o + LamportsField \in Nat
        BY <2>3, Fields
      <3>2. Holds(mem, o + LamportsField, IntBytes(v.lamports, U64))
        BY <2>1 DEF Keeps, o
      <3> QED
        BY <2>2, <3>1, <3>2, IntRead
    <2>10. ReadInt(mem, rent) = v.rent_epoch
      <3>1. Holds(mem, rent, IntBytes(v.rent_epoch, U64))
        BY <2>1, <2>5 DEF Keeps, o
      <3> QED
        BY <2>2, <2>5, <3>1, IntRead
    <2>11. Slice(mem, o + DataField, v.len) = SubSeq(v.room, 1, v.len)
      <3>1. /\ Len(v.room) = RoomLen(i) /\ v.len <= RoomLen(i)
            /\ \A k \in 1..RoomLen(i) : mem[o + DataField + k - 1] = v.room[k]
        BY <2>1 DEF Keeps, Holds, LenField, o, v
      <3>2. SubSeq(v.room, 1, v.len) = [k \in 1..v.len |-> v.room[k]]
        BY <2>2, <2>3, <3>1
      <3>3. \A k \in 1..v.len : mem[o + DataField + k - 1] = v.room[k]
        BY <2>2, <2>3, <3>1
      <3> QED
        BY <3>2, <3>3 DEF Slice
    <2> QED
      BY <2>6, <2>7, <2>8, <2>9, <2>10, <2>11 DEF Expected, v
  <1>2. Spec => []Accounts
    <2>1. Init => Accounts
      BY InitAccounts
    <2>2. IInv /\ Accounts /\ [Next]_vars => Accounts'
      BY NextAccounts
    <2> QED
      BY <2>1, <2>2, Invariance, PTL DEF Spec
  <1> QED
    BY <1>1, <1>2, Invariance, PTL
=============================================================================
