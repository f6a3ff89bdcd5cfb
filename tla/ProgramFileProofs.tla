-------------------------- MODULE ProgramFileProofs --------------------------
(***************************************************************************)
(* OkIsWhole and NeverMixed, for images of any lengths, any number of runs *)
(* of the command, and failures, crashes and upgrades in any order.        *)
(***************************************************************************)
EXTENDS ProgramFile, SequenceTheorems, TLAPS

-----------------------------------------------------------------------------
(* The file is the beginning of what was fetched, of the length written:   *)
(* it was truncated before the fetch, and every write appends to it.       *)
InStep ==
  /\ pc \in {"fetch", "data"} => file = <<>> /\ position = 0
  /\ pc = "write" => /\ acc \in Images
                     /\ position \in 0..Len(acc)
                     /\ file = SubSeq(acc, 1, position)

(* A run that succeeded has left all of it. *)
Whole == result = "ok" => pc = "idle" /\ acc \in Images /\ file = acc

IInv ==
  /\ image \in Images
  /\ pc \in {"idle", "fetch", "data", "write"}
  /\ InStep
  /\ Whole
  /\ NeverMixed

-----------------------------------------------------------------------------
(* The beginnings of an image, and that the first n blocks followed by the *)
(* next are the first n + 1.                                               *)
LEMMA Beginnings ==
  ASSUME NEW i \in Images, NEW n \in 0..Len(i)
  PROVE  /\ Len(SubSeq(i, 1, n)) = n
         /\ IsBeginning(SubSeq(i, 1, n), i)
  <1>1. i \in Seq(Blocks) /\ Len(i) \in Nat /\ n \in Int
    BY ImagesAssumption, LenProperties
  <1>2. \A k \in 1..n : i[k] \in Blocks
    BY <1>1, ElementOfSeq
  <1>3. Len(SubSeq(i, 1, n)) = n
    BY <1>1, <1>2, SubSeqProperties
  <1> QED
    BY <1>1, <1>3 DEF IsBeginning

(* A write at the end of a beginning of an image makes it one block        *)
(* longer.                                                                 *)
LEMMA OverwrittenAppends ==
  ASSUME NEW i \in Images, NEW n \in 0..Len(i), n # Len(i)
  PROVE  Overwritten(SubSeq(i, 1, n), n + 1, i[n + 1])
           = SubSeq(i, 1, n + 1)
  <1> DEFINE f == SubSeq(i, 1, n)
             g == SubSeq(i, 1, n + 1)
             h == Overwritten(f, n + 1, i[n + 1])
  <1>1. i \in Seq(Blocks) /\ Len(i) \in Nat /\ n \in Int /\ n + 1 \in 0..Len(i)
    BY ImagesAssumption, LenProperties
  <1>2. \A k \in 1..(n + 1) : i[k] \in Blocks
    BY <1>1, ElementOfSeq
  <1>3. /\ f \in Seq(Blocks) /\ Len(f) = n
        /\ \A k \in 1..n : f[k] = i[k]
    BY <1>1, <1>2, SubSeqProperties
  <1>4. /\ g \in Seq(Blocks) /\ Len(g) = n + 1
        /\ \A k \in 1..(n + 1) : g[k] = i[k]
    BY <1>1, <1>2, SubSeqProperties
  <1>5. h = [k \in 1..(n + 1) |-> IF k = n + 1 THEN i[n + 1] ELSE f[k]]
    BY <1>1, <1>3 DEF Overwritten
  <1>6. g = [k \in 1..(n + 1) |-> g[k]]
    BY <1>4, LenProperties
  <1> QED
    BY <1>1, <1>3, <1>4, <1>5, <1>6

-----------------------------------------------------------------------------
(* Before the first run there is no file. *)
LEMMA InitInvariant == Init => IInv
  BY DEF Init, IInv, InStep, Whole, NeverMixed

(* A truncated file is the beginning of an image. *)
LEMMA EmptyIsNotMixed ==
  ASSUME image \in Images
  PROVE  \E i \in Images : IsBeginning(<<>>, i)
  <1>1. image \in Seq(Blocks) /\ Len(image) \in Nat
    BY ImagesAssumption, LenProperties
  <1>2. IsBeginning(<<>>, image)
    BY <1>1, SubSeqEmpty, EmptySeq DEF IsBeginning
  <1> QED
    BY <1>2

(* No step, failure, crash or upgrade breaks the invariant. *)
LEMMA NextInvariant == IInv /\ [Next]_vars => IInv'
  <1> SUFFICES ASSUME IInv, [Next]_vars
               PROVE  IInv'
    OBVIOUS
  <1> USE DEF IInv, InStep, Whole, NeverMixed
  <1>1. CASE Open
    <2>1. file' = file \/ file' = <<>>
      BY <1>1 DEF Open, Opened
    <2> QED
      BY <1>1, <2>1, EmptyIsNotMixed DEF Open, Opened, Return
  <1>2. ASSUME NEW owner \in Owners, FetchProgram(owner)
        PROVE  IInv'
    <2>1. Len(image) \in Nat /\ SubSeq(image, 1, 0) = <<>>
      BY ImagesAssumption, LenProperties, SubSeqEmpty
    <2>2. file = <<>> /\ position = 0 /\ UNCHANGED <<image, file, position>>
      BY <1>2 DEF FetchProgram
    <2>3. CASE owner = "bpf_loader" /\ pc' = "write" /\ acc' = image
               /\ UNCHANGED result
      <3>1. position' \in 0..Len(acc') /\ file' = SubSeq(acc', 1, position')
        BY <2>1, <2>2, <2>3
      <3>2. result # "ok"
        BY <1>2 DEF FetchProgram
      <3> QED
        BY <2>2, <2>3, <3>1, <3>2
    <2>4. CASE pc' \in {"idle", "data"} /\ result' # "ok"
      BY <2>2, <2>4
    <2> QED
      BY <1>2, <2>3, <2>4 DEF FetchProgram, Return
  <1>3. CASE FetchData
    <2>1. Len(image) \in Nat /\ SubSeq(image, 1, 0) = <<>>
      BY ImagesAssumption, LenProperties, SubSeqEmpty
    <2> QED
      BY <1>3, <2>1 DEF FetchData, Return
  <1>4. CASE WriteBlock
    <2>1. CASE UNCHANGED <<file, position>>
      BY <1>4, <2>1 DEF WriteBlock, Return
    <2>2. CASE ~UNCHANGED <<file, position>>
      <3>1. /\ acc \in Images /\ Len(acc) \in Nat
            /\ position + 1 \in 0..Len(acc)
        BY <1>4, ImagesAssumption, LenProperties DEF WriteBlock, AllWritten
      <3>2. file' = SubSeq(acc, 1, position + 1)
        BY <1>4, <2>2, <3>1, OverwrittenAppends DEF WriteBlock, AllWritten
      <3>3. IsBeginning(file', acc)
        BY <3>1, <3>2, Beginnings
      <3> QED
        BY <1>4, <2>2, <3>1, <3>2, <3>3 DEF WriteBlock
    <2> QED
      BY <2>1, <2>2
  <1>5. CASE Written
    <2>1. SubSeq(acc, 1, Len(acc)) = acc
      BY <1>5, ImagesAssumption, SubSeqFull DEF Written
    <2> QED
      BY <1>5, <2>1 DEF Written, AllWritten, Return
  <1>6. CASE Crash
    BY <1>6 DEF Crash, Return
  <1>7. CASE Upgrade
    BY <1>7 DEF Upgrade
  <1>8. CASE UNCHANGED vars
    BY <1>8 DEF vars
  <1> QED
    BY <1>1, <1>2, <1>3, <1>4, <1>5, <1>6, <1>7, <1>8 DEF Next

(* IInv holds in every state. *)
LEMMA Invariance == Spec => []IInv
  BY InitInvariant, NextInvariant, PTL DEF Spec

(* After a run of get-program-data that succeeded the destination holds    *)
(* one whole version of the program, whatever was there before.            *)
THEOREM FileOkIsWhole == Spec => []OkIsWhole
  <1>1. IInv => OkIsWhole
    BY DEF IInv, Whole, OkIsWhole
  <1> QED
    BY <1>1, Invariance, PTL

(* No failure, crash or upgrade ever leaves parts of two versions in the   *)
(* destination.                                                            *)
THEOREM FileNeverMixed == Spec => []NeverMixed
  <1>1. IInv => NeverMixed
    BY DEF IInv
  <1> QED
    BY <1>1, Invariance, PTL
=============================================================================
