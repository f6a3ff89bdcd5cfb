------------------------- MODULE ProgramLoaderProofs -------------------------
(***************************************************************************)
(* The safety properties of the program cache, for every set of accounts   *)
(* and features, every sequence of calls, whatever their slots, and a      *)
(* closure that may answer anything each time it is asked.                 *)
(***************************************************************************)
EXTENDS ProgramLoader, FiniteSetTheorems, SequenceTheorems,
        WellFoundedInduction, TLAPS

-----------------------------------------------------------------------------
(* The first and the last of a set of indices. *)
LEMMA LeastExists ==
  ASSUME NEW I \in SUBSET Nat, I # {}
  PROVE  \E i \in I : \A j \in I : i <= j
  <1> DEFINE R == OpToRel(<, Nat)
  <1>1. PICK i \in I : \A j \in I : ~(<<j, i>> \in R)
    BY NatLessThanWellFounded, WFMin
  <1>2. \A j \in I : ~(j < i)
    BY <1>1 DEF OpToRel
  <1> QED
    BY <1>2

(* The search of `extract' from the newest entry ends at one, if there is  *)
(* any.                                                                    *)
LEMMA NewestExists ==
  ASSUME NEW n \in Nat, NEW I \in SUBSET (1..n), I # {}
  PROVE  Newest(I) \in I
  <1> DEFINE J == {m \in 0..n : n - m \in I}
  <1>1. J \in SUBSET Nat
    OBVIOUS
  <1>2. J # {}
    <2>1. PICK i \in I : TRUE
      OBVIOUS
    <2>2. n - i \in 0..n /\ n - (n - i) = i
      OBVIOUS
    <2> QED
      BY <2>1, <2>2
  <1>3. PICK m \in J : \A j \in J : m <= j
    BY <1>1, <1>2, LeastExists
  <1>4. ASSUME NEW j \in I
        PROVE  j <= n - m
    <2>1. n - j \in 0..n /\ n - (n - j) = j
      OBVIOUS
    <2>2. n - j \in J
      BY <2>1
    <2> QED
      BY <1>3, <2>2
  <1>5. \E i \in I : \A j \in I : j <= i
    BY <1>4
  <1> QED
    BY <1>5 DEF Newest

-----------------------------------------------------------------------------
(* LoadedPrograms::replenish.  Entries with one more put in at place i, or *)
(* in the place of the i-th: c is where the rest begins.                   *)
Splice(es, e, i, c) == SubSeq(es, 1, i - 1) \o <<e>> \o SubSeq(es, c, Len(es))

(* What is at each place after an entry was inserted, or put in the place  *)
(* of another.                                                             *)
LEMMA Spliced ==
  ASSUME NEW es \in Seq(EntryType), NEW e \in EntryType,
         NEW i \in 1..(Len(es) + 1), NEW c \in Int, c = i \/ c = i + 1,
         c <= Len(es) + 1
  PROVE  /\ Splice(es, e, i, c) \in Seq(EntryType)
         /\ Len(Splice(es, e, i, c)) = Len(es) + 1 + i - c
         /\ \A j \in 1..(Len(es) + 1 + i - c) :
              Splice(es, e, i, c)[j] =
                IF j < i THEN es[j] ELSE IF j = i THEN e
                ELSE es[j - 1 - i + c]
  <1> DEFINE n == Len(es)
             a == SubSeq(es, 1, i - 1)
             b == SubSeq(es, c, n)
             h == a \o <<e>>
             r == h \o b
  <1>1. n \in Nat /\ i \in Int /\ i - 1 \in Int /\ c \in Int
    BY LenProperties
  <1>2. a \in Seq(EntryType) /\ Len(a) = i - 1 /\ \A j \in 1..(i - 1) : a[j] = es[j]
    <2>1. \A j \in 1..(i - 1) : es[j] \in EntryType
      BY <1>1, ElementOfSeq
    <2> QED
      BY <1>1, <2>1, SubSeqProperties
  <1>3. /\ b \in Seq(EntryType) /\ Len(b) = n + 1 - c
        /\ \A j \in 1..(n + 1 - c) : b[j] = es[c + j - 1]
    <2>1. \A j \in c..n : es[j] \in EntryType
      BY <1>1, ElementOfSeq
    <2>2. n - c + 1 = n + 1 - c
      BY <1>1
    <2>3. /\ b \in Seq(EntryType) /\ Len(b) = IF c <= n THEN n - c + 1 ELSE 0
          /\ \A j \in 1..(n - c + 1) : b[j] = es[c + j - 1]
      BY <1>1, <2>1, SubSeqProperties
    <2> QED
      BY <1>1, <2>2, <2>3
  <1>4. <<e>> \in Seq(EntryType) /\ Len(<<e>>) = 1 /\ <<e>>[1] = e
    OBVIOUS
  <1> HIDE DEF n, a, b
  <1>5. /\ h \in Seq(EntryType) /\ Len(h) = (i - 1) + 1
        /\ \A j \in 1..((i - 1) + 1) :
             h[j] = IF j <= i - 1 THEN a[j] ELSE <<e>>[j - (i - 1)]
    BY <1>2, <1>4, ConcatProperties
  <1> HIDE DEF h
  <1>6. Len(h) = i
    BY <1>1, <1>5
  <1>7. ASSUME NEW j \in 1..i
        PROVE  h[j] = IF j < i THEN es[j] ELSE e
    <2>1. CASE j < i
      BY <1>1, <1>2, <1>5, <2>1
    <2>2. CASE j = i
      <3>1. j \in 1..((i - 1) + 1) /\ ~(j <= i - 1) /\ j - (i - 1) = 1
        BY <1>1, <2>2
      <3> QED
        BY <1>4, <1>5, <2>2, <3>1
    <2>3. j < i \/ j = i
      BY <1>1
    <2> QED
      BY <2>1, <2>2, <2>3
  <1>8. /\ r \in Seq(EntryType) /\ Len(r) = Len(h) + Len(b)
        /\ \A j \in 1..(Len(h) + Len(b)) :
             r[j] = IF j <= Len(h) THEN h[j] ELSE b[j - Len(h)]
    BY <1>3, <1>5, ConcatProperties
  <1> HIDE DEF r
  <1>9. Len(h) + Len(b) = n + 1 + i - c /\ Len(h) = i
    BY <1>1, <1>3, <1>6
  <1>10. ASSUME NEW j \in 1..(n + 1 + i - c)
         PROVE  r[j] = IF j < i THEN es[j] ELSE IF j = i THEN e
                       ELSE es[j - 1 - i + c]
    <2>1. CASE j <= i
      <3>1. j \in 1..i /\ (j < i \/ j = i)
        BY <1>1, <2>1
      <3>2. r[j] = h[j]
        BY <1>8, <1>9, <2>1
      <3> QED
        BY <1>1, <1>7, <3>1, <3>2
    <2>2. CASE j > i
      <3>1. /\ ~(j <= i) /\ ~(j < i) /\ j # i
            /\ j - i \in 1..(n + 1 - c) /\ c + (j - i) - 1 = j - 1 - i + c
        BY <1>1, <2>2
      <3>2. r[j] = b[j - i]
        BY <1>8, <1>9, <3>1
      <3> QED
        BY <1>3, <3>1, <3>2
    <2> QED
      BY <1>1, <2>1, <2>2
  <1>11. r = Splice(es, e, i, c)
    BY DEF Splice, r, h, a, b, n
  <1> QED
    BY <1>8, <1>9, <1>10, <1>11 DEF n

Sorted(es) ==
  \A i, j \in DOMAIN es : i < j => es[i].eff <= es[j].eff

(* The place of an entry is after all that take effect earlier. *)
LEMMA PlaceFacts ==
  ASSUME NEW es \in Seq(EntryType), Sorted(es), NEW e \in EntryType
  PROVE  /\ Place(es, e) \in 1..(Len(es) + 1)
         /\ \A j \in 1..Len(es) :
              IF j < Place(es, e) THEN es[j].eff <= e.eff
                                  ELSE e.eff <= es[j].eff
  <1>1. Len(es) \in Nat /\ DOMAIN es = 1..Len(es)
    BY LenProperties
  <1>2. e.eff \in Nat /\ \A j \in 1..Len(es) : es[j].eff \in Nat
    <2>1. \A j \in 1..Len(es) : es[j] \in EntryType
      BY ElementOfSeq
    <2> QED
      BY <2>1 DEF EntryType
  <1>3. CASE Later(es, e) = {}
    BY <1>1, <1>2, <1>3 DEF Place, Later
  <1>4. CASE Later(es, e) # {}
    <2> DEFINE i == Place(es, e)
    <2>1. Later(es, e) \in SUBSET Nat
      BY <1>1 DEF Later
    <2>2. i \in Later(es, e) /\ \A j \in Later(es, e) : i <= j
      BY <1>4, <2>1, LeastExists DEF Place
    <2> HIDE DEF i
    <2>3. i \in 1..Len(es) /\ es[i].eff >= e.eff
      BY <1>1, <2>2 DEF Later
    <2>4. ASSUME NEW j \in 1..Len(es)
          PROVE  IF j < i THEN es[j].eff <= e.eff ELSE e.eff <= es[j].eff
      <3>1. CASE j < i
        <4>1. j \notin Later(es, e)
          BY <1>1, <2>2, <2>3, <3>1
        <4> QED
          BY <1>1, <1>2, <3>1, <4>1 DEF Later
      <3>2. CASE j = i
        BY <1>2, <2>3, <3>2
      <3>3. CASE i < j
        <4>1. es[i].eff <= es[j].eff
          BY <1>1, <2>3, <3>3 DEF Sorted
        <4> QED
          BY <1>1, <1>2, <2>3, <3>3, <4>1
      <3> QED
        BY <1>1, <2>3, <3>1, <3>2, <3>3
    <2> QED
      BY <1>1, <2>3, <2>4 DEF i
  <1> QED
    BY <1>3, <1>4

(* replenish keeps the entries in order and adds none but the new one. *)
LEMMA ReplenishedFacts ==
  ASSUME NEW es \in Seq(EntryType), Sorted(es), NEW e \in EntryType
  PROVE  /\ Replenished(es, e) \in Seq(EntryType)
         /\ Sorted(Replenished(es, e))
         /\ \A i \in DOMAIN Replenished(es, e) :
              \/ Replenished(es, e)[i] = e
              \/ \E j \in DOMAIN es : Replenished(es, e)[i] = es[j]
  <1> DEFINE n == Len(es)
             i == Place(es, e)
             c == IF SameSlots(es, e) THEN i + 1 ELSE i
             r == Replenished(es, e)
  <1>1. n \in Nat /\ DOMAIN es = 1..n
    BY LenProperties
  <1>2. e.eff \in Nat /\ \A j \in 1..n : es[j].eff \in Nat
    <2>1. \A j \in 1..n : es[j] \in EntryType
      BY ElementOfSeq
    <2> QED
      BY <2>1 DEF EntryType
  <1>3. CASE Duplicate(es, e)
    BY <1>3 DEF Replenished
  <1>4. CASE ~Duplicate(es, e)
    <2>1. /\ i \in 1..(n + 1)
          /\ \A j \in 1..n : IF j < i THEN es[j].eff <= e.eff
                                      ELSE e.eff <= es[j].eff
      BY PlaceFacts
    <2>2. c \in {i, i + 1} /\ c <= n + 1
      BY <1>1, <2>1 DEF SameSlots
    <2>3. r = Splice(es, e, i, c)
      BY <1>4 DEF Replenished, Splice
    <2> HIDE DEF i, c, r
    <2>4. /\ r \in Seq(EntryType) /\ Len(r) = n + 1 + i - c
          /\ \A j \in 1..Len(r) :
               r[j] = IF j < i THEN es[j] ELSE IF j = i THEN e
                      ELSE es[j - 1 - i + c]
      <3>1. /\ r \in Seq(EntryType) /\ Len(r) = n + 1 + i - c
            /\ \A j \in 1..(n + 1 + i - c) :
                 r[j] = IF j < i THEN es[j] ELSE IF j = i THEN e
                        ELSE es[j - 1 - i + c]
        <4>1. i \in 1..(Len(es) + 1) /\ c <= Len(es) + 1
          BY <2>1, <2>2
        <4>2. i \in Int /\ c \in Int /\ Len(es) \in Nat /\ (c = i \/ c = i + 1)
          BY <1>1, <2>1, <2>2
        <4> HIDE DEF n
        <4>3. Splice(es, e, i, c) \in Seq(EntryType)
          BY <4>1, <4>2, Spliced
        <4>4. Len(Splice(es, e, i, c)) = n + 1 + i - c
          BY <4>1, <4>2, Spliced DEF n
        <4>5. \A j \in 1..(n + 1 + i - c) :
                Splice(es, e, i, c)[j] =
                  IF j < i THEN es[j] ELSE IF j = i THEN e
                  ELSE es[j - 1 - i + c]
          BY <4>1, <4>2, Spliced DEF n
        <4> QED
          BY <2>3, <4>3, <4>4, <4>5
      <3> QED
        BY <3>1
    <2>5. DOMAIN r = 1..Len(r)
      BY <2>4, LenProperties
    <2>6. \A j \in 1..Len(r) : j > i => j - 1 - i + c \in i..n
      BY <1>1, <2>1, <2>2, <2>4
    <2>7. ASSUME NEW j \in 1..Len(r)
          PROVE  r[j] = e \/ \E k \in 1..n : r[j] = es[k]
      <3>1. CASE j < i
        BY <1>1, <2>1, <2>4, <3>1
      <3>2. CASE j = i
        BY <2>4, <3>2
      <3>3. CASE j > i
        <4>1. j - 1 - i + c \in 1..n
          BY <1>1, <2>1, <2>6, <3>3
        <4>2. r[j] = es[j - 1 - i + c]
          BY <2>1, <2>4, <3>3
        <4> QED
          BY <4>1, <4>2
      <3> QED
        BY <2>1, <3>1, <3>2, <3>3
    <2>8. ASSUME NEW j \in 1..Len(r), NEW k \in 1..Len(r), j < k
          PROVE  r[j].eff <= r[k].eff
      <3>1. CASE k < i
        BY <1>1, <2>1, <2>4, <2>8, <3>1 DEF Sorted
      <3>2. CASE k = i
        BY <1>1, <2>1, <2>4, <2>8, <3>2
      <3>3. CASE k > i
        <4> DEFINE kk == k - 1 - i + c
        <4>1. kk \in i..n /\ kk \in 1..n /\ r[k] = es[kk]
          BY <1>1, <2>1, <2>4, <2>6, <3>3
        <4>2. e.eff <= es[kk].eff
          BY <1>1, <2>1, <4>1
        <4>3. CASE j < i
          <5>1. r[j] = es[j] /\ j \in 1..n /\ j < kk
            BY <1>1, <2>1, <2>4, <4>1, <4>3
          <5> QED
            BY <1>1, <4>1, <5>1 DEF Sorted
        <4>4. CASE j = i
          BY <2>4, <4>1, <4>2, <4>4
        <4>5. CASE j > i
          <5> DEFINE jj == j - 1 - i + c
          <5>1. jj \in i..n /\ jj \in 1..n /\ r[j] = es[jj] /\ jj < kk
            BY <1>1, <2>1, <2>2, <2>4, <2>6, <2>8, <4>5
          <5> QED
            BY <1>1, <4>1, <5>1 DEF Sorted
        <4> QED
          BY <2>1, <4>3, <4>4, <4>5
      <3> QED
        BY <2>1, <3>1, <3>2, <3>3
    <2> QED
      BY <1>1, <2>4, <2>5, <2>7, <2>8 DEF Sorted, r
  <1> QED
    BY <1>3, <1>4

(* replenish returns the new entry or one that was there. *)
LEMMA DeduplicatedFacts ==
  ASSUME NEW es \in Seq(EntryType), Sorted(es), NEW e \in EntryType
  PROVE  /\ Deduplicated(es, e) \in EntryType
         /\ \/ Deduplicated(es, e) = e
            \/ \E j \in DOMAIN es : Deduplicated(es, e) = es[j]
  <1>1. DOMAIN es = 1..Len(es)
    BY LenProperties
  <1>2. CASE Duplicate(es, e)
    <2>1. Place(es, e) \in 1..Len(es)
      BY <1>2, PlaceFacts, LenProperties DEF Duplicate, SameSlots
    <2> QED
      BY <1>1, <1>2, <2>1, ElementOfSeq DEF Deduplicated
  <1>3. CASE ~Duplicate(es, e)
    BY <1>3 DEF Deduplicated
  <1> QED
    BY <1>2, <1>3

-----------------------------------------------------------------------------
(* What an entry says of its program at slot s, and that it says at every  *)
(* slot, or at one, what some accounts fetched for k say.                  *)
Says(e, s) ==
  IF Delayed(e, s) THEN Outcome("DelayVisibility", None)
  ELSE Outcome(e.type, e.elf)
Faithful(delay, fetched, k, e) ==
  \E a \in fetched[k] : \E d \in DataAnswers(fetched, a) :
    \A s \in Nat : Says(e, s) = Deployed(delay, a, d, s)
FaithfulAt(delay, fetched, k, e, s) ==
  \E a \in fetched[k] : \E d \in DataAnswers(fetched, a) :
    Says(e, s) = Deployed(delay, a, d, s)

AnswerSets == [Keys -> SUBSET (Accounts \union {None})]

(* The accounts fetched so far stay fetched. *)
LEMMA DataAnswersGrow ==
  ASSUME NEW fetched \in AnswerSets, NEW more \in AnswerSets,
         \A j \in Keys : fetched[j] \subseteq more[j],
         NEW k \in Keys, NEW a \in fetched[k]
  PROVE  a \in more[k] /\ DataAnswers(fetched, a) \subseteq DataAnswers(more, a)
  <1>1. CASE IsProgram(a)
    <2>1. a \in Accounts
      BY <1>1 DEF IsProgram, AnswerSets
    <2>2. a.target \in Keys
      BY <2>1 DEF Accounts
    <2> QED
      BY <1>1, <2>2 DEF DataAnswers
  <1>2. CASE ~IsProgram(a)
    BY <1>2 DEF DataAnswers
  <1> QED
    BY <1>1, <1>2

(* An entry that is faithful stays so when more accounts are fetched. *)
LEMMA FaithfulGrows ==
  ASSUME NEW fetched \in AnswerSets, NEW more \in AnswerSets,
         \A j \in Keys : fetched[j] \subseteq more[j],
         NEW k \in Keys, NEW e, NEW delay, NEW s
  PROVE  /\ Faithful(delay, fetched, k, e) => Faithful(delay, more, k, e)
         /\ FaithfulAt(delay, fetched, k, e, s) => FaithfulAt(delay, more, k, e, s)
  BY DataAnswersGrow DEF Faithful, FaithfulAt

(* What holds at every slot holds at one. *)
LEMMA FaithfulIsFaithfulAt ==
  ASSUME NEW fetched, NEW k, NEW e, NEW delay, NEW s \in Nat,
         Faithful(delay, fetched, k, e)
  PROVE  FaithfulAt(delay, fetched, k, e, s)
  BY DEF Faithful, FaithfulAt

(* A tombstone says the same at every slot. *)
LEMMA TombstoneSays ==
  ASSUME NEW dep \in Nat, NEW type \in Types, NEW s \in Nat
  PROVE  /\ Tombstone(dep, type) \in EntryType
         /\ Says(Tombstone(dep, type), s) = Outcome(type, None)
  BY DEF Says, Delayed, Tombstone, Entry, EntryType

(* A loaded program is hidden in the slot of its deployment, if visibility *)
(* is delayed, and at no other.                                            *)
LEMMA LoadedSays ==
  ASSUME NEW dep \in Nat, NEW elf \in Elfs, NEW delay \in BOOLEAN, NEW s \in Nat
  PROVE  LET e == Entry("Loaded", dep, IF delay THEN dep + 1 ELSE dep, elf) IN
         /\ e \in EntryType
         /\ Says(e, s) = IF delay /\ s = dep THEN Outcome("DelayVisibility", None)
                         ELSE Outcome("Loaded", elf)
  <1>1. CASE delay
    BY <1>1 DEF Says, Delayed, Entry, EntryType, Types
  <1>2. CASE ~delay
    BY <1>2 DEF Says, Delayed, Entry, EntryType, Types
  <1> QED
    BY <1>1, <1>2

(* How an entry is shown to be faithful: by the accounts it was made from. *)
LEMMA FetchedIsFaithful ==
  ASSUME NEW fetched, NEW k, NEW e, NEW delay, NEW a \in fetched[k],
         NEW d \in DataAnswers(fetched, a),
         \A s \in Nat : Says(e, s) = Deployed(delay, a, d, s)
  PROVE  Faithful(delay, fetched, k, e)
  BY DEF Faithful

-----------------------------------------------------------------------------
Delay == DelayVisibility \in features

(* The accounts that a message names and that a loader owns. *)
Named(ks, as) == {ks[i] : i \in {j \in DOMAIN as : as[j].owner \in ProgramOwners}}

(* Where the call is: until it returns, the cache is as it was. *)
Phases ==
  /\ pc \in {"scan", "load", "data"} => result = "none" /\ entries = before
  /\ pc = "scan" => DOMAIN loaded = {}
  /\ pc = "data" => /\ loading.key \in missing \ DOMAIN loaded
                    /\ IsProgram(loading.account)
                    /\ loading.account \in answers[loading.key]

(* An enabled builtin is in the cache, and so is never loaded. *)
BuiltinsCached ==
  /\ \A b \in builtin_programs : entries[b] = <<Entry("Builtin", 0, 0, None)>>
  /\ pc \in {"load", "data"} => missing \cap builtin_programs = {}

(* What was found in the messages is either missing or in the batch. *)
Collected ==
  /\ pc = "scan" => /\ missing = Named(keys, scanned)
                    /\ Len(scanned) <= Len(keys)
  /\ pc \in {"load", "data"} =>
       /\ Len(scanned) = Len(keys)
       /\ missing \union DOMAIN batch
            = Named(keys, scanned) \union builtin_programs

(* An entry, whatever call made it, is right at every later slot. *)
CacheFaithful ==
  \A k \in Keys \ builtin_programs : \A i \in DOMAIN entries[k] :
    Faithful(Delay, answers, k, entries[k][i])
LoadedFaithful ==
  \A k \in DOMAIN loaded : Faithful(Delay, answers, k, loaded[k])
BatchSays ==
  \A k \in DOMAIN batch \ builtin_programs :
    FaithfulAt(Delay, answers, k, batch[k], slot)

IInv ==
  /\ TypeOK
  /\ answers \in AnswerSets
  /\ Phases
  /\ BuiltinsCached
  /\ Collected
  /\ CacheFaithful
  /\ LoadedFaithful
  /\ BatchSays
  /\ BatchComplete
  /\ FailureKeepsCache
  /\ PanicsOnChange

-----------------------------------------------------------------------------
(* The types of the cache's entries of one key. *)
LEMMA CacheTypes ==
  ASSUME TypeOK, NEW k \in Keys
  PROVE  /\ entries[k] \in Seq(EntryType) /\ Sorted(entries[k])
         /\ Len(entries[k]) \in Nat /\ DOMAIN entries[k] = 1..Len(entries[k])
         /\ \A i \in DOMAIN entries[k] : entries[k][i] \in EntryType
  <1>1. entries[k] \in Seq(EntryType)
    BY DEF TypeOK
  <1> QED
    BY <1>1, LenProperties, ElementOfSeq DEF TypeOK, Sorted

(* The builtins are keys, and stay what they are. *)
LEMMA BuiltinKeys ==
  /\ builtin_programs \subseteq Keys
  /\ UNCHANGED features => builtin_programs' = builtin_programs /\ Delay' = Delay
  BY LoaderAssumption DEF builtin_programs, Delay

(* Between calls, and while one scans, loads and returns, whatever the     *)
(* closure has answered since.                                             *)
LEMMA FaithfulKept ==
  ASSUME IInv, answers' \in AnswerSets, UNCHANGED features,
         \A j \in Keys : answers[j] \subseteq answers'[j]
  PROVE  /\ UNCHANGED entries => CacheFaithful'
         /\ UNCHANGED loaded => LoadedFaithful'
         /\ UNCHANGED <<batch, slot>> => BatchSays'
  <1>1. ASSUME UNCHANGED entries
        PROVE  CacheFaithful'
    BY <1>1, BuiltinKeys, FaithfulGrows DEF IInv, CacheFaithful
  <1>2. ASSUME UNCHANGED loaded
        PROVE  LoadedFaithful'
    BY <1>2, BuiltinKeys, FaithfulGrows DEF IInv, LoadedFaithful, TypeOK
  <1>3. ASSUME UNCHANGED <<batch, slot>>
        PROVE  BatchSays'
    <2>1. \A k \in DOMAIN batch \ builtin_programs :
            k \in Keys /\ FaithfulAt(Delay, answers, k, batch[k], slot)
      BY DEF IInv, BatchSays, TypeOK
    <2>2. \A k \in DOMAIN batch \ builtin_programs :
            FaithfulAt(Delay, answers', k, batch[k], slot)
      BY <2>1, FaithfulGrows DEF IInv
    <2> QED
      BY <1>3, <2>2, BuiltinKeys DEF BatchSays
  <1> QED
    BY <1>1, <1>2, <1>3

(* MessageExecutor::new establishes the invariant. *)
LEMMA InitInvariant == Init => IInv
  <1> SUFFICES ASSUME Init
               PROVE  IInv
    OBVIOUS
  <1> USE DEF Init
  <1> DEFINE B == Entry("Builtin", 0, 0, None)
  <1>1. B \in EntryType
    BY DEF EntryType, Entry, Types
  <1>2. <<B>> \in Seq(EntryType) /\ Len(<<B>>) = 1 /\ DOMAIN <<B>> = 1..1
    BY <1>1
  <1> HIDE DEF B
  <1>3. entries = [k \in Keys |-> IF k \in builtin_programs THEN <<B>> ELSE <<>>]
    BY DEF Preloaded, B
  <1>4. entries \in [Keys -> Seq(EntryType)]
    BY <1>2, <1>3, EmptySeq
  <1>5. ASSUME NEW k \in Keys
        PROVE  \A i, j \in DOMAIN entries[k] : ~(i < j)
    <2>1. DOMAIN entries[k] \subseteq 1..1
      BY <1>2, <1>3
    <2> QED
      BY <2>1
  <1>6. /\ DOMAIN loaded = {} /\ DOMAIN batch = {}
        /\ scanned \in Seq(Accounts \union {None}) /\ keys \in Seq(Keys)
    BY EmptySeq DEF Empty
  <1>7. TypeOK
    BY <1>4, <1>5, <1>6, LoaderAssumption DEF TypeOK
  <1>8. answers \in AnswerSets
    BY DEF AnswerSets
  <1>9. BuiltinsCached
    BY <1>3, BuiltinKeys DEF BuiltinsCached, B
  <1>10. CacheFaithful
    BY <1>3 DEF CacheFaithful
  <1> QED
    BY <1>6, <1>7, <1>8, <1>9, <1>10
    DEF IInv, Phases, Collected, LoadedFaithful, BatchSays, BatchComplete,
        FailureKeepsCache, PanicsOnChange

-----------------------------------------------------------------------------
(* A new call forgets the last one, but not the cache nor what was         *)
(* fetched.                                                                *)
LEMMA CallStep ==
  ASSUME IInv, NEW ks \in KeyLists, NEW s \in Slots, Call(ks, s)
  PROVE  IInv'
  <1>1. /\ pc = "idle" /\ pc' = "scan" /\ keys' = ks /\ slot' = s
        /\ scanned' = <<>> /\ missing' = {} /\ result' = "none"
        /\ before' = entries
        /\ UNCHANGED <<features, entries, answers>>
        /\ calls < MaxCalls /\ calls' = calls + 1
    BY DEF Call
  <1>2. DOMAIN loaded' = {} /\ DOMAIN batch' = {}
    BY DEF Call, Empty
  <1>3. TypeOK'
    <2>1. ks \in Seq(Keys) /\ s \in Nat /\ scanned' \in Seq(Accounts \union {None})
      BY <1>1, LoaderAssumption, EmptySeq
    <2>2. calls' \in 0..MaxCalls
      BY <1>1, LoaderAssumption DEF IInv, TypeOK
    <2> QED
      BY <1>1, <1>2, <2>1, <2>2 DEF IInv, TypeOK
  <1>4. Collected'
    <2>1. Len(scanned') = 0 /\ DOMAIN scanned' = {} /\ Len(ks) \in Nat
      BY <1>1, LoaderAssumption, LenProperties
    <2>2. Named(keys', scanned') = {}
      BY <2>1 DEF Named
    <2> QED
      BY <1>1, <2>1, <2>2 DEF Collected
  <1>5. CacheFaithful'
    BY <1>1, FaithfulKept DEF IInv
  <1>6. BuiltinsCached'
    BY <1>1, BuiltinKeys DEF IInv, BuiltinsCached
  <1>7. LoadedFaithful' /\ BatchSays'
    BY <1>2 DEF LoadedFaithful, BatchSays
  <1>8. Phases' /\ BatchComplete' /\ FailureKeepsCache' /\ PanicsOnChange'
    BY <1>1, <1>2 DEF Phases, BatchComplete, FailureKeepsCache, PanicsOnChange
  <1> QED
    BY <1>1, <1>3, <1>4, <1>5, <1>6, <1>7, <1>8 DEF IInv

(* The keys found so far, and one more. *)
LEMMA NamedOneMore ==
  ASSUME NEW ks \in Seq(Keys), NEW as \in Seq(Accounts \union {None}),
         NEW a \in Accounts \union {None}
  PROVE  Named(ks, Append(as, a)) =
           Named(ks, as) \union
             (IF a.owner \in ProgramOwners THEN {ks[Len(as) + 1]} ELSE {})
  <1> DEFINE bs == Append(as, a)
             n == Len(as)
  <1>1. n \in Nat /\ DOMAIN as = 1..n
    BY LenProperties
  <1>2. /\ bs \in Seq(Accounts \union {None}) /\ Len(bs) = n + 1
        /\ \A i \in 1..n : bs[i] = as[i]
        /\ bs[n + 1] = a
    <2> DEFINE S == Accounts \union {None}
    <2>1. as \in Seq(S) /\ a \in S
      OBVIOUS
    <2> HIDE DEF S
    <2>2. bs \in Seq(S) /\ Len(bs) = n + 1
      BY <2>1, AppendProperties
    <2>3. \A i \in 1..n : bs[i] = as[i]
      BY <2>1, AppendProperties
    <2>4. bs[n + 1] = a
      BY <2>1, AppendProperties
    <2> QED
      BY <2>2, <2>3, <2>4 DEF S
  <1>3. DOMAIN bs = 1..(n + 1)
    BY <1>2, LenProperties
  <1> HIDE DEF bs, n
  <1>4. {j \in DOMAIN bs : bs[j].owner \in ProgramOwners}
          = {j \in DOMAIN as : as[j].owner \in ProgramOwners} \union
              (IF a.owner \in ProgramOwners THEN {n + 1} ELSE {})
    <2>1. \A j \in 1..(n + 1) : j \in 1..n \/ j = n + 1
      BY <1>1
    <2>2. 1..n \subseteq 1..(n + 1) /\ n + 1 \in 1..(n + 1)
      BY <1>1
    <2> QED
      BY <1>1, <1>2, <1>3, <2>1, <2>2
  <1> QED
    BY <1>4 DEF Named, bs, n

(* A turn of the loop over the keys keeps the invariant, also when the     *)
(* closure has no account.                                                 *)
LEMMA ScanStep ==
  ASSUME IInv, NEW a, Scan(a)
  PROVE  IInv'
  <1> DEFINE k == keys[Len(scanned) + 1]
  <1>1. /\ pc = "scan" /\ Len(scanned) < Len(keys) /\ a \in Answers[k]
        /\ scanned' = Append(scanned, a)
        /\ UNCHANGED <<features, entries, slot, keys, loading, loaded, batch,
                       answers, before, calls>>
    BY DEF Scan, args
  <1>2. /\ keys \in Seq(Keys) /\ Len(keys) \in Nat
        /\ scanned \in Seq(Accounts \union {None}) /\ Len(scanned) \in Nat
        /\ missing \subseteq Keys
    BY LenProperties DEF IInv, TypeOK
  <1>3. k \in Keys
    BY <1>1, <1>2, ElementOfSeq
  <1>4. a \in Accounts \union {None}
    BY <1>1, <1>3, LoaderAssumption
  <1>5. scanned' \in Seq(Accounts \union {None}) /\ Len(scanned') = Len(scanned) + 1
    BY <1>1, <1>2, <1>4, AppendProperties
  <1>6. CacheFaithful' /\ LoadedFaithful' /\ BatchSays'
    BY <1>1, FaithfulKept DEF IInv
  <1>7. result = "none" /\ entries = before /\ DOMAIN loaded = {}
    BY <1>1 DEF IInv, Phases
  <1>8. CASE /\ a = None /\ pc' = "idle" /\ result' = "AccountNotFound"
             /\ UNCHANGED missing
    <2>1. TypeOK'
      BY <1>1, <1>5, <1>8 DEF IInv, TypeOK
    <2>2. BuiltinsCached'
      BY <1>1, <1>8, BuiltinKeys DEF IInv, BuiltinsCached
    <2> QED
      BY <1>1, <1>6, <1>7, <1>8, <2>1, <2>2
      DEF IInv, Phases, Collected, BatchComplete, FailureKeepsCache,
          PanicsOnChange
  <1>9. CASE /\ a # None
             /\ missing' = missing \union (IF a.owner \in ProgramOwners
                                             THEN {k} ELSE {})
             /\ UNCHANGED <<pc, result>>
    <2>1. missing' \subseteq Keys
      BY <1>2, <1>3, <1>9
    <2>2. TypeOK'
      BY <1>1, <1>5, <1>7, <1>9, <2>1 DEF IInv, TypeOK
    <2>3. BuiltinsCached'
      BY <1>1, <1>9, BuiltinKeys DEF IInv, BuiltinsCached
    <2>4. missing' = Named(keys', scanned')
      BY <1>1, <1>2, <1>4, <1>9, NamedOneMore DEF IInv, Collected
    <2>5. Collected'
      BY <1>1, <1>2, <1>5, <1>9, <2>4 DEF Collected
    <2> QED
      BY <1>1, <1>6, <1>7, <1>9, <2>2, <2>3, <2>5
      DEF IInv, Phases, BatchComplete, FailureKeepsCache, PanicsOnChange
  <1> QED
    BY <1>8, <1>9 DEF Scan, Return

(* What extract takes from the cache. *)
LEMMA ExtractedFacts ==
  ASSUME IInv, NEW k \in Keys, Hits(k, slot) # {}
  PROVE  /\ Extracted(k, slot) \in EntryType
         /\ k \notin builtin_programs =>
              FaithfulAt(Delay, answers, k, Extracted(k, slot), slot)
  <1> DEFINE i == Newest(Hits(k, slot))
             e == entries[k][i]
  <1>1. Len(entries[k]) \in Nat /\ DOMAIN entries[k] = 1..Len(entries[k])
    BY CacheTypes DEF IInv
  <1>2. i \in Hits(k, slot)
    <2>1. Hits(k, slot) \in SUBSET (1..Len(entries[k]))
      BY <1>1 DEF Hits
    <2> QED
      BY <1>1, <2>1, NewestExists
  <1> HIDE DEF i
  <1>3. i \in DOMAIN entries[k] /\ (slot >= e.eff \/ Delayed(e, slot))
    BY <1>2 DEF Hits
  <1>4. e \in EntryType
    BY <1>3, CacheTypes DEF IInv
  <1>5. slot \in Nat
    BY DEF IInv, TypeOK
  <1>6. Extracted(k, slot) =
          IF slot >= e.eff THEN e ELSE Tombstone(e.dep, "DelayVisibility")
    BY DEF Extracted, i
  <1>7. k \notin builtin_programs => FaithfulAt(Delay, answers, k, e, slot)
    BY <1>3, <1>5, FaithfulIsFaithfulAt DEF IInv, CacheFaithful
  <1> HIDE DEF e
  <1>8. CASE slot >= e.eff
    BY <1>4, <1>6, <1>7, <1>8
  <1>9. CASE ~(slot >= e.eff)
    <2>1. e.dep \in Nat /\ Delayed(e, slot)
      BY <1>3, <1>4, <1>9 DEF EntryType
    <2>2. /\ Tombstone(e.dep, "DelayVisibility") \in EntryType
          /\ Says(Tombstone(e.dep, "DelayVisibility"), slot)
               = Outcome("DelayVisibility", None)
      BY <1>5, <2>1, TombstoneSays DEF Types
    <2>3. Says(e, slot) = Outcome("DelayVisibility", None)
      BY <2>1 DEF Says
    <2> QED
      BY <1>6, <1>7, <1>9, <2>2, <2>3 DEF FaithfulAt
  <1> QED
    BY <1>8, <1>9

(* The cache has a builtin at every slot, as a builtin. *)
LEMMA BuiltinExtracted ==
  ASSUME IInv, NEW b \in builtin_programs
  PROVE  Hits(b, slot) # {} /\ Extracted(b, slot).type = "Builtin"
  <1> DEFINE B == Entry("Builtin", 0, 0, None)
  <1>1. /\ entries[b] = <<B>> /\ DOMAIN entries[b] = {1}
        /\ entries[b][1] = B
    BY DEF IInv, BuiltinsCached
  <1>2. slot \in Nat /\ ROOT \in Nat
    BY LoaderAssumption DEF IInv, TypeOK
  <1>3. Relevant(B, slot) /\ slot >= B.eff
    BY <1>2 DEF Relevant, Entry
  <1>4. Hits(b, slot) = {1}
    BY <1>1, <1>3 DEF Hits
  <1>5. Newest(Hits(b, slot)) = 1
    BY <1>4 DEF Newest
  <1> QED
    BY <1>1, <1>3, <1>4, <1>5 DEF Extracted, Entry

(* What the cache gives is faithful at the slot of the call, and every     *)
(* builtin is found in it.                                                 *)
LEMMA ExtractStep ==
  ASSUME IInv, Extract
  PROVE  IInv'
  <1>1. /\ pc = "scan" /\ pc' = "load" /\ Len(scanned) = Len(keys)
        /\ UNCHANGED <<features, entries, slot, keys, scanned, loading, loaded,
                       result, answers, before, calls>>
        /\ missing' = {k \in Wanted : Hits(k, slot) = {}}
        /\ batch' = [k \in {j \in Wanted : Hits(j, slot) # {}} |->
                       Extracted(k, slot)]
    BY DEF Extract, args
  <1>2. Wanted \subseteq Keys
    BY BuiltinKeys DEF Wanted, IInv, TypeOK
  <1>3. /\ DOMAIN batch' = {j \in Wanted : Hits(j, slot) # {}}
        /\ \A k \in DOMAIN batch' : batch'[k] = Extracted(k, slot)
    BY <1>1
  <1>4. DOMAIN loaded = {} /\ result = "none" /\ entries = before
    BY <1>1 DEF IInv, Phases
  <1>5. TypeOK'
    <2>1. \A k \in DOMAIN batch' : batch'[k] \in EntryType
      BY <1>2, <1>3, ExtractedFacts
    <2> QED
      BY <1>1, <1>2, <1>3, <1>4, <2>1 DEF IInv, TypeOK
  <1>6. BuiltinsCached'
    <2>1. \A b \in builtin_programs : Hits(b, slot) # {}
      BY BuiltinExtracted
    <2> QED
      BY <1>1, <2>1, BuiltinKeys DEF IInv, BuiltinsCached
  <1>7. Collected'
    <2>1. missing = Named(keys, scanned)
      BY <1>1 DEF IInv, Collected
    <2>2. missing' \union DOMAIN batch' = Wanted
      BY <1>1, <1>3
    <2> QED
      BY <1>1, <2>1, <2>2, BuiltinKeys DEF Collected, Wanted
  <1>8. BatchSays'
    BY <1>1, <1>2, <1>3, ExtractedFacts, BuiltinKeys DEF BatchSays
  <1>9. CacheFaithful' /\ LoadedFaithful'
    BY <1>1, FaithfulKept DEF IInv
  <1> QED
    BY <1>1, <1>4, <1>5, <1>6, <1>7, <1>8, <1>9
    DEF IInv, Phases, BatchComplete, FailureKeepsCache, PanicsOnChange

-----------------------------------------------------------------------------
(* The closure has answered a for key k. *)
LEMMA AnsweredFacts ==
  ASSUME IInv, NEW k \in Keys, NEW a, Answered(k, a)
  PROVE  /\ a \in Accounts \union {None} /\ a \in answers'[k]
         /\ answers' \in AnswerSets
         /\ \A j \in Keys : answers[j] \subseteq answers'[j]
  <1>1. answers \in AnswerSets
    BY DEF IInv
  <1>2. a \in Accounts \union {None}
    BY LoaderAssumption DEF Answered
  <1> QED
    BY <1>1, <1>2 DEF Answered, AnswerSets

(* load_program returns an entry that is what was fetched. *)
LEMMA LoadStep ==
  ASSUME IInv, pc \in {"load", "data"}, NEW k \in missing,
         NEW e \in EntryType, Load(k, e),
         answers' \in AnswerSets,
         \A j \in Keys : answers[j] \subseteq answers'[j],
         Faithful(Delay, answers', k, e),
         UNCHANGED <<features, slot, keys, scanned, missing, batch, before,
                     calls>>
  PROVE  IInv'
  <1>1. pc' = "load" /\ UNCHANGED <<entries, result>>
    BY DEF Load
  <1>2. /\ DOMAIN loaded' = DOMAIN loaded \union {k}
        /\ \A j \in DOMAIN loaded' : loaded'[j] = IF j = k THEN e ELSE loaded[j]
    BY DEF Load, With
  <1>3. TypeOK'
    <2>1. /\ DOMAIN loaded' \subseteq missing
          /\ \A j \in DOMAIN loaded' : loaded'[j] \in EntryType
      BY <1>2 DEF IInv, TypeOK
    <2> QED
      BY <1>1, <2>1 DEF IInv, TypeOK
  <1>4. CacheFaithful' /\ BatchSays'
    BY <1>1, FaithfulKept
  <1>5. LoadedFaithful'
    <2>1. \A j \in DOMAIN loaded : j \in Keys /\ Faithful(Delay, answers, j, loaded[j])
      BY DEF IInv, LoadedFaithful, TypeOK
    <2>2. \A j \in DOMAIN loaded : Faithful(Delay, answers', j, loaded[j])
      BY <2>1, FaithfulGrows DEF IInv
    <2>3. \A j \in DOMAIN loaded' : Faithful(Delay, answers', j, loaded'[j])
      BY <1>2, <2>2
    <2> QED
      BY <2>3, BuiltinKeys DEF LoadedFaithful
  <1>6. BuiltinsCached' /\ Collected'
    BY <1>1, BuiltinKeys DEF IInv, BuiltinsCached, Collected
  <1> QED
    BY <1>1, <1>3, <1>4, <1>5, <1>6
    DEF IInv, Phases, BatchComplete, FailureKeepsCache, PanicsOnChange

(* The library panics on an account that is no longer a program. *)
LEMMA PanicStep ==
  ASSUME IInv, pc = "load", NEW k \in missing, NEW a, a.owner \notin ProgramOwners,
         Panic, loading' = [key |-> k, account |-> a],
         answers' \in AnswerSets,
         \A j \in Keys : answers[j] \subseteq answers'[j],
         UNCHANGED <<features, slot, keys, scanned, missing, batch, before,
                     calls>>
  PROVE  IInv'
  <1>1. pc' = "dead" /\ result' = "panic" /\ UNCHANGED <<entries, loaded>>
    BY DEF Panic
  <1>2. TypeOK'
    BY <1>1 DEF IInv, TypeOK
  <1>3. CacheFaithful' /\ LoadedFaithful' /\ BatchSays'
    BY <1>1, FaithfulKept
  <1>4. k \in Named(keys, scanned)
    BY DEF IInv, BuiltinsCached, Collected
  <1>5. PanicsOnChange'
    BY <1>4 DEF PanicsOnChange, Named
  <1>6. BuiltinsCached'
    BY <1>1, BuiltinKeys DEF IInv, BuiltinsCached
  <1>7. FailureKeepsCache'
    BY <1>1 DEF IInv, Phases, FailureKeepsCache
  <1> QED
    BY <1>1, <1>2, <1>3, <1>5, <1>6, <1>7
    DEF IInv, Phases, Collected, BatchComplete

(* load_program_from_bytes of account x, when that decides what is said of *)
(* the program.                                                            *)
LEMMA FromBytesEntry ==
  ASSUME NEW x \in Accounts, NEW dep \in Nat, NEW delay \in BOOLEAN,
         NEW s0 \in Nat, NEW s \in Nat
  PROVE  /\ x.elf = BadElf =>
              /\ Tombstone(s0, "FailedVerification") \in EntryType
              /\ Says(Tombstone(s0, "FailedVerification"), s)
                   = Runs(x.elf, delay /\ s = dep)
         /\ x.elf # BadElf =>
              LET e == Entry("Loaded", dep, IF delay THEN dep + 1 ELSE dep, x.elf)
              IN  /\ e \in EntryType
                  /\ Says(e, s) = Runs(x.elf, delay /\ s = dep)
  <1>1. x.elf \in Elfs \union {BadElf}
    BY DEF Accounts
  <1>2. CASE x.elf = BadElf
    BY <1>2, TombstoneSays DEF Runs, Types
  <1>3. CASE x.elf # BadElf
    BY <1>1, <1>3, LoadedSays DEF Runs
  <1> QED
    BY <1>2, <1>3

(* The entry load_program_from_bytes makes of an ELF that verifies. *)
LEMMA LoadedFromBytes ==
  ASSUME NEW x \in Accounts, x.elf # BadElf, NEW dep \in Nat
  PROVE  LET e == Entry("Loaded", dep, VisibleFrom(dep), x.elf) IN
         /\ e \in EntryType
         /\ \A s \in Nat : Says(e, s) = Runs(x.elf, Delay /\ s = dep)
  <1>1. VisibleFrom(dep) = IF Delay THEN dep + 1 ELSE dep
    BY DEF VisibleFrom, Delay
  <1>2. Delay \in BOOLEAN
    BY DEF Delay
  <1>3. ASSUME NEW s \in Nat
        PROVE  LET e == Entry("Loaded", dep, IF Delay THEN dep + 1 ELSE dep, x.elf)
               IN  e \in EntryType /\ Says(e, s) = Runs(x.elf, Delay /\ s = dep)
    BY <1>2, FromBytesEntry
  <1> QED
    BY <1>1, <1>3

(* What is said of a program by the account fetched first. *)
LEMMA DeployedFacts ==
  ASSUME NEW a \in Accounts, NEW d, NEW delay, NEW s
  PROVE  /\ a.owner \in BpfLoaders =>
              Deployed(delay, a, d, s) = Runs(a.elf, delay /\ s = 0)
         /\ a.owner = LoaderV4 =>
              Deployed(delay, a, d, s)
                = Runs(IF a.state = "Deployed" THEN a.elf ELSE BadElf, s = a.slot)
         /\ a.owner \notin BpfLoaders \union {LoaderV4} /\ ~IsProgram(a) =>
              Deployed(delay, a, d, s) = Outcome("FailedVerification", None)
         /\ IsProgram(a) =>
              Deployed(delay, a, d, s) =
                IF d = None THEN Outcome("Closed", None)
                ELSE IF d.state # "ProgramData"
                  THEN Outcome("FailedVerification", None)
                ELSE Runs(d.elf, delay /\ s = d.slot)
  <1>1. a # None /\ LoaderV4 \notin BpfLoaders /\ Upgradeable \notin BpfLoaders
        /\ LoaderV4 # Upgradeable
    BY LoaderAssumption
  <1> QED
    BY <1>1 DEF Deployed, IsProgram

(* The first fetch of load_program: every entry it makes is faithful, and  *)
(* a panic needs a changed owner.                                          *)
LEMMA FetchProgramStep ==
  ASSUME IInv, NEW k \in missing, NEW a, FetchProgram(k, a)
  PROVE  IInv'
  <1>1. /\ pc = "load" /\ k \notin DOMAIN loaded /\ Answered(k, a)
        /\ loading' = [key |-> k, account |-> a]
        /\ UNCHANGED <<features, slot, keys, scanned, missing, batch, before,
                       calls>>
    BY DEF FetchProgram, args
  <1>2. k \in Keys /\ slot \in Nat /\ Delay \in BOOLEAN
    BY DEF IInv, TypeOK, Delay
  <1>3. /\ a \in Accounts \union {None} /\ a \in answers'[k]
        /\ answers' \in AnswerSets
        /\ \A j \in Keys : answers[j] \subseteq answers'[j]
    BY <1>1, <1>2, AnsweredFacts
  (* An entry that says what a does, if no other account matters. *)
  <1>4. ASSUME NEW e \in EntryType, Load(k, e), ~IsProgram(a),
               \A s \in Nat : Says(e, s) = Deployed(Delay, a, None, s)
        PROVE  IInv'
    <2>1. None \in DataAnswers(answers', a)
      BY <1>4 DEF DataAnswers
    <2>2. Faithful(Delay, answers', k, e)
      BY <1>3, <1>4, <2>1, FetchedIsFaithful
    <2> QED
      BY <1>1, <1>3, <1>4, <2>2, LoadStep
  <1>5. CASE a = None /\ Load(k, Tombstone(slot, "Closed"))
    <2>1. \A s \in Nat : Deployed(Delay, a, None, s) = Outcome("Closed", None)
      BY <1>5 DEF Deployed
    <2>2. ~IsProgram(a)
      BY <1>5 DEF IsProgram
    <2>3. /\ Tombstone(slot, "Closed") \in EntryType
          /\ \A s \in Nat :
               Says(Tombstone(slot, "Closed"), s) = Outcome("Closed", None)
      BY <1>2, TombstoneSays DEF Types
    <2> QED
      BY <1>4, <1>5, <2>1, <2>2, <2>3
  <1>6. CASE a # None /\ a.owner = LoaderV4 /\ FromV4(k, a)
    <2>1. a \in Accounts /\ a.slot \in Nat /\ a.elf \in Elfs \union {BadElf}
      BY <1>3, <1>6 DEF Accounts
    <2>2. ~IsProgram(a)
      BY <1>6, LoaderAssumption DEF IsProgram
    <2>3. \A s \in Nat :
            Deployed(Delay, a, None, s)
              = Runs(IF a.state = "Deployed" THEN a.elf ELSE BadElf, s = a.slot)
      BY <1>6, <2>1, DeployedFacts
    <2>4. CASE ~(a.state = "Deployed" /\ a.elf # BadElf)
      <3>1. PICK dep \in {slot, a.slot} :
              Load(k, Tombstone(dep, "FailedVerification"))
        BY <1>6, <2>4 DEF FromV4
      <3>2. \A s \in Nat :
              Deployed(Delay, a, None, s) = Outcome("FailedVerification", None)
        BY <2>3, <2>4 DEF Runs
      <3>3. /\ Tombstone(dep, "FailedVerification") \in EntryType
            /\ \A s \in Nat : Says(Tombstone(dep, "FailedVerification"), s)
                                = Outcome("FailedVerification", None)
        BY <1>2, <2>1, TombstoneSays DEF Types
      <3> QED
        BY <1>4, <2>2, <3>1, <3>2, <3>3
    <2>5. CASE a.state = "Deployed" /\ a.elf # BadElf
      <3> DEFINE e == Entry("Loaded", a.slot, a.slot + 1, a.elf)
      <3>1. Load(k, e)
        BY <1>6, <2>5 DEF FromV4
      <3>2. /\ e \in EntryType
            /\ \A s \in Nat :
                 Says(e, s) = IF s = a.slot THEN Outcome("DelayVisibility", None)
                              ELSE Outcome("Loaded", a.elf)
        BY <2>1, <2>5 DEF Says, Delayed, Entry, EntryType, Types
      <3> HIDE DEF e
      <3>3. \A s \in Nat : Says(e, s) = Deployed(Delay, a, None, s)
        BY <2>3, <2>5, <3>2 DEF Runs
      <3> QED
        BY <1>4, <2>2, <3>1, <3>2, <3>3
    <2> QED
      BY <2>4, <2>5
  <1>7. CASE /\ a # None /\ a.owner \notin {LoaderV4, Upgradeable}
             /\ FromBytes(k, a, a.owner, 0)
    <2>1. a \in Accounts
      BY <1>3, <1>7
    <2>2. ~IsProgram(a)
      BY <1>7 DEF IsProgram
    <2>3. a.owner \in ProgramOwners <=> a.owner \in BpfLoaders
      BY <1>7 DEF ProgramOwners
    <2>4. CASE a.elf = BadElf /\ Load(k, Tombstone(slot, "FailedVerification"))
      <3>1. \A s \in Nat :
              Deployed(Delay, a, None, s) = Outcome("FailedVerification", None)
        <4>1. CASE a.owner \in BpfLoaders
          BY <2>1, <2>4, <4>1, DeployedFacts DEF Runs
        <4>2. CASE a.owner \notin BpfLoaders
          BY <1>7, <2>1, <2>2, <4>2, DeployedFacts
        <4> QED
          BY <4>1, <4>2
      <3>2. /\ Tombstone(slot, "FailedVerification") \in EntryType
            /\ \A s \in Nat : Says(Tombstone(slot, "FailedVerification"), s)
                                = Outcome("FailedVerification", None)
        BY <1>2, TombstoneSays DEF Types
      <3> QED
        BY <1>4, <2>2, <2>4, <3>1, <3>2
    <2>5. CASE /\ a.elf # BadElf /\ a.owner \in ProgramOwners
               /\ Load(k, Entry("Loaded", 0, VisibleFrom(0), a.elf))
      <3> DEFINE e == Entry("Loaded", 0, VisibleFrom(0), a.elf)
      <3>1. /\ e \in EntryType
            /\ \A s \in Nat : Says(e, s) = Runs(a.elf, Delay /\ s = 0)
        BY <1>2, <2>1, <2>5, LoadedFromBytes
      <3>2. \A s \in Nat :
              Deployed(Delay, a, None, s) = Runs(a.elf, Delay /\ s = 0)
        BY <2>1, <2>3, <2>5, DeployedFacts
      <3> HIDE DEF e
      <3> QED
        BY <1>4, <2>2, <2>5, <3>1, <3>2 DEF e
    <2>6. CASE a.owner \notin ProgramOwners /\ Panic
      BY <1>1, <1>3, <2>6, PanicStep
    <2> QED
      BY <1>7, <2>4, <2>5, <2>6 DEF FromBytes
  <1>8. CASE IsProgram(a) /\ pc' = "data" /\ UNCHANGED <<entries, loaded, result>>
    <2>1. TypeOK'
      BY <1>1, <1>8 DEF IInv, TypeOK
    <2>2. CacheFaithful' /\ LoadedFaithful' /\ BatchSays'
      BY <1>1, <1>3, <1>8, FaithfulKept
    <2>3. Phases'
      BY <1>1, <1>3, <1>8 DEF IInv, Phases
    <2>4. BuiltinsCached' /\ Collected'
      BY <1>1, <1>8, BuiltinKeys DEF IInv, BuiltinsCached, Collected
    <2> QED
      BY <1>1, <1>3, <1>8, <2>1, <2>2, <2>3, <2>4
      DEF IInv, Phases, BatchComplete, FailureKeepsCache, PanicsOnChange
  <1>9. CASE /\ a # None /\ a.owner = Upgradeable /\ ~IsProgram(a)
             /\ Load(k, Tombstone(slot, "FailedVerification"))
    <2>1. a \in Accounts /\ a.owner \notin BpfLoaders \union {LoaderV4}
      BY <1>3, <1>9, LoaderAssumption
    <2>2. \A s \in Nat :
            Deployed(Delay, a, None, s) = Outcome("FailedVerification", None)
      BY <1>9, <2>1, DeployedFacts
    <2>3. /\ Tombstone(slot, "FailedVerification") \in EntryType
          /\ \A s \in Nat : Says(Tombstone(slot, "FailedVerification"), s)
                              = Outcome("FailedVerification", None)
      BY <1>2, TombstoneSays DEF Types
    <2> QED
      BY <1>4, <1>9, <2>2, <2>3
  <1> QED
    BY <1>5, <1>6, <1>7, <1>8, <1>9 DEF FetchProgram

(* The second fetch: the entry is made from the program's account and that *)
(* of its data.                                                            *)
LEMMA FetchProgramDataStep ==
  ASSUME IInv, NEW d, FetchProgramData(d)
  PROVE  IInv'
  <1> DEFINE k == loading.key
             a == loading.account
  <1>1. /\ pc = "data" /\ Answered(a.target, d)
        /\ UNCHANGED <<features, slot, keys, scanned, missing, loading, batch,
                       before, calls>>
    BY DEF FetchProgramData, args
  <1>2. k \in missing /\ IsProgram(a) /\ a \in answers[k]
    BY <1>1 DEF IInv, Phases
  <1>3. k \in Keys /\ slot \in Nat /\ Delay \in BOOLEAN
    BY <1>2 DEF IInv, TypeOK, Delay
  <1>4. a \in Accounts /\ a.target \in Keys /\ a.owner = Upgradeable
    <2>1. a \in Accounts
      BY <1>2, <1>3 DEF IInv, AnswerSets, IsProgram
    <2> QED
      BY <1>2, <2>1 DEF Accounts, IsProgram
  <1> HIDE DEF k, a
  <1>5. /\ d \in Accounts \union {None} /\ d \in answers'[a.target]
        /\ answers' \in AnswerSets
        /\ \A j \in Keys : answers[j] \subseteq answers'[j]
    BY <1>1, <1>4, AnsweredFacts
  <1>6. a \in answers'[k] /\ d \in DataAnswers(answers', a)
    BY <1>2, <1>3, <1>5 DEF DataAnswers
  <1>7. \A s \in Nat :
          Deployed(Delay, a, d, s) =
            IF d = None THEN Outcome("Closed", None)
            ELSE IF d.state # "ProgramData"
              THEN Outcome("FailedVerification", None)
            ELSE Runs(d.elf, Delay /\ s = d.slot)
    BY <1>2, <1>4, DeployedFacts
  <1>8. ASSUME NEW e \in EntryType, Load(k, e),
               \A s \in Nat : Says(e, s) = Deployed(Delay, a, d, s)
        PROVE  IInv'
    <2>1. Faithful(Delay, answers', k, e)
      BY <1>6, <1>8, FetchedIsFaithful
    <2> QED
      BY <1>1, <1>2, <1>5, <1>8, <2>1, LoadStep
  <1>9. CASE d = None /\ Load(k, Tombstone(slot, "Closed"))
    <2>1. /\ Tombstone(slot, "Closed") \in EntryType
          /\ \A s \in Nat :
               Says(Tombstone(slot, "Closed"), s) = Outcome("Closed", None)
      BY <1>3, TombstoneSays DEF Types
    <2> QED
      BY <1>7, <1>8, <1>9, <2>1
  <1>10. CASE /\ d # None /\ d.state # "ProgramData"
              /\ Load(k, Tombstone(slot, "FailedVerification"))
    <2>1. /\ Tombstone(slot, "FailedVerification") \in EntryType
          /\ \A s \in Nat : Says(Tombstone(slot, "FailedVerification"), s)
                              = Outcome("FailedVerification", None)
      BY <1>3, TombstoneSays DEF Types
    <2> QED
      BY <1>7, <1>8, <1>10, <2>1
  <1>11. CASE /\ d # None /\ d.state = "ProgramData"
              /\ FromBytes(k, d, a.owner, d.slot)
    <2>1. d \in Accounts /\ d.slot \in Nat
      BY <1>5, <1>11 DEF Accounts
    <2>2. \A s \in Nat :
            Deployed(Delay, a, d, s) = Runs(d.elf, Delay /\ s = d.slot)
      BY <1>7, <1>11
    <2>3. CASE d.elf = BadElf /\ Load(k, Tombstone(slot, "FailedVerification"))
      <3>1. /\ Tombstone(slot, "FailedVerification") \in EntryType
            /\ \A s \in Nat : Says(Tombstone(slot, "FailedVerification"), s)
                                = Runs(d.elf, Delay /\ s = d.slot)
        BY <1>3, <2>1, <2>3, FromBytesEntry
      <3> QED
        BY <1>8, <2>2, <2>3, <3>1
    <2>4. CASE /\ d.elf # BadElf
               /\ Load(k, Entry("Loaded", d.slot, VisibleFrom(d.slot), d.elf))
      <3> DEFINE e == Entry("Loaded", d.slot, VisibleFrom(d.slot), d.elf)
      <3>1. /\ e \in EntryType
            /\ \A s \in Nat : Says(e, s) = Runs(d.elf, Delay /\ s = d.slot)
        BY <1>3, <2>1, <2>4, LoadedFromBytes
      <3> HIDE DEF e
      <3> QED
        BY <1>8, <2>2, <2>4, <3>1 DEF e
    <2>5. a.owner \in ProgramOwners
      BY <1>4 DEF ProgramOwners
    <2> QED
      BY <1>11, <2>3, <2>4, <2>5 DEF FromBytes
  <1> QED
    BY <1>9, <1>10, <1>11 DEF FetchProgramData, k, a

-----------------------------------------------------------------------------
(* The loaded entries go into cache and batch, or an earlier entry,        *)
(* faithful as well, in their place.                                       *)
LEMMA ReplenishStep ==
  ASSUME IInv, Replenish
  PROVE  IInv'
  <1>1. /\ pc = "load" /\ missing = DOMAIN loaded /\ pc' = "idle"
        /\ result' = "ok"
        /\ UNCHANGED <<features, slot, keys, scanned, missing, loading, loaded,
                       answers, before, calls>>
    BY DEF Replenish, Return, args
  <1>2. /\ entries' = [k \in Keys |-> IF k \in missing
                                        THEN Replenished(entries[k], loaded[k])
                                        ELSE entries[k]]
        /\ DOMAIN batch' = DOMAIN batch \union missing
        /\ \A k \in DOMAIN batch' :
             batch'[k] = IF k \in missing THEN Deduplicated(entries[k], loaded[k])
                         ELSE batch[k]
    BY DEF Replenish
  <1>3. missing \subseteq Keys /\ missing \cap builtin_programs = {}
    BY <1>1 DEF IInv, TypeOK, BuiltinsCached
  <1>4. ASSUME NEW k \in missing
        PROVE  /\ k \in Keys /\ k \notin builtin_programs
               /\ entries[k] \in Seq(EntryType) /\ Sorted(entries[k])
               /\ loaded[k] \in EntryType
               /\ Faithful(Delay, answers, k, loaded[k])
               /\ \A i \in DOMAIN entries[k] :
                    Faithful(Delay, answers, k, entries[k][i])
    <2>1. k \in Keys /\ k \notin builtin_programs /\ k \in DOMAIN loaded
      BY <1>1, <1>3
    <2> QED
      BY <2>1, CacheTypes DEF IInv, TypeOK, LoadedFaithful, CacheFaithful
  <1>5. ASSUME NEW k \in Keys
        PROVE  entries'[k] \in Seq(EntryType) /\ Sorted(entries'[k])
    <2>1. CASE k \in missing
      BY <1>2, <1>4, <2>1, ReplenishedFacts
    <2>2. CASE k \notin missing
      BY <1>2, <2>2, CacheTypes DEF IInv
    <2> QED
      BY <2>1, <2>2
  <1>6. ASSUME NEW k \in DOMAIN batch'
        PROVE  /\ batch'[k] \in EntryType
               /\ k \notin builtin_programs =>
                    FaithfulAt(Delay, answers, k, batch'[k], slot)
    <2>1. CASE k \in missing
      <3>1. slot \in Nat
        BY DEF IInv, TypeOK
      <3>2. batch'[k] = Deduplicated(entries[k], loaded[k])
        BY <1>2, <2>1
      <3>3. batch'[k] \in EntryType
        BY <1>4, <2>1, <3>2, DeduplicatedFacts
      <3>4. Faithful(Delay, answers, k, batch'[k])
        BY <1>4, <2>1, <3>2, DeduplicatedFacts
      <3> QED
        BY <3>1, <3>3, <3>4, FaithfulIsFaithfulAt
    <2>2. CASE k \notin missing
      BY <1>2, <2>2 DEF IInv, TypeOK, BatchSays
    <2> QED
      BY <2>1, <2>2
  <1>7. TypeOK'
    <2>1. entries' \in [Keys -> Seq(EntryType)]
      BY <1>2, <1>5
    <2>2. \A k \in Keys : \A i, j \in DOMAIN entries'[k] :
            i < j => entries'[k][i].eff <= entries'[k][j].eff
      BY <1>5 DEF Sorted
    <2>3. DOMAIN batch' \subseteq Keys
      BY <1>2, <1>3 DEF IInv, TypeOK
    <2> QED
      BY <1>1, <1>6, <2>1, <2>2, <2>3 DEF IInv, TypeOK
  <1>8. BuiltinsCached'
    BY <1>1, <1>2, <1>3, BuiltinKeys DEF IInv, BuiltinsCached
  <1>9. CacheFaithful'
    <2>1. ASSUME NEW k \in Keys \ builtin_programs, NEW i \in DOMAIN entries'[k]
          PROVE  Faithful(Delay, answers, k, entries'[k][i])
      <3>1. CASE k \in missing
        <4>1. entries'[k] = Replenished(entries[k], loaded[k])
          BY <1>2, <3>1
        <4>2. \/ entries'[k][i] = loaded[k]
              \/ \E j \in DOMAIN entries[k] : entries'[k][i] = entries[k][j]
          BY <1>4, <2>1, <3>1, <4>1, ReplenishedFacts
        <4> QED
          BY <1>4, <3>1, <4>2
      <3>2. CASE k \notin missing
        BY <1>2, <2>1, <3>2 DEF IInv, CacheFaithful
      <3> QED
        BY <3>1, <3>2
    <2> QED
      BY <1>1, <2>1, BuiltinKeys DEF CacheFaithful
  <1>10. BatchSays'
    BY <1>1, <1>6, BuiltinKeys DEF BatchSays
  <1>11. LoadedFaithful'
    BY <1>1, FaithfulKept DEF IInv
  <1>12. BatchComplete'
    <2>1. /\ Len(scanned) = Len(keys)
          /\ missing \union DOMAIN batch
               = Named(keys, scanned) \union builtin_programs
      BY <1>1 DEF IInv, Collected
    <2>2. DOMAIN scanned = DOMAIN keys
      BY <2>1, LenProperties DEF IInv, TypeOK
    <2>3. DOMAIN batch' = builtin_programs \union Named(keys, scanned)
      BY <1>2, <2>1
    <2> QED
      BY <1>1, <2>2, <2>3, BuiltinKeys DEF BatchComplete, Named
  <1> QED
    BY <1>1, <1>7, <1>8, <1>9, <1>10, <1>11, <1>12
    DEF IInv, Phases, Collected, FailureKeepsCache, PanicsOnChange

(* The invariant is of the variables alone. *)
LEMMA StutterStep ==
  ASSUME IInv, UNCHANGED vars
  PROVE  IInv'
  <1>1. TypeOK' /\ Phases'
    BY DEF vars, IInv, TypeOK, Phases
  <1>2. CacheFaithful' /\ LoadedFaithful' /\ BatchSays'
    BY FaithfulKept DEF vars, IInv
  <1>3. BuiltinsCached' /\ Collected' /\ BatchComplete'
    BY BuiltinKeys DEF vars, IInv, BuiltinsCached, Collected, BatchComplete
  <1>4. FailureKeepsCache' /\ PanicsOnChange'
    BY DEF vars, IInv, FailureKeepsCache, PanicsOnChange
  <1> QED
    BY <1>1, <1>2, <1>3, <1>4 DEF vars, IInv

(* Every step of a call, and every call, keeps the invariant. *)
LEMMA NextInvariant == IInv /\ [Next]_vars => IInv'
  BY CallStep, ScanStep, ExtractStep, FetchProgramStep, FetchProgramDataStep,
     ReplenishStep, StutterStep
  DEF Next, Step, Stopped

(* IInv holds in every state. *)
LEMMA Invariance == Spec => []IInv
  BY InitInvariant, NextInvariant, PTL DEF Spec

-----------------------------------------------------------------------------
(* The cache and the batch keep their types, and every program's entries   *)
(* the order of their effective slots, on which `extract' rests.           *)
THEOREM CacheTypeCorrect == Spec => []TypeOK
  <1>1. IInv => TypeOK
    BY DEF IInv
  <1> QED
    BY <1>1, Invariance, PTL

(* A call that succeeds gives the run a batch with exactly the programs    *)
(* that the messages name and the enabled builtins.                        *)
THEOREM CacheBatchComplete == Spec => []BatchComplete
  <1>1. IInv => BatchComplete
    BY DEF IInv
  <1> QED
    BY <1>1, Invariance, PTL

(* The invariant says of the batch what BatchFaithful does: an entry that  *)
(* is found says at the call's slot what the accounts do.                  *)
LEMMA BatchIsFaithful == IInv => BatchFaithful
  <1> SUFFICES ASSUME IInv,
                      NEW k \in DOMAIN batch \ builtin_programs
               PROVE  \E a \in answers[k] : \E d \in DataAnswers(answers, a) :
                        Outcome(Find(k).type, Find(k).elf)
                          = Deployed(DelayVisibility \in features, a, d, slot)
    BY DEF BatchFaithful
  <1>1. FaithfulAt(Delay, answers, k, batch[k], slot)
    BY DEF IInv, BatchSays
  <1>2. Outcome(Find(k).type, Find(k).elf) = Says(batch[k], slot)
    BY DEF Find, Says, Tombstone, Entry
  <1> QED
    BY <1>1, <1>2 DEF FaithfulAt, Delay

(* The batch says of every program, at the slot of the call, what some     *)
(* accounts fetched for it say: no entry of the cache, whichever call made *)
(* it and at whatever slot, makes a program visible too early, hides it,   *)
(* or passes it off for another.                                           *)
THEOREM CacheBatchFaithful == Spec => []BatchFaithful
  BY BatchIsFaithful, Invariance, PTL

(* A call that fails leaves the cache to the next one as it was. *)
THEOREM CacheFailureKeepsCache == Spec => []FailureKeepsCache
  <1>1. IInv => FailureKeepsCache
    BY DEF IInv
  <1> QED
    BY <1>1, Invariance, PTL

(* The library panics only on an account that had a loader for its owner   *)
(* when the messages were scanned and has none when it is loaded.          *)
THEOREM CachePanicsOnChange == Spec => []PanicsOnChange
  <1>1. IInv => PanicsOnChange
    BY DEF IInv
  <1> QED
    BY <1>1, Invariance, PTL
-----------------------------------------------------------------------------
(* The steps left: one for each key to look at, two for each program to    *)
(* load, and those that extract and replenish.                             *)
Unloaded == missing \ DOMAIN loaded
Variant ==
  CASE pc = "scan" -> (Len(keys) - Len(scanned)) + 2 * Len(keys) + 2
    [] pc = "load" -> 2 * Cardinality(Unloaded) + 1
    [] pc = "data" -> 2 * Cardinality(Unloaded)
    [] OTHER -> 0
Less == Variant \in Nat /\ Variant' \in 0..(Variant - 1)
Progress == [][Step => Less]_vars

(* There are no more programs than keys to load. *)
LEMMA FewPrograms ==
  ASSUME NEW ks \in Seq(Keys), NEW S, \A k \in S : \E i \in DOMAIN ks : ks[i] = k
  PROVE  IsFiniteSet(S) /\ Cardinality(S) \in Nat /\ Cardinality(S) <= Len(ks)
  <1> DEFINE n == Len(ks)
             R == {ks[i] : i \in 1..n}
  <1>1. n \in Nat /\ DOMAIN ks = 1..n /\ ks \in [1..n -> R]
    BY LenProperties
  <1>2. ks \in Surjection(1..n, R)
    BY <1>1 DEF Surjection
  <1>3. IsFiniteSet(1..n) /\ Cardinality(1..n) = n
    BY <1>1, FS_Interval
  <1>4. IsFiniteSet(R) /\ Cardinality(R) <= n
    BY <1>2, <1>3, FS_Surjection
  <1>5. S \in SUBSET R
    BY <1>1
  <1>6. IsFiniteSet(S) /\ Cardinality(S) <= Cardinality(R)
    BY <1>4, <1>5, FS_Subset
  <1>7. Cardinality(S) \in Nat /\ Cardinality(R) \in Nat
    BY <1>4, <1>6, FS_CardinalityType
  <1> QED
    BY <1>1, <1>4, <1>6, <1>7

(* What is missing was named by a message. *)
LEMMA UnloadedFinite ==
  ASSUME IInv, pc \in {"load", "data"}
  PROVE  IsFiniteSet(Unloaded) /\ Cardinality(Unloaded) \in Nat
         /\ Cardinality(Unloaded) <= Len(keys)
  <1>1. keys \in Seq(Keys) /\ scanned \in Seq(Accounts \union {None})
    BY DEF IInv, TypeOK
  <1>2. Len(scanned) = Len(keys) /\ DOMAIN scanned = DOMAIN keys
    BY <1>1, LenProperties DEF IInv, Collected
  <1>3. Unloaded \subseteq Named(keys, scanned)
    BY DEF IInv, Collected, BuiltinsCached, Unloaded
  <1>4. \A k \in Unloaded : \E i \in DOMAIN keys : keys[i] = k
    BY <1>2, <1>3 DEF Named
  <1> QED
    BY <1>1, <1>4, FewPrograms

(* A program that is loaded is one less to load. *)
LEMMA LoadProgress ==
  ASSUME IInv, pc \in {"load", "data"}, NEW k \in Unloaded, NEW e,
         UNCHANGED missing, loaded' = With(loaded, k, e), pc' = "load"
  PROVE  Less
  <1>1. Unloaded' = Unloaded \ {k}
    BY DEF Unloaded, With
  <1>2. /\ IsFiniteSet(Unloaded) /\ Cardinality(Unloaded) \in Nat
        /\ Cardinality(Unloaded \ {k}) = Cardinality(Unloaded) - 1
    BY UnloadedFinite, FS_RemoveElement
  <1>3. Cardinality(Unloaded \ {k}) \in Nat
    BY <1>2, FS_RemoveElement, FS_CardinalityType
  <1>4. Variant' = 2 * (Cardinality(Unloaded) - 1) + 1
    BY <1>1, <1>2 DEF Variant
  <1>5. Variant \in {2 * Cardinality(Unloaded), 2 * Cardinality(Unloaded) + 1}
    BY DEF Variant
  <1> QED
    BY <1>2, <1>3, <1>4, <1>5 DEF Less

(* A call ends the search, or the process. *)
LEMMA EndProgress ==
  ASSUME IInv, pc \in {"scan", "load"} \/ (pc = "data" /\ Unloaded # {}),
         pc' \in {"idle", "dead"}
  PROVE  Less
  <1>1. Variant' = 0
    BY DEF Variant
  <1>2. CASE pc = "scan"
    <2>1. Len(keys) \in Nat /\ Len(scanned) \in Nat /\ Len(scanned) <= Len(keys)
      BY <1>2, LenProperties DEF IInv, TypeOK, Collected
    <2> QED
      BY <1>1, <1>2, <2>1 DEF Less, Variant
  <1>3. CASE pc = "load"
    BY <1>1, <1>3, UnloadedFinite DEF Less, Variant
  <1>4. CASE pc = "data" /\ Unloaded # {}
    <2>1. Cardinality(Unloaded) \in Nat /\ Cardinality(Unloaded) > 0
      BY <1>4, UnloadedFinite, FS_EmptySet
    <2> QED
      BY <1>1, <1>4, <2>1 DEF Less, Variant
  <1> QED
    BY <1>2, <1>3, <1>4

(* Every step of a call brings its return nearer. *)
LEMMA StepProgress ==
  ASSUME IInv, Step
  PROVE  Less
  <1>1. ASSUME NEW a, Scan(a)
        PROVE  Less
    <2>1. pc = "scan" /\ Len(scanned) < Len(keys) /\ UNCHANGED keys
            /\ scanned' = Append(scanned, a)
            /\ (pc' = "idle" \/ UNCHANGED pc)
      BY <1>1 DEF Scan, Return, args
    <2>2. Len(keys) \in Nat /\ Len(scanned) \in Nat
            /\ Len(scanned') = Len(scanned) + 1
      BY <2>1, LenProperties DEF IInv, TypeOK
    <2>3. CASE pc' = "idle"
      BY <2>1, <2>3, EndProgress
    <2>4. CASE UNCHANGED pc
      <3>1. /\ Variant = (Len(keys) - Len(scanned)) + 2 * Len(keys) + 2
            /\ Variant' = (Len(keys) - (Len(scanned) + 1)) + 2 * Len(keys) + 2
        BY <2>1, <2>2, <2>4 DEF Variant
      <3> QED
        BY <2>1, <2>2, <3>1 DEF Less
    <2> QED
      BY <2>1, <2>3, <2>4
  <1>2. CASE Extract
    <2>1. pc = "scan" /\ pc' = "load" /\ Len(scanned) = Len(keys)
            /\ UNCHANGED keys
      BY <1>2 DEF Extract, args
    <2>2. Unloaded' \subseteq Named(keys, scanned)
      BY <1>2, <2>1, BuiltinExtracted
      DEF Extract, Wanted, Unloaded, IInv, Collected
    <2>3. Cardinality(Unloaded)' \in Nat /\ Cardinality(Unloaded)' <= Len(keys)
      <3>1. /\ keys \in Seq(Keys) /\ scanned \in Seq(Accounts \union {None})
            /\ DOMAIN scanned = DOMAIN keys
        BY <2>1, LenProperties DEF IInv, TypeOK
      <3>2. \A k \in Unloaded' : \E i \in DOMAIN keys : keys[i] = k
        BY <2>2, <3>1 DEF Named
      <3> QED
        BY <3>1, <3>2, FewPrograms
    <2>4. Len(keys) \in Nat
      BY LenProperties DEF IInv, TypeOK
    <2>5. /\ Variant = (Len(keys) - Len(keys)) + 2 * Len(keys) + 2
          /\ Variant' = 2 * Cardinality(Unloaded)' + 1
      BY <2>1 DEF Variant
    <2> QED
      BY <2>3, <2>4, <2>5 DEF Less
  <1>3. ASSUME NEW k \in missing, NEW a, FetchProgram(k, a)
        PROVE  Less
    <2>1. pc = "load" /\ k \in Unloaded /\ UNCHANGED missing
      BY <1>3 DEF FetchProgram, Unloaded
    <2>2. ASSUME NEW e, Load(k, e)
          PROVE  Less
      BY <2>1, <2>2, LoadProgress DEF Load
    <2>3. CASE Panic
      BY <2>1, <2>3, EndProgress DEF Panic
    <2>4. CASE pc' = "data" /\ UNCHANGED loaded
      <3>1. Unloaded' = Unloaded
        BY <2>1, <2>4 DEF Unloaded
      <3>2. /\ Variant = 2 * Cardinality(Unloaded) + 1
            /\ Variant' = 2 * Cardinality(Unloaded)
        BY <2>1, <2>4, <3>1 DEF Variant
      <3> QED
        BY <2>1, <3>2, UnloadedFinite DEF Less
    <2> QED
      BY <1>3, <2>2, <2>3, <2>4 DEF FetchProgram, FromV4, FromBytes
  <1>4. ASSUME NEW d, FetchProgramData(d)
        PROVE  Less
    <2>1. pc = "data" /\ loading.key \in Unloaded /\ UNCHANGED missing
      BY <1>4 DEF FetchProgramData, IInv, Phases, Unloaded
    <2>2. ASSUME NEW e, Load(loading.key, e)
          PROVE  Less
      BY <2>1, <2>2, LoadProgress DEF Load
    <2>3. CASE Panic
      BY <2>1, <2>3, EndProgress DEF Panic
    <2> QED
      BY <1>4, <2>2, <2>3 DEF FetchProgramData, FromBytes
  <1>5. CASE Replenish
    BY <1>5, EndProgress DEF Replenish, Return
  <1> QED
    BY <1>1, <1>2, <1>3, <1>4, <1>5 DEF Step

(* A call takes at most three steps for every account key, and two more,   *)
(* whatever the closure answers: no program is loaded twice, and the       *)
(* builtins never are.                                                     *)
THEOREM CacheProgress == Spec => Progress
  <1>1. IInv /\ [Next]_vars => [Step => Less]_vars
    BY StepProgress
  <1> QED
    BY <1>1, Invariance, PTL DEF Spec, Progress
=============================================================================
