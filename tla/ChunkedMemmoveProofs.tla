------------------------ MODULE ChunkedMemmoveProofs ------------------------
(***************************************************************************)
(* memcpy and the region-by-region memmove implement Memmove, whatever the *)
(* mapping, the call and the contents of the memory.                       *)
(***************************************************************************)
EXTENDS ChunkedMemmove, TLAPS

(* Copying nothing changes nothing. *)
LEMMA CopyNothing ==
  ASSUME NEW m, m = [a \in Addresses |-> m[a]],
         NEW d \in Nat, NEW s \in Nat
  PROVE  Copy(m, d, s, 0) = m
<1>1. \A a \in Addresses : ~(d <= a /\ a < d + 0)
  BY MappingsAssumption DEF Addresses
<1>2. Copy(m, d, s, 0) = [a \in Addresses |-> m[a]]
  BY <1>1 DEF Copy
<1> QED  BY <1>2

(* A forward walk whose destination does not start inside the source: the  *)
(* next len bytes of the source are still as they were.                    *)
LEMMA CopyForward ==
  ASSUME NEW b, NEW D \in U64Values, NEW S \in U64Values, NEW N \in Nat,
         D + N <= U64_MAX, S + N <= U64_MAX,
         ~Reverse(D, S, N),
         NEW k \in Nat, NEW len \in Nat, k + len <= N
  PROVE  Copy(Copy(b, D, S, k), D + k, S + k, len) = Copy(b, D, S, k + len)
<1> DEFINE m == Copy(b, D, S, k)
<1>0. U64_MAX \in Nat  BY MappingsAssumption
<1>1. D < S \/ D >= S + N
  BY <1>0 DEF Reverse, WrappingSub, U64Values
<1>2. ASSUME NEW a \in Addresses, D + k <= a, a < D + k + len
      PROVE  /\ S + k + (a - (D + k)) = S + (a - D)
             /\ S + (a - D) \in Addresses
             /\ ~(D <= S + (a - D) /\ S + (a - D) < D + k)
  BY <1>0, <1>1, <1>2 DEF Addresses, U64Values
<1>3. \A a \in Addresses : m[a] = IF D <= a /\ a < D + k
                                    THEN b[S + (a - D)] ELSE b[a]
  BY DEF Copy
<1>4. ASSUME NEW a \in Addresses
      PROVE  Copy(m, D + k, S + k, len)[a] = Copy(b, D, S, k + len)[a]
  <2>1. Copy(m, D + k, S + k, len)[a] =
          IF D + k <= a /\ a < D + k + len
            THEN m[S + k + (a - (D + k))] ELSE m[a]
    BY DEF Copy
  <2>2. Copy(b, D, S, k + len)[a] =
          IF D <= a /\ a < D + (k + len) THEN b[S + (a - D)] ELSE b[a]
    BY DEF Copy
  <2>3. CASE D + k <= a /\ a < D + k + len
    <3>1. m[S + k + (a - (D + k))] = b[S + (a - D)]
      BY <1>2, <1>3, <2>3
    <3>2. D <= a /\ a < D + (k + len)
      BY <1>0, <2>3 DEF Addresses, U64Values
    <3> QED  BY <2>1, <2>2, <2>3, <3>1, <3>2
  <2>4. CASE ~(D + k <= a /\ a < D + k + len)
    <3>1. (D <= a /\ a < D + (k + len)) <=> (D <= a /\ a < D + k)
      BY <1>0, <2>4 DEF Addresses, U64Values
    <3> QED  BY <1>3, <2>1, <2>2, <2>4, <3>1
  <2> QED  BY <2>3, <2>4
<1>5. /\ Copy(m, D + k, S + k, len) =
           [a \in Addresses |-> Copy(m, D + k, S + k, len)[a]]
      /\ Copy(b, D, S, k + len) =
           [a \in Addresses |-> Copy(b, D, S, k + len)[a]]
  BY DEF Copy
<1> HIDE DEF m
<1>6. Copy(m, D + k, S + k, len) = Copy(b, D, S, k + len)
  BY <1>4, <1>5, Zenon
<1> QED  BY <1>6 DEF m

(* A walk from the end, with the destination starting inside the source. *)
LEMMA CopyBackward ==
  ASSUME NEW b, NEW D \in U64Values, NEW S \in U64Values, NEW N \in Nat,
         D + N <= U64_MAX, S + N <= U64_MAX,
         Reverse(D, S, N),
         NEW left \in Nat, NEW len \in Nat, left <= N, len <= left
  PROVE  Copy(Copy(b, D + left, S + left, N - left),
              D + left - len, S + left - len, len)
           = Copy(b, D + (left - len), S + (left - len), N - (left - len))
<1> DEFINE m == Copy(b, D + left, S + left, N - left)
           d == D + left - len
           s == S + left - len
           k == N - (left - len)
<1>0. U64_MAX \in Nat  BY MappingsAssumption
<1>1. D >= S
  BY <1>0 DEF Reverse, WrappingSub, U64Values
<1>2. /\ d \in Nat /\ s \in Nat /\ k \in Nat
      /\ d = D + (left - len) /\ s = S + (left - len)
      /\ d + len = D + left
      /\ d + k = D + N
      /\ D + left + (N - left) = D + N
  BY <1>0 DEF U64Values
<1>3. \A a \in Addresses :
         m[a] = IF D + left <= a /\ a < D + left + (N - left)
                  THEN b[S + left + (a - (D + left))] ELSE b[a]
  BY DEF Copy
<1>4. ASSUME NEW a \in Addresses, d <= a, a < D + left
      PROVE  /\ s + (a - d) \in Addresses
             /\ ~(D + left <= s + (a - d))
  BY <1>0, <1>1, <1>4 DEF Addresses, U64Values
<1>5. \A a \in Addresses : S + left + (a - (D + left)) = s + (a - d)
  BY <1>0 DEF Addresses, U64Values
<1>6. ASSUME NEW a \in Addresses
      PROVE  Copy(m, d, s, len)[a] = Copy(b, d, s, k)[a]
  <2>1. Copy(m, d, s, len)[a] =
          IF d <= a /\ a < d + len THEN m[s + (a - d)] ELSE m[a]
    BY DEF Copy
  <2>2. Copy(b, d, s, k)[a] =
          IF d <= a /\ a < d + k THEN b[s + (a - d)] ELSE b[a]
    BY DEF Copy
  <2>0. a \in Nat /\ d \in Nat /\ D + N \in Nat /\ D + left \in Nat
          /\ d <= D + left /\ D + left <= D + N
    BY <1>0, <1>2 DEF Addresses, U64Values
  <2>3. CASE d <= a /\ a < D + left
    <3>1. m[s + (a - d)] = b[s + (a - d)]
      BY <1>3, <1>4, <2>3
    <3>2. a < D + N  BY <2>0, <2>3
    <3> HIDE DEF m, d, s, k
    <3> QED  BY <1>2, <2>1, <2>2, <2>3, <3>1, <3>2
  <2>4. CASE D + left <= a /\ a < D + N
    <3>1. m[a] = b[s + (a - d)]
      BY <1>2, <1>3, <1>5, <2>4
    <3>2. d <= a /\ ~(a < D + left)  BY <2>0, <2>4
    <3> HIDE DEF m, d, s, k
    <3> QED  BY <1>2, <2>1, <2>2, <2>4, <3>1, <3>2
  <2>5. CASE ~(d <= a /\ a < D + N)
    <3>1. m[a] = b[a]
      BY <1>2, <1>3, <2>0, <2>5
    <3>2. ~(d <= a /\ a < D + left)  BY <2>0, <2>5
    <3> HIDE DEF m, d, s, k
    <3> QED  BY <1>2, <2>1, <2>2, <2>5, <3>1, <3>2
  <2>6. \/ d <= a /\ a < D + left
        \/ D + left <= a /\ a < D + N
        \/ ~(d <= a /\ a < D + N)
    <3> HIDE DEF d
    <3> QED  BY <2>0
  <2> QED  BY <2>3, <2>4, <2>5, <2>6
<1>7. /\ Copy(m, d, s, len) = [a \in Addresses |-> Copy(m, d, s, len)[a]]
      /\ Copy(b, d, s, k) = [a \in Addresses |-> Copy(b, d, s, k)[a]]
  BY DEF Copy
<1> HIDE DEF m, d, s, k
<1>8. Copy(m, d, s, len) = Copy(b, d, s, k)
  BY <1>6, <1>7, Zenon
<1> QED  BY <1>2, <1>8 DEF m, d, s, k

---------------------------------------------------------------------------

(* One side of the walk over base .. base + n - 1: the iterator's range    *)
(* and the current chunk are neighbours, the chunk lies in its region, and *)
(* everything handed out so far was mapped.                                *)
Side(m, rev, n, access, base, iter, chunk) ==
  /\ iter \in IterType
  /\ chunk \in ChunkType
  /\ iter.start <= iter.end
  /\ ~chunk.some => chunk.remaining = 0
  /\ chunk.some => /\ chunk.remaining > 0
                   /\ VmToHost(chunk.region, chunk.addr, chunk.remaining)
  /\ rev => /\ iter.start = base
            /\ chunk.some => chunk.addr = iter.end
            /\ iter.end + chunk.remaining <= base + n
            /\ \A a \in Addresses :
                 iter.end <= a /\ a < base + n => HasRegion(m, access, a)
  /\ ~rev => /\ iter.end = base + n
             /\ chunk.some => chunk.addr + chunk.remaining = iter.start
             /\ base + chunk.remaining <= iter.start
             /\ \A a \in Addresses :
                  base <= a /\ a < iter.start => HasRegion(m, access, a)

(* Where MemoryMapping::region finds one, it contains the address. *)
LEMMA RegionHolds ==
  ASSUME mapping \in Mappings, NEW access, NEW a,
         HasRegion(mapping, access, a)
  PROVE  /\ Region(mapping, access, a) \in mapping
         /\ Region(mapping, access, a) \in RegionType
         /\ Holds(Region(mapping, access, a), access, a)
<1>1. PICK r \in mapping : Holds(r, access, a)  BY DEF HasRegion
<1>2. /\ Region(mapping, access, a) \in mapping
      /\ Holds(Region(mapping, access, a), access, a)
  BY <1>1 DEF Region
<1> QED  BY <1>2, MappingsAssumption

(* An iterator that has not ended hands out a chunk that it was to walk    *)
(* next, if that address is mapped.                                        *)
LEMMA TakeChunk ==
  ASSUME mapping \in Mappings, reverse \in BOOLEAN,
         NEW n \in U64Values, NEW base \in U64Values, base + n <= U64_MAX,
         NEW access, NEW iter, NEW chunk,
         Side(mapping, reverse, n, access, base, iter, chunk),
         ~chunk.some, iter.start # iter.end,
         HasRegion(mapping, access, At(iter))
  PROVE  LET r == Region(mapping, access, At(iter)) IN
         /\ Side(mapping, reverse, n, access, base, Rest(r, iter),
                 Chunk(r, iter))
         /\ Chunk(r, iter).some
         /\ Unread(Rest(r, iter), Chunk(r, iter)) = Unread(iter, chunk)
<1> DEFINE r == Region(mapping, access, At(iter))
<1>0. U64_MAX \in Nat  BY MappingsAssumption
<1>1. r \in mapping /\ r \in RegionType /\ Holds(r, access, At(iter))
  BY RegionHolds
<1> HIDE DEF r
<1>2. /\ iter \in IterType
      /\ iter.start \in Nat /\ iter.end \in Nat
      /\ iter.start < iter.end /\ iter.end <= base + n /\ base <= iter.start
      /\ chunk.remaining = 0
      /\ r.start \in Nat /\ r.end \in Nat
      /\ base \in Nat /\ n \in Nat
  BY <1>0, <1>1 DEF Side, IterType, RegionType, U64Values, ChunkType
<1>3. \A a \in Addresses :
         r.start <= a /\ a < r.end => HasRegion(mapping, access, a)
  BY <1>1 DEF HasRegion, Holds
<1>4. CASE reverse
  <2> DEFINE x == IF r.start >= iter.start THEN r.start ELSE iter.start
  <2>1. r.start <= iter.end - 1 /\ iter.end - 1 < r.end
    BY <1>1, <1>4 DEF Holds, At
  <2>2. /\ x \in Nat /\ x < iter.end /\ iter.start <= x /\ r.start <= x
        /\ iter.end <= r.end
    BY <1>2, <2>1
  <2>3. /\ ChunkStart(r, iter) = x /\ ChunkEnd(r, iter) = iter.end
    BY <1>4 DEF ChunkStart, ChunkEnd
  <2> HIDE DEF x
  <2>4. /\ Chunk(r, iter) = [some |-> TRUE, region |-> r, addr |-> x,
                             remaining |-> iter.end - x]
        /\ Rest(r, iter) = [start |-> iter.start, end |-> x]
    BY <1>2, <1>4, <2>3 DEF Chunk, Rest, IterType
  <2>5. /\ x \in U64Values /\ iter.end - x \in U64Values
        /\ iter.end - x > 0 /\ x + (iter.end - x) = iter.end
        /\ (x - iter.start) + (iter.end - x) = iter.end - iter.start
    BY <1>0, <1>2, <2>2 DEF U64Values
  <2>6. \A a \in Addresses :
          x <= a /\ a < base + n => HasRegion(mapping, access, a)
    <3>1. \A a \in Addresses :
            iter.end <= a /\ a < base + n => HasRegion(mapping, access, a)
      BY <1>4 DEF Side
    <3>2. \A a \in Addresses : x <= a /\ a < iter.end =>
                                  r.start <= a /\ a < r.end
      BY <1>0, <1>2, <2>2 DEF Addresses
    <3>3. \A a \in Addresses : a < iter.end \/ iter.end <= a
      BY <1>0, <1>2 DEF Addresses
    <3> QED  BY <1>3, <3>1, <3>2, <3>3
  <2>7. iter.start = base  BY <1>4 DEF Side
  <2>8. Rest(r, iter) \in IterType /\ Chunk(r, iter) \in ChunkType
    BY <1>1, <1>2, <2>4, <2>5 DEF IterType, ChunkType
  <2>9. Side(mapping, reverse, n, access, base, Rest(r, iter), Chunk(r, iter))
    BY <1>2, <1>4, <2>2, <2>4, <2>5, <2>6, <2>7, <2>8 DEF Side, VmToHost
  <2>10. Unread(Rest(r, iter), Chunk(r, iter)) = Unread(iter, chunk)
    BY <1>2, <2>4, <2>5 DEF Unread
  <2> QED  BY <2>4, <2>9, <2>10 DEF r
<1>5. CASE ~reverse
  <2> DEFINE x == IF r.end <= iter.end THEN r.end ELSE iter.end
  <2>1. r.start <= iter.start /\ iter.start < r.end
    BY <1>1, <1>5 DEF Holds, At
  <2>2. /\ x \in Nat /\ iter.start < x /\ x <= iter.end /\ x <= r.end
    BY <1>2, <2>1
  <2>3. /\ ChunkStart(r, iter) = iter.start /\ ChunkEnd(r, iter) = x
    BY <1>5 DEF ChunkStart, ChunkEnd
  <2> HIDE DEF x
  <2>4. /\ Chunk(r, iter) = [some |-> TRUE, region |-> r,
                             addr |-> iter.start,
                             remaining |-> x - iter.start]
        /\ Rest(r, iter) = [start |-> x, end |-> iter.end]
    BY <1>2, <1>5, <2>3 DEF Chunk, Rest, IterType
  <2>5. /\ x \in U64Values /\ x - iter.start \in U64Values
        /\ iter.start \in U64Values /\ iter.end \in U64Values
        /\ x - iter.start > 0 /\ iter.start + (x - iter.start) = x
        /\ base + (x - iter.start) <= x
        /\ (iter.end - x) + (x - iter.start) = iter.end - iter.start
    BY <1>0, <1>2, <2>2 DEF U64Values
  <2>6. \A a \in Addresses :
          base <= a /\ a < x => HasRegion(mapping, access, a)
    <3>1. \A a \in Addresses :
            base <= a /\ a < iter.start => HasRegion(mapping, access, a)
      BY <1>5 DEF Side
    <3>2. \A a \in Addresses : iter.start <= a /\ a < x =>
                                  r.start <= a /\ a < r.end
      BY <1>0, <1>2, <2>1, <2>2 DEF Addresses
    <3>3. \A a \in Addresses : a < iter.start \/ iter.start <= a
      BY <1>0, <1>2 DEF Addresses
    <3> QED  BY <1>3, <3>1, <3>2, <3>3
  <2>7. iter.end = base + n  BY <1>5 DEF Side
  <2>8. Rest(r, iter) \in IterType /\ Chunk(r, iter) \in ChunkType
    BY <1>1, <1>2, <2>4, <2>5 DEF IterType, ChunkType
  <2>9. Side(mapping, reverse, n, access, base, Rest(r, iter), Chunk(r, iter))
    BY <1>2, <1>5, <2>1, <2>2, <2>4, <2>5, <2>6, <2>7, <2>8 DEF Side, VmToHost
  <2>10. Unread(Rest(r, iter), Chunk(r, iter)) = Unread(iter, chunk)
    BY <1>2, <2>4, <2>5 DEF Unread
  <2> QED  BY <2>4, <2>9, <2>10 DEF r
<1> QED  BY <1>4, <1>5

(* What a side has left is a natural number, at most n, and it is nothing  *)
(* only without a chunk.                                                   *)
LEMMA UnreadType ==
  ASSUME NEW m, NEW rev \in BOOLEAN,
         NEW n \in U64Values, NEW base \in U64Values,
         NEW access, NEW iter, NEW chunk,
         Side(m, rev, n, access, base, iter, chunk)
  PROVE  /\ Unread(iter, chunk) \in Nat
         /\ Unread(iter, chunk) <= n
         /\ chunk.remaining \in Nat
         /\ chunk.remaining <= Unread(iter, chunk)
         /\ chunk.some => chunk.remaining > 0
         /\ ~chunk.some /\ iter.start = iter.end => Unread(iter, chunk) = 0
         /\ Unread(iter, chunk) = 0 => ~chunk.some /\ iter.start = iter.end
<1>0. U64_MAX \in Nat  BY MappingsAssumption
<1>1. /\ iter.start \in Nat /\ iter.end \in Nat /\ iter.start <= iter.end
      /\ chunk.remaining \in Nat
      /\ chunk.some => chunk.remaining > 0
      /\ ~chunk.some => chunk.remaining = 0
      /\ base \in Nat /\ n \in Nat
  BY <1>0 DEF Side, IterType, ChunkType, U64Values
<1>2. /\ rev => iter.start = base /\ iter.end + chunk.remaining <= base + n
      /\ ~rev => iter.end = base + n /\ base + chunk.remaining <= iter.start
  BY DEF Side
<1>3. (iter.end - iter.start) + chunk.remaining <= n
  BY <1>1, <1>2
<1>4. (iter.end - iter.start) + chunk.remaining \in Nat
  BY <1>1
<1>5. chunk.remaining <= (iter.end - iter.start) + chunk.remaining
  BY <1>1
<1>6. (iter.end - iter.start) + chunk.remaining = 0 =>
        chunk.remaining = 0 /\ iter.start = iter.end
  BY <1>1
<1>7. chunk.remaining = 0 /\ iter.start = iter.end =>
        (iter.end - iter.start) + chunk.remaining = 0
  BY <1>1
<1>8. chunk.remaining = 0 => ~chunk.some
  BY <1>1
<1> QED  BY <1>1, <1>3, <1>4, <1>5, <1>6, <1>7, <1>8, Zenon DEF Unread

(* A turn of the loop copies the next bytes of a side, or the last ones in *)
(* reverse, and leaves the side walked by as many bytes.                   *)
LEMMA TakePiece ==
  ASSUME reverse \in BOOLEAN, NEW m,
         NEW n \in U64Values, NEW base \in U64Values, base + n <= U64_MAX,
         NEW access, NEW iter, NEW chunk,
         Side(m, reverse, n, access, base, iter, chunk),
         chunk.some,
         NEW len \in Nat, len > 0, len <= chunk.remaining
  PROVE  /\ VmToHost(chunk.region, Piece(chunk, len), len)
         /\ Side(m, reverse, n, access, base, iter, Left(chunk, len))
         /\ Unread(iter, Left(chunk, len)) = Unread(iter, chunk) - len
         /\ Piece(chunk, len) =
              IF reverse THEN base + Unread(iter, chunk) - len
                         ELSE base + (n - Unread(iter, chunk))
<1>0. U64_MAX \in Nat  BY MappingsAssumption
<1>1. /\ iter \in IterType /\ chunk \in ChunkType
      /\ iter.start \in Nat /\ iter.end \in Nat /\ iter.start <= iter.end
      /\ chunk.remaining \in Nat /\ chunk.addr \in Nat
      /\ chunk.region.start \in Nat /\ chunk.region.end \in Nat
      /\ base \in Nat /\ n \in Nat
  BY <1>0 DEF Side, IterType, ChunkType, RegionType, U64Values
<1>2. /\ chunk.region.start <= chunk.addr
      /\ chunk.addr + chunk.remaining <= chunk.region.end
  BY DEF Side, VmToHost
<1>3. /\ reverse => /\ iter.start = base
                    /\ chunk.addr = iter.end
                    /\ iter.end + chunk.remaining <= base + n
      /\ ~reverse => /\ iter.end = base + n
                     /\ chunk.addr + chunk.remaining = iter.start
                     /\ base + chunk.remaining <= iter.start
  BY DEF Side
<1>4. VmToHost(chunk.region, Piece(chunk, len), len)
  BY <1>1, <1>2 DEF VmToHost, Piece
<1>5. Piece(chunk, len) =
        IF reverse THEN base + Unread(iter, chunk) - len
                   ELSE base + (n - Unread(iter, chunk))
  BY <1>1, <1>3 DEF Piece, Unread
<1>6. CASE chunk.remaining = len
  <2>1. Left(chunk, len) = None  BY <1>6 DEF Left
  <2>2. None \in ChunkType /\ ~None.some /\ None.remaining = 0
    BY <1>0 DEF None, NoRegion, ChunkType, RegionType, U64Values
  <2>3. Unread(iter, None) = Unread(iter, chunk) - len
    BY <1>1, <1>6, <2>2 DEF Unread
  <2>4. /\ reverse => iter.end + 0 <= base + n
        /\ ~reverse => base + 0 <= iter.start
    BY <1>1, <1>3
  <2> HIDE DEF None
  <2>5. Side(m, reverse, n, access, base, iter, None)
    BY <2>2, <2>4 DEF Side
  <2> QED  BY <1>4, <1>5, <2>1, <2>3, <2>5
<1>7. CASE chunk.remaining # len
  <2> DEFINE c == Left(chunk, len)
             x == IF reverse THEN chunk.addr ELSE chunk.addr + len
  <2>1. c = [some |-> TRUE, region |-> chunk.region, addr |-> x,
             remaining |-> chunk.remaining - len]
    BY <1>1, <1>7 DEF Left, ChunkType
  <2>2. /\ x \in Nat /\ x \in U64Values
        /\ chunk.remaining - len \in Nat
        /\ chunk.remaining - len \in U64Values
        /\ chunk.remaining - len > 0
        /\ chunk.region.start <= x
        /\ x + (chunk.remaining - len) <= chunk.region.end
    BY <1>0, <1>1, <1>2, <1>3, <1>7 DEF U64Values, ChunkType
  <2>3. /\ reverse => /\ x = iter.end
                      /\ iter.end + (chunk.remaining - len) <= base + n
        /\ ~reverse => /\ x + (chunk.remaining - len) = iter.start
                       /\ base + (chunk.remaining - len) <= iter.start
    BY <1>1, <1>3
  <2> HIDE DEF c, x
  <2>4. c \in ChunkType /\ c.some /\ c.region = chunk.region
    BY <1>1, <2>1, <2>2 DEF ChunkType
  <2>5. c.addr = x /\ c.remaining = chunk.remaining - len  BY <2>1
  <2>6. Side(m, reverse, n, access, base, iter, c)
    BY <2>2, <2>3, <2>4, <2>5 DEF Side, VmToHost
  <2>7. Unread(iter, c) = Unread(iter, chunk) - len
    BY <1>1, <2>5 DEF Unread
  <2> QED  BY <1>4, <1>5, <2>6, <2>7 DEF c
<1> QED  BY <1>6, <1>7

(* A side that has nothing left has found every byte mapped. *)
LEMMA WalkedAll ==
  ASSUME NEW m, NEW rev \in BOOLEAN,
         NEW n \in U64Values, NEW base \in U64Values,
         NEW access, NEW iter, NEW chunk,
         Side(m, rev, n, access, base, iter, chunk),
         iter.start = iter.end
  PROVE  \A a \in Span(base, n) : HasRegion(m, access, a)
<1>1. CASE rev
  <2>1. iter.end = base /\ \A a \in Addresses :
          iter.end <= a /\ a < base + n => HasRegion(m, access, a)
    BY <1>1 DEF Side
  <2> QED  BY <2>1 DEF Span
<1>2. CASE ~rev
  <2>1. iter.start = base + n /\ \A a \in Addresses :
          base <= a /\ a < iter.start => HasRegion(m, access, a)
    BY <1>2 DEF Side
  <2> QED  BY <2>1 DEF Span
<1> QED  BY <1>1, <1>2

(* The address an iterator looks up belongs to the range it walks. *)
LEMMA LooksInRange ==
  ASSUME reverse \in BOOLEAN, NEW m,
         NEW n \in U64Values, NEW base \in U64Values, base + n <= U64_MAX,
         NEW access, NEW iter, NEW chunk,
         Side(m, reverse, n, access, base, iter, chunk),
         iter.start # iter.end
  PROVE  At(iter) \in Span(base, n)
<1>0. U64_MAX \in Nat  BY MappingsAssumption
<1>1. /\ iter.start \in Nat /\ iter.end \in Nat /\ iter.start < iter.end
      /\ base \in Nat /\ n \in Nat /\ chunk.remaining \in Nat
  BY <1>0 DEF Side, IterType, ChunkType, U64Values
<1>2. base <= iter.start /\ iter.end <= base + n
  BY <1>1 DEF Side
<1> QED  BY <1>0, <1>1, <1>2 DEF At, Span, Addresses

(* What memory_chunk! may do, and when. *)
LEMMA OutcomeCases ==
  ASSUME NEW access, NEW iter, NEW chunk, chunk.some \in BOOLEAN
  PROVE  \/ /\ Outcome(access, iter, chunk) = "keep"
            /\ chunk.some
         \/ /\ Outcome(access, iter, chunk) = "break"
            /\ ~chunk.some /\ iter.start = iter.end
         \/ /\ Outcome(access, iter, chunk) = "take"
            /\ ~chunk.some /\ iter.start # iter.end
            /\ HasRegion(mapping, access, At(iter))
         \/ /\ Outcome(access, iter, chunk) = "fault"
            /\ ~chunk.some /\ iter.start # iter.end
            /\ ~HasRegion(mapping, access, At(iter))
<1> HIDE DEF HasRegion, At
<1>1. CASE chunk.some  BY <1>1 DEF Outcome
<1>2. CASE ~chunk.some /\ iter.start = iter.end  BY <1>2 DEF Outcome
<1>3. CASE /\ ~chunk.some /\ iter.start # iter.end
           /\ HasRegion(mapping, access, At(iter))
  BY <1>3 DEF Outcome
<1>4. CASE /\ ~chunk.some /\ iter.start # iter.end
           /\ ~HasRegion(mapping, access, At(iter))
  BY <1>4 DEF Outcome
<1> QED  BY <1>1, <1>2, <1>3, <1>4

(* A side that has a chunk, or gets one, is walked no further by that. *)
LEMMA FetchKeepsSide ==
  ASSUME mapping \in Mappings, reverse \in BOOLEAN,
         NEW n \in U64Values, NEW base \in U64Values, base + n <= U64_MAX,
         NEW access, NEW iter, NEW chunk,
         Side(mapping, reverse, n, access, base, iter, chunk),
         Outcome(access, iter, chunk) \in {"keep", "take"}
  PROVE  /\ Side(mapping, reverse, n, access, base,
                 IterAfter(access, iter, chunk),
                 ChunkAfter(access, iter, chunk))
         /\ ChunkAfter(access, iter, chunk).some
         /\ Unread(IterAfter(access, iter, chunk),
                   ChunkAfter(access, iter, chunk)) = Unread(iter, chunk)
<1>0. chunk.some \in BOOLEAN  BY DEF Side, ChunkType
<1>1. CASE Outcome(access, iter, chunk) = "keep"
  <2>1. chunk.some  BY <1>0, <1>1, OutcomeCases
  <2>2. /\ IterAfter(access, iter, chunk) = iter
        /\ ChunkAfter(access, iter, chunk) = chunk
    BY <1>1 DEF IterAfter, ChunkAfter
  <2> QED  BY <2>1, <2>2
<1>2. CASE Outcome(access, iter, chunk) = "take"
  <2>1. /\ ~chunk.some /\ iter.start # iter.end
        /\ HasRegion(mapping, access, At(iter))
    BY <1>0, <1>2, OutcomeCases
  <2>2. /\ IterAfter(access, iter, chunk) =
             Rest(Region(mapping, access, At(iter)), iter)
        /\ ChunkAfter(access, iter, chunk) =
             Chunk(Region(mapping, access, At(iter)), iter)
    BY <1>2 DEF IterAfter, ChunkAfter
  <2> QED  BY <2>1, <2>2, TakeChunk
<1> QED  BY <1>1, <1>2

---------------------------------------------------------------------------

(* The state before the loop, and in it. *)
Early ==
  /\ mem = before
  /\ result = "none"
  /\ src_chunk = None
  /\ dst_chunk = None
  /\ pc = "call" => args = Abstract!NoCall
  /\ pc # "call" => args \in Abstract!Calls /\ args.op = pc

Loop ==
  /\ args \in Abstract!Calls
  /\ args.op = "memmove_non_contiguous"
  /\ args.src + args.n <= U64_MAX
  /\ args.dst + args.n <= U64_MAX
  /\ reverse = Reverse(args.dst, args.src, args.n)
  /\ result = "none"
  /\ Side(mapping, reverse, args.n, "Load", args.src, src_iter, src_chunk)
  /\ Side(mapping, reverse, args.n, "Store", args.dst, dst_iter, dst_chunk)
  /\ pc \in {"dst", "copy"} => src_chunk.some
  /\ pc = "copy" => dst_chunk.some

(* The inductive invariant. *)
IInv ==
  /\ TypeOK
  /\ pc \in {"call"} \cup Abstract!Ops => Early
  /\ InLoop => Loop
  /\ Lockstep
  /\ CopiedSoFar

(* The memory with all but `left' bytes moved. *)
Moved(b, c, rev, left) ==
  Copy(b, c.dst + (IF rev THEN left ELSE 0), c.src + (IF rev THEN left ELSE 0),
       c.n - left)

(* CopiedSoFar in terms of Moved. *)
LEMMA CopiedIsMoved ==
  CopiedSoFar <=>
    (InLoop => mem = Moved(before, args, reverse, Unread(src_iter, src_chunk)))
BY DEF CopiedSoFar, Moved

(* The memory of the call is a function on the addresses. *)
LEMMA BeforeIsFunction ==
  ASSUME before \in Memories
  PROVE  before = [a \in Addresses |-> before[a]]
BY MemoriesAssumption

(* Calls have three u64 arguments. *)
LEMMA CallTypes ==
  ASSUME args \in Abstract!Calls
  PROVE  /\ args.dst \in U64Values /\ args.src \in U64Values
         /\ args.n \in U64Values /\ args.n \in Nat
         /\ args.dst \in Nat /\ args.src \in Nat
<1>1. U64_MAX \in Nat  BY MappingsAssumption
<1> QED  BY <1>1 DEF Abstract!Calls, Abstract!U64Values, U64Values

(* A turn of the loop keeps mem the memory with all but the rest moved. *)
LEMMA CopyStep ==
  ASSUME Loop, TypeOK, NEW left \in Nat, left <= args.n,
         NEW len \in Nat, len <= left,
         mem = Moved(before, args, reverse, left)
  PROVE  Copy(mem,
              IF reverse THEN args.dst + left - len
                         ELSE args.dst + (args.n - left),
              IF reverse THEN args.src + left - len
                         ELSE args.src + (args.n - left),
              len)
           = Moved(before, args, reverse, left - len)
<1>1. /\ args.dst \in U64Values /\ args.src \in U64Values
      /\ args.n \in Nat /\ args.dst \in Nat /\ args.src \in Nat
  BY CallTypes DEF Loop
<1>2. /\ args.dst + args.n <= U64_MAX /\ args.src + args.n <= U64_MAX
      /\ reverse = Reverse(args.dst, args.src, args.n)
      /\ reverse \in BOOLEAN
  BY DEF Loop, TypeOK
<1>3. CASE reverse
  <2>1. mem = Copy(before, args.dst + left, args.src + left, args.n - left)
    BY <1>3 DEF Moved
  <2>2. Moved(before, args, reverse, left - len) =
          Copy(before, args.dst + (left - len), args.src + (left - len),
               args.n - (left - len))
    BY <1>3 DEF Moved
  <2>3. Reverse(args.dst, args.src, args.n)  BY <1>2, <1>3
  <2>4. Copy(Copy(before, args.dst + left, args.src + left, args.n - left),
             args.dst + left - len, args.src + left - len, len)
          = Copy(before, args.dst + (left - len), args.src + (left - len),
                 args.n - (left - len))
    <3>1. \A D, S \in U64Values, N, l, k \in Nat :
            D + N <= U64_MAX /\ S + N <= U64_MAX /\ Reverse(D, S, N)
              /\ l <= N /\ k <= l
            => Copy(Copy(before, D + l, S + l, N - l),
                    D + l - k, S + l - k, k)
                 = Copy(before, D + (l - k), S + (l - k), N - (l - k))
      BY CopyBackward
    <3> QED  BY <1>1, <1>2, <2>3, <3>1
  <2> QED  BY <1>3, <2>1, <2>2, <2>4
<1>4. CASE ~reverse
  <2>1. mem = Copy(before, args.dst, args.src, args.n - left)
    BY <1>1, <1>4 DEF Moved
  <2>2. Moved(before, args, reverse, left - len) =
          Copy(before, args.dst, args.src, args.n - (left - len))
    BY <1>1, <1>4 DEF Moved
  <2>3. /\ args.n - left \in Nat
        /\ (args.n - left) + len = args.n - (left - len)
        /\ (args.n - left) + len <= args.n
    BY <1>1
  <2>4. Copy(Copy(before, args.dst, args.src, args.n - left),
             args.dst + (args.n - left), args.src + (args.n - left), len)
          = Copy(before, args.dst, args.src, (args.n - left) + len)
    BY <1>1, <1>2, <1>4, <2>3, CopyForward
  <2> QED  BY <1>4, <2>1, <2>2, <2>3, <2>4
<1> QED  BY <1>2, <1>3, <1>4

---------------------------------------------------------------------------

(* The initial states satisfy the invariant. *)
LEMMA InitIInv == Init => IInv
<1> SUFFICES ASSUME Init PROVE IInv  OBVIOUS
<1>0. U64_MAX \in Nat  BY MappingsAssumption
<1>1. NoIter \in IterType
  BY <1>0 DEF NoIter, IterType, U64Values
<1>2. None \in ChunkType
  BY <1>0 DEF None, NoRegion, ChunkType, RegionType, U64Values
<1>3. DOMAIN before = Addresses  BY MemoriesAssumption DEF Init
<1>4. TypeOK
  BY <1>1, <1>2, <1>3 DEF Init, TypeOK
<1>5. Early /\ ~InLoop
  BY DEF Init, Early, InLoop
<1> QED  BY <1>4, <1>5 DEF IInv, Lockstep, CopiedSoFar

(* So does what a step of the program's call leaves. *)
LEMMA CallIInv == IInv /\ Call => IInv'
<1> SUFFICES ASSUME IInv, Call PROVE IInv'  OBVIOUS
<1>1. pc' \in Abstract!Ops /\ args' \in Abstract!Calls /\ args'.op = pc'
  BY DEF Call, Abstract!Calls
<1>2. TypeOK'
  BY <1>1 DEF IInv, TypeOK, Call
<1>3. pc = "call" /\ Early
  BY DEF IInv, Call
<1>4. pc' # "call" /\ ~InLoop'
  BY <1>1 DEF InLoop, Abstract!Ops
<1>5. Early'
  BY <1>1, <1>3, <1>4 DEF Early, Call
<1> QED  BY <1>2, <1>4, <1>5 DEF IInv, Lockstep, CopiedSoFar

(* memcpy. *)
LEMMA MemcpyIInv == IInv /\ Memcpy => IInv'
<1> SUFFICES ASSUME IInv, Memcpy PROVE IInv'  OBVIOUS
<1>1. pc' = "done" /\ result' \in {"ok", "error"}
  BY DEF Memcpy, Return
<1>2. DOMAIN mem' = Addresses
  BY DEF IInv, TypeOK, Memcpy, Copy
<1>3. TypeOK'
  BY <1>1, <1>2 DEF IInv, TypeOK, Memcpy, call
<1>4. ~InLoop' /\ pc' \notin {"call"} \cup Abstract!Ops
  BY <1>1 DEF InLoop, Abstract!Ops
<1> QED  BY <1>3, <1>4 DEF IInv, Lockstep, CopiedSoFar

(* The two iterators, where the loop begins. *)
LEMMA NewIteratorsIInv == IInv /\ NewIterators => IInv'
<1> SUFFICES ASSUME IInv, NewIterators PROVE IInv'  OBVIOUS
<1> USE DEF call
<1>0. U64_MAX \in Nat  BY MappingsAssumption
<1>1. Early /\ TypeOK /\ pc = "memmove_non_contiguous"
  BY DEF IInv, NewIterators, Abstract!Ops
<1>2. args \in Abstract!Calls /\ args.op = pc
  BY <1>1 DEF Early
<1>3. /\ args.dst \in U64Values /\ args.src \in U64Values
      /\ args.n \in U64Values /\ args.n \in Nat
      /\ args.dst \in Nat /\ args.src \in Nat
  BY <1>2, CallTypes
<1>4. reverse' \in BOOLEAN
  BY DEF NewIterators, Reverse
<1>5. CASE ~(EndsInU64(args.src, args.n) /\ EndsInU64(args.dst, args.n))
  <2>1. pc' = "done" /\ result' = "error" /\ UNCHANGED <<src_iter, dst_iter>>
    BY <1>5 DEF NewIterators, Return
  <2>2. TypeOK'
    BY <1>1, <1>4, <2>1 DEF TypeOK, NewIterators
  <2>3. ~InLoop' /\ pc' \notin {"call"} \cup Abstract!Ops
    BY <2>1 DEF InLoop, Abstract!Ops
  <2> QED  BY <2>2, <2>3 DEF IInv, Lockstep, CopiedSoFar
<1>6. CASE EndsInU64(args.src, args.n) /\ EndsInU64(args.dst, args.n)
  <2>1. /\ src_iter' = [start |-> args.src, end |-> args.src + args.n]
        /\ dst_iter' = [start |-> args.dst, end |-> args.dst + args.n]
        /\ pc' = "src" /\ result' = result
    BY <1>6 DEF NewIterators
  <2>2. args.src + args.n <= U64_MAX /\ args.dst + args.n <= U64_MAX
    BY <1>6 DEF EndsInU64
  <2>3. src_iter' \in IterType /\ dst_iter' \in IterType
    BY <1>0, <1>3, <2>1, <2>2 DEF IterType, U64Values
  <2>4. TypeOK'
    BY <1>1, <1>4, <2>1, <2>3 DEF TypeOK, NewIterators
  <2>5. /\ None \in ChunkType /\ ~None.some /\ None.remaining = 0
    BY <1>0 DEF None, NoRegion, ChunkType, RegionType, U64Values
  <2>6. ASSUME NEW access, NEW base \in Nat, base + args.n <= U64_MAX,
               [start |-> base, end |-> base + args.n] \in IterType
        PROVE  /\ Side(mapping, reverse', args.n, access, base,
                       [start |-> base, end |-> base + args.n], None)
               /\ Unread([start |-> base, end |-> base + args.n], None)
                    = args.n
    <3>1. /\ base <= base + args.n /\ base + args.n + 0 <= base + args.n
          /\ base + 0 <= base
          /\ (base + args.n - base) + 0 = args.n
      BY <1>3
    <3>2. \A a \in Addresses : /\ ~(base + args.n <= a /\ a < base + args.n)
                               /\ ~(base <= a /\ a < base)
      BY <1>0, <1>3 DEF Addresses
    <3> DEFINE it == [start |-> base, end |-> base + args.n]
    <3>3. it \in IterType /\ it.start = base /\ it.end = base + args.n
      BY <2>6
    <3> HIDE DEF None, it
    <3>4. Side(mapping, reverse', args.n, access, base, it, None)
      BY <1>4, <2>5, <3>1, <3>2, <3>3 DEF Side
    <3>5. Unread(it, None) = args.n
      <4>1. None.remaining = 0  BY <2>5
      <4>2. Unread(it, None) = (base + args.n - base) + 0
        BY <1>3, <3>3, <4>1 DEF Unread
      <4> QED  BY <3>1, <4>2
    <3> QED  BY <3>4, <3>5 DEF it
  <2>7. /\ src_chunk' = None /\ dst_chunk' = None
        /\ mapping' = mapping /\ args' = args /\ before' = before
        /\ mem' = before /\ result' = "none"
        /\ reverse' = Reverse(args.dst, args.src, args.n)
    BY <1>1, <2>1 DEF Early, NewIterators
  <2>8. /\ Side(mapping, reverse, args.n, "Load", args.src,
                src_iter, src_chunk)'
        /\ Side(mapping, reverse, args.n, "Store", args.dst,
                dst_iter, dst_chunk)'
        /\ Unread(src_iter, src_chunk)' = args.n
        /\ Unread(dst_iter, dst_chunk)' = args.n
    BY <1>3, <2>1, <2>2, <2>3, <2>6, <2>7
  <2>9. Loop'
    BY <1>1, <1>2, <2>1, <2>2, <2>7, <2>8 DEF Loop
  <2>10. Lockstep'
    BY <2>8 DEF Lockstep
  <2>11. CopiedSoFar'
    <3>1. before = [a \in Addresses |-> before[a]]
      BY <1>1, BeforeIsFunction DEF TypeOK
    <3>2. /\ args.n - args.n = 0
          /\ args.dst + (IF reverse' THEN args.n ELSE 0) \in Nat
          /\ args.src + (IF reverse' THEN args.n ELSE 0) \in Nat
      BY <1>3
    <3>3. Moved(before, args, reverse', args.n) = before
      BY <3>1, <3>2, CopyNothing DEF Moved
    <3> QED  BY <2>7, <2>8, <3>3 DEF CopiedSoFar, Moved
  <2>12. pc' \notin {"call"} \cup Abstract!Ops
    BY <2>1 DEF Abstract!Ops
  <2> QED  BY <2>4, <2>9, <2>10, <2>11, <2>12 DEF IInv
<1> QED  BY <1>5, <1>6

(* The source's chunk. *)
LEMMA SrcChunkIInv == IInv /\ SrcChunk => IInv'
<1> SUFFICES ASSUME IInv, SrcChunk PROVE IInv'  OBVIOUS
<1> USE DEF call
<1> DEFINE o == Outcome("Load", src_iter, src_chunk)
<1>0. U64_MAX \in Nat  BY MappingsAssumption
<1>1. TypeOK /\ InLoop /\ Loop /\ Lockstep /\ CopiedSoFar /\ pc = "src"
  BY DEF IInv, SrcChunk, InLoop
<1>2. /\ args.dst \in U64Values /\ args.src \in U64Values
      /\ args.n \in U64Values
  BY <1>1, CallTypes DEF Loop
<1>3. src_chunk.some \in BOOLEAN /\ src_iter \in IterType
        /\ src_chunk \in ChunkType
  BY <1>1 DEF TypeOK, ChunkType
<1>4. CASE o \in {"keep", "take"}
  <2>1. pc' = "dst" /\ result' = result
    BY <1>4 DEF SrcChunk, Proceed
  <2>2. /\ Side(mapping, reverse, args.n, "Load", args.src, src_iter', src_chunk')
        /\ src_chunk'.some
        /\ Unread(src_iter', src_chunk') = Unread(src_iter, src_chunk)
    <3>1. /\ mapping \in Mappings /\ reverse \in BOOLEAN
          /\ args.src + args.n <= U64_MAX
          /\ Side(mapping, reverse, args.n, "Load", args.src,
                  src_iter, src_chunk)
      BY <1>1 DEF TypeOK, Loop
    <3>2. /\ src_iter' = IterAfter("Load", src_iter, src_chunk)
          /\ src_chunk' = ChunkAfter("Load", src_iter, src_chunk)
      BY DEF SrcChunk
    <3> QED  BY <1>2, <1>4, <3>1, <3>2, FetchKeepsSide
  <2>3. src_iter' \in IterType /\ src_chunk' \in ChunkType
    BY <2>2 DEF Side
  <2>4. /\ mapping' = mapping /\ args' = args /\ before' = before
        /\ mem' = mem /\ reverse' = reverse
        /\ dst_iter' = dst_iter /\ dst_chunk' = dst_chunk
    BY DEF SrcChunk
  <2>5. TypeOK'
    BY <1>1, <2>1, <2>3, <2>4 DEF TypeOK
  <2>6. Loop'
    BY <1>1, <2>1, <2>2, <2>4 DEF Loop
  <2>7. Unread(src_iter, src_chunk)' = Unread(src_iter, src_chunk)
          /\ Unread(dst_iter, dst_chunk)' = Unread(dst_iter, dst_chunk)
    BY <2>2, <2>4 DEF Unread
  <2>8. Lockstep' /\ CopiedSoFar'
    BY <1>1, <2>4, <2>7 DEF Lockstep, CopiedSoFar
  <2>9. pc' \notin {"call"} \cup Abstract!Ops
    BY <2>1 DEF Abstract!Ops
  <2> QED  BY <2>5, <2>6, <2>8, <2>9 DEF IInv
<1>5. CASE o \in {"break", "fault"}
  <2>1. pc' = "done" /\ result' \in {"ok", "error"}
    BY <1>5 DEF SrcChunk, Proceed, Return
  <2>2. src_chunk' = src_chunk
    BY <1>5 DEF SrcChunk, ChunkAfter
  <2>3. src_iter' \in IterType
    BY <1>3, <1>5 DEF SrcChunk, IterAfter, IterType
  <2>4. TypeOK'
    BY <1>1, <2>1, <2>2, <2>3 DEF TypeOK, SrcChunk
  <2>5. ~InLoop' /\ pc' \notin {"call"} \cup Abstract!Ops
    BY <2>1 DEF InLoop, Abstract!Ops
  <2> QED  BY <2>4, <2>5 DEF IInv, Lockstep, CopiedSoFar
<1> QED  BY <1>3, <1>4, <1>5, OutcomeCases

(* The destination's chunk. *)
LEMMA DstChunkIInv == IInv /\ DstChunk => IInv'
<1> SUFFICES ASSUME IInv, DstChunk PROVE IInv'  OBVIOUS
<1> USE DEF call
<1> DEFINE o == Outcome("Store", dst_iter, dst_chunk)
<1>0. U64_MAX \in Nat  BY MappingsAssumption
<1>1. TypeOK /\ InLoop /\ Loop /\ Lockstep /\ CopiedSoFar /\ pc = "dst"
  BY DEF IInv, DstChunk, InLoop
<1>2. /\ args.dst \in U64Values /\ args.src \in U64Values
      /\ args.n \in U64Values
  BY <1>1, CallTypes DEF Loop
<1>3. dst_chunk.some \in BOOLEAN /\ dst_iter \in IterType
        /\ dst_chunk \in ChunkType
  BY <1>1 DEF TypeOK, ChunkType
<1>4. CASE o \in {"keep", "take"}
  <2>1. pc' = "copy" /\ result' = result
    BY <1>4 DEF DstChunk, Proceed
  <2>2. /\ Side(mapping, reverse, args.n, "Store", args.dst, dst_iter', dst_chunk')
        /\ dst_chunk'.some
        /\ Unread(dst_iter', dst_chunk') = Unread(dst_iter, dst_chunk)
    <3>1. /\ mapping \in Mappings /\ reverse \in BOOLEAN
          /\ args.dst + args.n <= U64_MAX
          /\ Side(mapping, reverse, args.n, "Store", args.dst,
                  dst_iter, dst_chunk)
      BY <1>1 DEF TypeOK, Loop
    <3>2. /\ dst_iter' = IterAfter("Store", dst_iter, dst_chunk)
          /\ dst_chunk' = ChunkAfter("Store", dst_iter, dst_chunk)
      BY DEF DstChunk
    <3> QED  BY <1>2, <1>4, <3>1, <3>2, FetchKeepsSide
  <2>3. dst_iter' \in IterType /\ dst_chunk' \in ChunkType
    BY <2>2 DEF Side
  <2>4. /\ mapping' = mapping /\ args' = args /\ before' = before
        /\ mem' = mem /\ reverse' = reverse
        /\ src_iter' = src_iter /\ src_chunk' = src_chunk
    BY DEF DstChunk
  <2>5. TypeOK'
    BY <1>1, <2>1, <2>3, <2>4 DEF TypeOK
  <2>6. Loop'
    BY <1>1, <2>1, <2>2, <2>4 DEF Loop
  <2>7. Unread(src_iter, src_chunk)' = Unread(src_iter, src_chunk)
          /\ Unread(dst_iter, dst_chunk)' = Unread(dst_iter, dst_chunk)
    BY <2>2, <2>4 DEF Unread
  <2>8. Lockstep' /\ CopiedSoFar'
    BY <1>1, <2>4, <2>7 DEF Lockstep, CopiedSoFar
  <2>9. pc' \notin {"call"} \cup Abstract!Ops
    BY <2>1 DEF Abstract!Ops
  <2> QED  BY <2>5, <2>6, <2>8, <2>9 DEF IInv
<1>5. CASE o \in {"break", "fault"}
  <2>1. pc' = "done" /\ result' \in {"ok", "error"}
    BY <1>5 DEF DstChunk, Proceed, Return
  <2>2. dst_chunk' = dst_chunk
    BY <1>5 DEF DstChunk, ChunkAfter
  <2>3. dst_iter' \in IterType
    BY <1>3, <1>5 DEF DstChunk, IterAfter, IterType
  <2>4. TypeOK'
    BY <1>1, <2>1, <2>2, <2>3 DEF TypeOK, DstChunk
  <2>5. ~InLoop' /\ pc' \notin {"call"} \cup Abstract!Ops
    BY <2>1 DEF InLoop, Abstract!Ops
  <2> QED  BY <2>4, <2>5 DEF IInv, Lockstep, CopiedSoFar
<1> QED  BY <1>3, <1>4, <1>5, OutcomeCases

(* The number of bytes a turn copies. *)
TurnLen == IF src_chunk.remaining <= dst_chunk.remaining
             THEN src_chunk.remaining ELSE dst_chunk.remaining

(* What a turn of the loop does: the two pieces are mapped, so it copies   *)
(* them.                                                                   *)
LEMMA CopyChunkFacts ==
  ASSUME IInv, CopyChunk
  PROVE  /\ mem' = Copy(mem, Piece(dst_chunk, TurnLen),
                        Piece(src_chunk, TurnLen), TurnLen)
         /\ src_chunk' = Left(src_chunk, TurnLen)
         /\ dst_chunk' = Left(dst_chunk, TurnLen)
         /\ pc' = "src" /\ result' = result
         /\ UNCHANGED <<mapping, args, before, reverse, src_iter, dst_iter>>
         /\ TurnLen \in Nat /\ TurnLen > 0
         /\ TurnLen <= src_chunk.remaining /\ TurnLen <= dst_chunk.remaining
<1>1. TypeOK /\ Loop /\ src_chunk.some /\ dst_chunk.some /\ pc = "copy"
  BY DEF IInv, CopyChunk, InLoop, Loop
<1>2. /\ args.dst \in U64Values /\ args.src \in U64Values
      /\ args.n \in U64Values
  BY <1>1, CallTypes DEF Loop
<1>3. /\ reverse \in BOOLEAN
      /\ args.src + args.n <= U64_MAX /\ args.dst + args.n <= U64_MAX
      /\ Side(mapping, reverse, args.n, "Load", args.src, src_iter, src_chunk)
      /\ Side(mapping, reverse, args.n, "Store", args.dst, dst_iter, dst_chunk)
  BY <1>1 DEF TypeOK, Loop
<1>4. /\ src_chunk.remaining \in Nat /\ dst_chunk.remaining \in Nat
      /\ src_chunk.remaining > 0 /\ dst_chunk.remaining > 0
  BY <1>1, <1>2, <1>3, UnreadType
<1>5. /\ TurnLen \in Nat /\ TurnLen > 0
      /\ TurnLen <= src_chunk.remaining /\ TurnLen <= dst_chunk.remaining
  BY <1>4 DEF TurnLen
<1>6. /\ VmToHost(src_chunk.region, Piece(src_chunk, TurnLen), TurnLen)
      /\ VmToHost(dst_chunk.region, Piece(dst_chunk, TurnLen), TurnLen)
  BY <1>1, <1>2, <1>3, <1>5, TakePiece
<1> QED  BY <1>5, <1>6 DEF CopyChunk, TurnLen, call

(* A turn of the loop. *)
LEMMA CopyChunkIInv == IInv /\ CopyChunk => IInv'
<1> SUFFICES ASSUME IInv, CopyChunk PROVE IInv'  OBVIOUS
<1>1. TypeOK /\ Loop /\ src_chunk.some /\ dst_chunk.some /\ InLoop
        /\ Lockstep /\ CopiedSoFar
  BY DEF IInv, CopyChunk, InLoop, Loop
<1>2. /\ args.dst \in U64Values /\ args.src \in U64Values
      /\ args.n \in U64Values
  BY <1>1, CallTypes DEF Loop
<1>3. /\ reverse \in BOOLEAN
      /\ args.src + args.n <= U64_MAX /\ args.dst + args.n <= U64_MAX
      /\ Side(mapping, reverse, args.n, "Load", args.src, src_iter, src_chunk)
      /\ Side(mapping, reverse, args.n, "Store", args.dst, dst_iter, dst_chunk)
  BY <1>1 DEF TypeOK, Loop
<1> DEFINE len == TurnLen
           left == Unread(src_iter, src_chunk)
<1>4. /\ mem' = Copy(mem, Piece(dst_chunk, len), Piece(src_chunk, len), len)
      /\ src_chunk' = Left(src_chunk, len)
      /\ dst_chunk' = Left(dst_chunk, len)
      /\ pc' = "src" /\ result' = result
      /\ mapping' = mapping /\ args' = args /\ before' = before
      /\ reverse' = reverse /\ src_iter' = src_iter /\ dst_iter' = dst_iter
      /\ len \in Nat /\ len > 0
      /\ len <= src_chunk.remaining /\ len <= dst_chunk.remaining
  BY CopyChunkFacts
<1> HIDE DEF len
<1>5. /\ Side(mapping, reverse, args.n, "Load", args.src, src_iter,
              Left(src_chunk, len))
      /\ Unread(src_iter, Left(src_chunk, len)) = left - len
      /\ Piece(src_chunk, len) =
           IF reverse THEN args.src + left - len
                      ELSE args.src + (args.n - left)
  <2>1. /\ len \in Nat /\ len > 0 /\ len <= src_chunk.remaining
        /\ src_chunk.some /\ reverse \in BOOLEAN
        /\ args.src + args.n <= U64_MAX
        /\ Side(mapping, reverse, args.n, "Load", args.src,
                src_iter, src_chunk)
    BY <1>1, <1>3, <1>4
  <2>2. /\ Side(mapping, reverse, args.n, "Load", args.src, src_iter,
                Left(src_chunk, len))
        /\ Unread(src_iter, Left(src_chunk, len)) =
             Unread(src_iter, src_chunk) - len
        /\ Piece(src_chunk, len) =
             IF reverse THEN args.src + Unread(src_iter, src_chunk) - len
               ELSE args.src + (args.n - Unread(src_iter, src_chunk))
    BY <1>2, <2>1, TakePiece
  <2> QED  BY <2>2
<1>6. Unread(dst_iter, dst_chunk) = left
  BY <1>1 DEF Lockstep
<1>7. /\ Side(mapping, reverse, args.n, "Store", args.dst, dst_iter,
              Left(dst_chunk, len))
      /\ Unread(dst_iter, Left(dst_chunk, len)) = left - len
      /\ Piece(dst_chunk, len) =
           IF reverse THEN args.dst + left - len
                      ELSE args.dst + (args.n - left)
  <2>1. /\ len \in Nat /\ len > 0 /\ len <= dst_chunk.remaining
        /\ dst_chunk.some /\ reverse \in BOOLEAN
        /\ args.dst + args.n <= U64_MAX
        /\ Side(mapping, reverse, args.n, "Store", args.dst,
                dst_iter, dst_chunk)
    BY <1>1, <1>3, <1>4
  <2>2. /\ Side(mapping, reverse, args.n, "Store", args.dst, dst_iter,
                Left(dst_chunk, len))
        /\ Unread(dst_iter, Left(dst_chunk, len)) =
             Unread(dst_iter, dst_chunk) - len
        /\ Piece(dst_chunk, len) =
             IF reverse THEN args.dst + Unread(dst_iter, dst_chunk) - len
               ELSE args.dst + (args.n - Unread(dst_iter, dst_chunk))
    BY <1>2, <2>1, TakePiece
  <2> QED  BY <1>6, <2>2
<1>8. left \in Nat /\ left <= args.n /\ len <= left
  <2>1. /\ left \in Nat /\ left <= args.n
        /\ src_chunk.remaining \in Nat /\ src_chunk.remaining <= left
    BY <1>2, <1>3, UnreadType
  <2> HIDE DEF left
  <2> QED  BY <1>4, <2>1
<1>9. mem = Moved(before, args, reverse, left)
  BY <1>1, CopiedIsMoved
<1> HIDE DEF left
<1>10. mem' = Moved(before, args, reverse, left - len)
  BY <1>1, <1>4, <1>5, <1>7, <1>8, <1>9, CopyStep
<1>11. /\ Unread(src_iter, src_chunk)' = left - len
       /\ Unread(dst_iter, dst_chunk)' = left - len
  BY <1>4, <1>5, <1>7
<1>12. src_chunk' \in ChunkType /\ dst_chunk' \in ChunkType
  BY <1>4, <1>5, <1>7 DEF Side
<1>13. DOMAIN mem' = Addresses
  BY <1>4 DEF Copy
<1>14. TypeOK'
  BY <1>1, <1>4, <1>12, <1>13 DEF TypeOK
<1>15. Loop'
  BY <1>1, <1>4, <1>5, <1>7 DEF Loop
<1>16. Lockstep' /\ CopiedSoFar'
  BY <1>4, <1>10, <1>11 DEF Lockstep, CopiedSoFar, Moved
<1>17. pc' \notin {"call"} \cup Abstract!Ops
  BY <1>4 DEF Abstract!Ops
<1> QED  BY <1>14, <1>15, <1>16, <1>17 DEF IInv

(* Steps that change nothing. *)
LEMMA StutterIInv == IInv /\ UNCHANGED vars => IInv'
BY DEF vars, call, IInv, TypeOK, Early, Loop, InLoop, Lockstep, CopiedSoFar,
       Unread

(* The invariant is inductive. *)
LEMMA NextIInv == IInv /\ [Next]_vars => IInv'
BY CallIInv, MemcpyIInv, NewIteratorsIInv, SrcChunkIInv, DstChunkIInv,
   CopyChunkIInv, StutterIInv DEF Next, Step, Returned

(* IInv holds in every state of a call. *)
LEMMA Invariance == Spec => []IInv
BY InitIInv, NextIInv, PTL DEF Spec

(* No address or length of the walks leaves u64. *)
THEOREM MemmoveTypeCorrect == Spec => []TypeOK
BY Invariance, PTL DEF IInv

(* The two walks of iter_memory_pair_chunks stay in lockstep, however the  *)
(* regions cut the two ranges.                                             *)
THEOREM MemmoveLockstep == Spec => []Lockstep
BY Invariance, PTL DEF IInv

(* No byte of the source is overwritten before it is read. *)
THEOREM MemmoveCopiedSoFar == Spec => []CopiedSoFar
BY Invariance, PTL DEF IInv

---------------------------------------------------------------------------

(* The steps left: three for every byte that is still to be read, and the  *)
(* rest of this turn of the loop.                                          *)
Variant ==
  CASE pc = "memcpy" -> 1
    [] pc = "memmove_non_contiguous" -> 3 * args.n + 4
    [] pc = "src" -> 3 * Unread(src_iter, src_chunk) + 3
    [] pc = "dst" -> 3 * Unread(src_iter, src_chunk) + 2
    [] pc = "copy" -> 3 * Unread(src_iter, src_chunk) + 1
    [] OTHER -> 0
Less == Variant \in Nat /\ Variant' \in 0..(Variant - 1)
Progress == [][Step => Less]_vars

(* In a step, there is one left; the call is over when there is none. *)
LEMMA VariantPositive ==
  ASSUME IInv, pc \notin {"call", "done"}
  PROVE  /\ Variant \in Nat /\ Variant > 0
         /\ InLoop => Unread(src_iter, src_chunk) \in Nat
<1>1. TypeOK /\ (pc \in Abstract!Ops => Early) /\ (InLoop => Loop)
  BY DEF IInv
<1>2. ASSUME InLoop
      PROVE  Unread(src_iter, src_chunk) \in Nat
  <2>1. /\ args.src \in U64Values /\ args.n \in U64Values
    BY <1>1, <1>2, CallTypes DEF Loop
  <2>2. /\ reverse \in BOOLEAN
        /\ Side(mapping, reverse, args.n, "Load", args.src, src_iter, src_chunk)
    BY <1>1, <1>2 DEF TypeOK, Loop
  <2> QED  BY <2>1, <2>2, UnreadType
<1>3. pc = "memmove_non_contiguous" => args.n \in Nat
  BY <1>1, CallTypes DEF Early, Abstract!Ops
<1>4. pc \in {"src", "dst", "copy", "memcpy", "memmove_non_contiguous"}
  BY <1>1 DEF TypeOK, Abstract!Ops
<1> HIDE DEF Unread
<1> QED  BY <1>2, <1>3, <1>4 DEF Variant, InLoop

(* Every step of a call brings its return nearer. *)
LEMMA StepProgress ==
  ASSUME IInv, Step
  PROVE  Less
<1> USE DEF call
<1> HIDE DEF Unread
<1>1. pc \notin {"call", "done"}
  BY DEF Step, Memcpy, NewIterators, SrcChunk, DstChunk, CopyChunk
<1>2. /\ Variant \in Nat /\ Variant > 0
      /\ InLoop => Unread(src_iter, src_chunk) \in Nat
  BY <1>1, VariantPositive
<1>3. CASE pc' = "done"
  BY <1>2, <1>3 DEF Less, Variant
<1>4. CASE Memcpy
  BY <1>3, <1>4 DEF Memcpy, Return
<1>5. CASE NewIterators /\ pc' # "done"
  <2>1. /\ pc = "memmove_non_contiguous" /\ pc' = "src"
        /\ src_iter' = [start |-> args.src, end |-> args.src + args.n]
        /\ src_chunk' = src_chunk
    BY <1>5 DEF NewIterators, Return
  <2>2. args \in Abstract!Calls /\ src_chunk = None
    BY <2>1 DEF IInv, Early, Abstract!Ops
  <2>3. args.n \in Nat /\ args.src \in Nat
    BY <2>2, CallTypes
  <2>4. Unread(src_iter, src_chunk)' = args.n
    BY <2>1, <2>2, <2>3 DEF Unread, None
  <2>5. Variant = 3 * args.n + 4 /\ Variant' = 3 * args.n + 3
    BY <2>1, <2>4 DEF Variant
  <2> QED  BY <2>3, <2>5 DEF Less
<1>6. CASE SrcChunk /\ pc' # "done"
  <2> DEFINE o == Outcome("Load", src_iter, src_chunk)
  <2>1. pc = "src" /\ Loop /\ TypeOK
    BY <1>6 DEF SrcChunk, IInv, InLoop
  <2>2. src_chunk.some \in BOOLEAN
    BY <2>1 DEF TypeOK, ChunkType
  <2>3. o \notin {"break", "fault"}
    BY <1>6 DEF SrcChunk, Proceed, Return
  <2>4. o \in {"keep", "take"}
    BY <2>2, <2>3, OutcomeCases
  <2>5. pc' = "dst"
    BY <1>6, <2>4 DEF SrcChunk, Proceed
  <2>6. Unread(src_iter, src_chunk)' = Unread(src_iter, src_chunk)
    <3>1. /\ mapping \in Mappings /\ reverse \in BOOLEAN
          /\ args.src \in U64Values /\ args.n \in U64Values
          /\ args.src + args.n <= U64_MAX
          /\ Side(mapping, reverse, args.n, "Load", args.src,
                  src_iter, src_chunk)
      BY <2>1, CallTypes DEF TypeOK, Loop
    <3>2. /\ src_iter' = IterAfter("Load", src_iter, src_chunk)
          /\ src_chunk' = ChunkAfter("Load", src_iter, src_chunk)
      BY <1>6 DEF SrcChunk
    <3>3. Unread(IterAfter("Load", src_iter, src_chunk),
                 ChunkAfter("Load", src_iter, src_chunk))
            = Unread(src_iter, src_chunk)
      BY <2>4, <3>1, FetchKeepsSide
    <3> QED  BY <3>2, <3>3
  <2> QED  BY <1>2, <2>1, <2>5, <2>6 DEF Less, Variant, InLoop
<1>7. CASE DstChunk /\ pc' # "done"
  <2>1. pc = "dst" /\ pc' = "copy"
    BY <1>7 DEF DstChunk, Proceed, Return
  <2>2. Unread(src_iter, src_chunk)' = Unread(src_iter, src_chunk)
    BY <1>7 DEF DstChunk, Unread
  <2> QED  BY <1>2, <2>1, <2>2 DEF Less, Variant, InLoop
<1>8. CASE CopyChunk
  <2>1. /\ src_chunk' = Left(src_chunk, TurnLen)
        /\ pc' = "src" /\ src_iter' = src_iter
        /\ TurnLen \in Nat /\ TurnLen > 0
        /\ TurnLen <= src_chunk.remaining
    BY <1>8, CopyChunkFacts
  <2>2. pc = "copy" /\ Loop /\ src_chunk.some /\ TypeOK
    BY <1>8 DEF CopyChunk, IInv, InLoop, Loop
  <2>3. /\ reverse \in BOOLEAN
        /\ args.src \in U64Values /\ args.n \in U64Values
        /\ args.src + args.n <= U64_MAX
        /\ Side(mapping, reverse, args.n, "Load", args.src,
                src_iter, src_chunk)
    BY <2>2, CallTypes DEF TypeOK, Loop
  <2>4. /\ src_chunk.remaining \in Nat
        /\ src_chunk.remaining <= Unread(src_iter, src_chunk)
    BY <2>3, UnreadType
  <2>5. Unread(src_iter, Left(src_chunk, TurnLen))
          = Unread(src_iter, src_chunk) - TurnLen
    <3>1. PICK len \in Nat : len = TurnLen
      BY <2>1
    <3>2. len > 0 /\ len <= src_chunk.remaining /\ src_chunk.some
      BY <2>1, <2>2, <3>1
    <3>3. Unread(src_iter, Left(src_chunk, len)) = Unread(src_iter, src_chunk) - len
      BY <2>3, <3>2, TakePiece
    <3> QED  BY <3>1, <3>3
  <2>6. Unread(src_iter, src_chunk)' = Unread(src_iter, src_chunk) - TurnLen
    BY <2>1, <2>5
  <2>7. /\ Variant = 3 * Unread(src_iter, src_chunk) + 1
        /\ Variant' = 3 * (Unread(src_iter, src_chunk) - TurnLen) + 3
    BY <2>1, <2>2, <2>6 DEF Variant
  <2> QED  BY <1>2, <2>1, <2>2, <2>4, <2>7 DEF Less, InLoop
<1> QED  BY <1>3, <1>4, <1>5, <1>6, <1>7, <1>8 DEF Step

(* A call takes at most three steps for a byte and four more, however the  *)
(* regions cut the two ranges: no turn of the loop copies nothing.         *)
THEOREM MemmoveProgress == Spec => Progress
<1>1. IInv /\ [Next]_vars => [Step => Less]_vars
  BY StepProgress
<1> QED  BY <1>1, Invariance, PTL DEF Spec, Progress

---------------------------------------------------------------------------

(* The operators of MemoryMapping mean the same in the abstract module. *)
LEMMA SameOperators ==
  /\ \A m, d, s, n : Abstract!Copy(m, d, s, n) = Copy(m, d, s, n)
  /\ \A a, n : Abstract!Span(a, n) = Span(a, n)
  /\ \A m, access, a :
       Abstract!HasRegion(m, access, a) = HasRegion(m, access, a)
  /\ \A m, access, a, n :
       Abstract!Maps(m, access, a, n) = Maps(m, access, a, n)
BY DEF Abstract!Copy, Copy, Abstract!Span, Span, Abstract!Addresses,
       Addresses, Abstract!HasRegion, HasRegion, Abstract!Holds, Holds,
       Abstract!Maps, Maps

(* A range that MemoryMapping::map finds ends in the address space. *)
LEMMA MapsInU64 ==
  ASSUME mapping \in Mappings, NEW access,
         NEW a \in U64Values, NEW n \in U64Values,
         Maps(mapping, access, a, n)
  PROVE  a + n <= U64_MAX
<1>0. U64_MAX \in Nat  BY MappingsAssumption
<1>1. PICK r \in mapping : a + n <= r.end  BY DEF Maps
<1>2. r.end \in Nat /\ r.end <= U64_MAX
  BY <1>0, MappingsAssumption DEF RegionType, U64Values
<1> QED  BY <1>0, <1>1, <1>2 DEF U64Values

(* is_nonoverlapping tells disjoint ranges of mapped addresses. *)
LEMMA NonoverlappingIsDisjoint ==
  ASSUME NEW d \in U64Values, NEW s \in U64Values, NEW n \in U64Values,
         n = 0 \/ (d + n <= U64_MAX /\ s + n <= U64_MAX)
  PROVE  IsNonoverlapping(s, n, d, n) <=> Span(d, n) \cap Span(s, n) = {}
<1>0. /\ U64_MAX \in Nat /\ d \in Nat /\ s \in Nat /\ n \in Nat
  BY MappingsAssumption DEF U64Values
<1>1. ASSUME IsNonoverlapping(s, n, d, n), NEW a \in Addresses,
             d <= a, a < d + n, s <= a, a < s + n
      PROVE  FALSE
  BY <1>0, <1>1 DEF IsNonoverlapping, Addresses
<1>2. ASSUME ~IsNonoverlapping(s, n, d, n)
      PROVE  \E a \in Addresses : d <= a /\ a < d + n /\ s <= a /\ a < s + n
  <2>1. CASE s > d
    <3>1. s \in Addresses /\ d <= s /\ s < d + n /\ s <= s /\ s < s + n
      BY <1>0, <1>2, <2>1 DEF IsNonoverlapping, Addresses
    <3> QED  BY <3>1
  <2>2. CASE ~(s > d)
    <3>1. d \in Addresses /\ d <= d /\ d < d + n /\ s <= d /\ d < s + n
      BY <1>0, <1>2, <2>2 DEF IsNonoverlapping, Addresses
    <3> QED  BY <3>1
  <2> QED  BY <2>1, <2>2
<1> QED  BY <1>1, <1>2 DEF Span

(* A call that returns has not been answered before, and is no NoCall. *)
LEMMA Answering ==
  ASSUME IInv, pc \in {"memcpy", "memmove_non_contiguous", "src", "dst", "copy"}
  PROVE  /\ args \in Abstract!Calls
         /\ args # Abstract!NoCall
         /\ result = "none"
         /\ pc # "done"
         /\ pc # "memcpy" => args.op = "memmove_non_contiguous"
         /\ pc = "memcpy" => args.op = "memcpy"
<1>1. args \in Abstract!Calls /\ result = "none"
        /\ (pc # "memcpy" => args.op = "memmove_non_contiguous")
        /\ (pc = "memcpy" => args.op = "memcpy")
  BY DEF IInv, Early, Loop, InLoop, Abstract!Ops
<1>2. args.op # "none"
  BY <1>1
<1>3. Abstract!NoCall.op = "none"
  BY DEF Abstract!NoCall
<1> QED  BY <1>1, <1>2, <1>3

(* memcpy answers in one step. *)
LEMMA MemcpyAbstract ==
  IInv /\ Memcpy => Abstract!Succeed \/ Abstract!Fail
<1> SUFFICES ASSUME IInv, Memcpy PROVE Abstract!Succeed \/ Abstract!Fail
  OBVIOUS
<1> USE DEF call
<1>1. /\ args # Abstract!NoCall /\ result = "none" /\ args.op = "memcpy"
      /\ args \in Abstract!Calls
  BY Answering DEF Memcpy
<1>2. mem = before /\ pc # "done" /\ pc' = "done" /\ mapping \in Mappings
  BY DEF IInv, Early, Memcpy, Return, TypeOK, Abstract!Ops
<1>3. /\ args.dst \in U64Values /\ args.src \in U64Values
      /\ args.n \in U64Values
  BY <1>1, CallTypes
<1> DEFINE can == /\ IsNonoverlapping(args.src, args.n, args.dst, args.n)
                  /\ TranslateSlice("Store", args.dst, args.n)
                  /\ TranslateSlice("Load", args.src, args.n)
<1>4. can <=> Abstract!Possible(args)
  <2>1. /\ TranslateSlice("Store", args.dst, args.n)
             <=> Abstract!Contiguous("Store", args.dst, args.n)
        /\ TranslateSlice("Load", args.src, args.n)
             <=> Abstract!Contiguous("Load", args.src, args.n)
    BY SameOperators DEF TranslateSlice, Abstract!Contiguous
  <2>2. ASSUME TranslateSlice("Store", args.dst, args.n),
               TranslateSlice("Load", args.src, args.n)
        PROVE  IsNonoverlapping(args.src, args.n, args.dst, args.n) <=>
                 Span(args.dst, args.n) \cap Span(args.src, args.n) = {}
    <3>1. args.n = 0 \/ (/\ args.dst + args.n <= U64_MAX
                         /\ args.src + args.n <= U64_MAX)
      BY <1>2, <1>3, <2>2, MapsInU64 DEF TranslateSlice
    <3> QED  BY <1>3, <3>1, NonoverlappingIsDisjoint
  <2>3. Abstract!Possible(args) <=>
          /\ Abstract!Contiguous("Store", args.dst, args.n)
          /\ Abstract!Contiguous("Load", args.src, args.n)
          /\ Span(args.dst, args.n) \cap Span(args.src, args.n) = {}
    BY <1>1, SameOperators DEF Abstract!Possible
  <2> QED  BY <2>1, <2>2, <2>3
<1>5. CASE can
  <2>1. mem' = Copy(mem, args.dst, args.src, args.n) /\ result' = "ok"
    BY <1>5 DEF Memcpy, Return
  <2>2. Abstract!Succeed
    BY <1>1, <1>2, <1>4, <1>5, <2>1, SameOperators DEF Abstract!Succeed, Memcpy
  <2> QED  BY <2>2
<1>6. CASE ~can
  <2>1. mem' = mem /\ result' = "error"
    BY <1>6 DEF Memcpy, Return
  <2>2. Abstract!Fail
    BY <1>1, <1>2, <1>4, <1>6, <2>1 DEF Abstract!Fail, Memcpy
  <2> QED  BY <2>2
<1> QED  BY <1>5, <1>6

(* What memmove_non_contiguous needs of the ranges. *)
LEMMA PossibleNonContiguous ==
  ASSUME args.op = "memmove_non_contiguous"
  PROVE  Abstract!Possible(args) <=>
           /\ args.dst + args.n <= U64_MAX
           /\ \A a \in Span(args.dst, args.n) : HasRegion(mapping, "Store", a)
           /\ args.src + args.n <= U64_MAX
           /\ \A a \in Span(args.src, args.n) : HasRegion(mapping, "Load", a)
BY SameOperators DEF Abstract!Possible, Abstract!Accessible

(* In the loop, the first or the last bytes have been moved. *)
LEMMA LoopPartlyMoved ==
  ASSUME IInv, InLoop
  PROVE  \E k \in 0..args.n :
           \/ mem = Copy(before, args.dst, args.src, k)
           \/ mem = Copy(before, args.dst + (args.n - k),
                         args.src + (args.n - k), k)
<1> DEFINE left == Unread(src_iter, src_chunk)
<1>1. Loop /\ CopiedSoFar /\ reverse \in BOOLEAN
  BY DEF IInv, TypeOK
<1>2. /\ args.dst \in U64Values /\ args.src \in U64Values
      /\ args.n \in U64Values /\ args.n \in Nat
      /\ args.dst \in Nat /\ args.src \in Nat
  BY <1>1, CallTypes DEF Loop
<1>3. left \in Nat /\ left <= args.n
  BY <1>1, <1>2, UnreadType DEF Loop
<1>4. mem = Moved(before, args, reverse, left)
  BY <1>1, CopiedIsMoved
<1> HIDE DEF left
<1>5. args.n - left \in 0..args.n /\ args.n - (args.n - left) = left
  BY <1>2, <1>3
<1>6. CASE reverse
  <2>1. mem = Copy(before, args.dst + (args.n - (args.n - left)),
                   args.src + (args.n - (args.n - left)), args.n - left)
    BY <1>4, <1>5, <1>6 DEF Moved
  <2> QED  BY <1>5, <2>1
<1>7. CASE ~reverse
  <2>1. mem = Copy(before, args.dst, args.src, args.n - left)
    BY <1>2, <1>4, <1>7 DEF Moved
  <2> QED  BY <1>5, <2>1
<1> QED  BY <1>1, <1>6, <1>7

(* A failure of memmove_non_contiguous is one of the abstract operation. *)
LEMMA FailAbstract ==
  ASSUME IInv,
         pc \in {"memmove_non_contiguous", "src", "dst", "copy"},
         ~Abstract!Possible(args),
         \E k \in 0..args.n :
           \/ mem' = Copy(before, args.dst, args.src, k)
           \/ mem' = Copy(before, args.dst + (args.n - k),
                          args.src + (args.n - k), k),
         pc' = "done", result' = "error", mapping' = mapping, args' = args
  PROVE  Abstract!Fail
<1>1. /\ args # Abstract!NoCall /\ result = "none" /\ pc # "done"
      /\ args.op = "memmove_non_contiguous"
  BY Answering
<1>2. PICK k \in 0..args.n :
           \/ mem' = Copy(before, args.dst, args.src, k)
           \/ mem' = Copy(before, args.dst + (args.n - k),
                          args.src + (args.n - k), k)
  OBVIOUS
<1>3. Abstract!PartlyMoved(args, mem')
  BY <1>1, <1>2, SameOperators DEF Abstract!PartlyMoved
<1>4. args.op # "memcpy"  BY <1>1
<1> QED  BY <1>1, <1>3, <1>4 DEF Abstract!Fail

(* The start of the loop is invisible, or a failure. *)
LEMMA NewIteratorsAbstract ==
  IInv /\ NewIterators => Abstract!Fail \/ UNCHANGED Abstract!vars
<1> SUFFICES ASSUME IInv, NewIterators
             PROVE  Abstract!Fail \/ UNCHANGED Abstract!vars
  OBVIOUS
<1> USE DEF call
<1>1. /\ pc = "memmove_non_contiguous" /\ args.op = pc /\ mem = before
      /\ args \in Abstract!Calls /\ before \in Memories
  BY DEF IInv, TypeOK, Early, NewIterators, Abstract!Ops
<1>2. CASE ~(EndsInU64(args.src, args.n) /\ EndsInU64(args.dst, args.n))
  <2>1. pc' = "done" /\ result' = "error" /\ mem' = before
          /\ mapping' = mapping /\ args' = args
    BY <1>1, <1>2 DEF NewIterators, Return
  <2>2. ~Abstract!Possible(args)
    BY <1>1, <1>2, PossibleNonContiguous DEF EndsInU64
  <2>3. args.dst \in Nat /\ args.src \in Nat /\ args.n \in Nat
    BY <1>1, CallTypes
  <2>4. mem' = Copy(before, args.dst, args.src, 0)
    BY <1>1, <2>1, <2>3, CopyNothing, BeforeIsFunction
  <2>5. 0 \in 0..args.n  BY <2>3
  <2>6. Abstract!Fail
    BY <1>1, <2>1, <2>2, <2>4, <2>5, FailAbstract
  <2> QED  BY <2>6
<1>3. CASE EndsInU64(args.src, args.n) /\ EndsInU64(args.dst, args.n)
  <2>1. pc' = "src" /\ result' = result
    BY <1>3 DEF NewIterators
  <2>2. UNCHANGED Abstract!vars
    BY <1>1, <2>1 DEF Abstract!vars, NewIterators
  <2> QED  BY <2>2
<1> QED  BY <1>2, <1>3

(* Fetching the source's chunk is invisible, the end of the walk, or a failure. *)
LEMMA SrcChunkAbstract ==
  IInv /\ SrcChunk =>
    Abstract!Succeed \/ Abstract!Fail \/ UNCHANGED Abstract!vars
<1> SUFFICES ASSUME IInv, SrcChunk
             PROVE  Abstract!Succeed \/ Abstract!Fail \/ UNCHANGED Abstract!vars
  OBVIOUS
<1> USE DEF call
<1>1. InLoop /\ Loop /\ TypeOK /\ Lockstep /\ CopiedSoFar /\ pc = "src"
  BY DEF IInv, SrcChunk, InLoop
<1>2. /\ args # Abstract!NoCall /\ result = "none" /\ pc # "done"
      /\ args.op = "memmove_non_contiguous"
  BY <1>1, Answering
<1>3. /\ args.dst \in U64Values /\ args.src \in U64Values
      /\ args.n \in U64Values
  BY <1>1, CallTypes DEF Loop
<1>4. /\ mem' = mem /\ mapping' = mapping /\ args' = args
      /\ before' = before
  BY DEF SrcChunk
<1>5. /\ reverse \in BOOLEAN
      /\ args.src + args.n <= U64_MAX /\ args.dst + args.n <= U64_MAX
      /\ Side(mapping, reverse, args.n, "Load", args.src, src_iter, src_chunk)
      /\ Side(mapping, reverse, args.n, "Store", args.dst, dst_iter, dst_chunk)
  BY <1>1 DEF TypeOK, Loop
<1> DEFINE o == Outcome("Load", src_iter, src_chunk)
<1>6. src_chunk.some \in BOOLEAN
  BY <1>1 DEF TypeOK, ChunkType
<1>7. CASE o \in {"keep", "take"}
  <2>1. pc' = "dst" /\ result' = result
    BY <1>7 DEF SrcChunk, Proceed
  <2>2. UNCHANGED Abstract!vars
    BY <1>1, <1>4, <2>1 DEF Abstract!vars
  <2> QED  BY <2>2
<1>8. CASE o = "fault"
  <2>1. pc' = "done" /\ result' = "error"
    BY <1>8 DEF SrcChunk, Proceed, Return
  <2>2. src_iter.start # src_iter.end
          /\ ~HasRegion(mapping, "Load", At(src_iter))
    BY <1>6, <1>8, OutcomeCases
  <2>3. At(src_iter) \in Span(args.src, args.n)
    BY <1>3, <1>5, <2>2, LooksInRange
  <2>4. ~Abstract!Possible(args)
    BY <1>2, <2>2, <2>3, PossibleNonContiguous
  <2>5. Abstract!Fail
    BY <1>1, <1>4, <2>1, <2>4, LoopPartlyMoved, FailAbstract
  <2> QED  BY <2>5
<1>9. CASE o = "break"
  <2>1. ~src_chunk.some /\ src_iter.start = src_iter.end
    BY <1>6, <1>9, OutcomeCases
  <2>2. Unread(src_iter, src_chunk) = 0
    BY <1>3, <1>5, <2>1, UnreadType
  <2>3. dst_iter.start = dst_iter.end
    <3>1. Unread(dst_iter, dst_chunk) = 0  BY <1>1, <2>2 DEF Lockstep
    <3> QED  BY <1>3, <1>5, <3>1, UnreadType
  <2>4. Abstract!Possible(args)
    <3>1. \A a \in Span(args.src, args.n) : HasRegion(mapping, "Load", a)
      BY <1>3, <1>5, <2>1, WalkedAll
    <3>2. \A a \in Span(args.dst, args.n) : HasRegion(mapping, "Store", a)
      BY <1>3, <1>5, <2>3, WalkedAll
    <3> QED  BY <1>2, <1>5, <3>1, <3>2, PossibleNonContiguous
  <2>5. mem = Copy(before, args.dst, args.src, args.n)
    <3>1. args.n \in Nat /\ args.dst \in Nat /\ args.src \in Nat
      BY <1>1, CallTypes DEF Loop
    <3>2. args.dst + 0 = args.dst /\ args.src + 0 = args.src
            /\ args.n - 0 = args.n
      BY <3>1
    <3>3. mem = Moved(before, args, reverse, 0)
      BY <1>1, <2>2, CopiedIsMoved
    <3> QED  BY <1>5, <3>2, <3>3 DEF Moved
  <2>6. pc' = "done" /\ result' = "ok"
    BY <1>9 DEF SrcChunk, Proceed, Return
  <2>7. Abstract!Succeed
    BY <1>2, <1>4, <2>4, <2>5, <2>6, SameOperators DEF Abstract!Succeed
  <2> QED  BY <2>7
<1> QED  BY <1>6, <1>7, <1>8, <1>9, OutcomeCases

(* Fetching the destination's chunk is invisible, or a failure. *)
LEMMA DstChunkAbstract ==
  IInv /\ DstChunk =>
    Abstract!Fail \/ UNCHANGED Abstract!vars
<1> SUFFICES ASSUME IInv, DstChunk
             PROVE  Abstract!Fail \/ UNCHANGED Abstract!vars
  OBVIOUS
<1> USE DEF call
<1>1. InLoop /\ Loop /\ TypeOK /\ Lockstep /\ CopiedSoFar /\ pc = "dst"
  BY DEF IInv, DstChunk, InLoop
<1>2. /\ args # Abstract!NoCall /\ result = "none" /\ pc # "done"
      /\ args.op = "memmove_non_contiguous"
  BY <1>1, Answering
<1>3. /\ args.dst \in U64Values /\ args.src \in U64Values
      /\ args.n \in U64Values
  BY <1>1, CallTypes DEF Loop
<1>4. /\ mem' = mem /\ mapping' = mapping /\ args' = args
      /\ before' = before
  BY DEF DstChunk
<1>5. /\ reverse \in BOOLEAN
      /\ args.src + args.n <= U64_MAX /\ args.dst + args.n <= U64_MAX
      /\ Side(mapping, reverse, args.n, "Load", args.src, src_iter, src_chunk)
      /\ Side(mapping, reverse, args.n, "Store", args.dst, dst_iter, dst_chunk)
  BY <1>1 DEF TypeOK, Loop
<1> DEFINE o == Outcome("Store", dst_iter, dst_chunk)
<1>6. dst_chunk.some \in BOOLEAN
  BY <1>1 DEF TypeOK, ChunkType
<1>7. CASE o \in {"keep", "take"}
  <2>1. pc' = "copy" /\ result' = result
    BY <1>7 DEF DstChunk, Proceed
  <2>2. UNCHANGED Abstract!vars
    BY <1>1, <1>4, <2>1 DEF Abstract!vars
  <2> QED  BY <2>2
<1>8. CASE o = "fault"
  <2>1. pc' = "done" /\ result' = "error"
    BY <1>8 DEF DstChunk, Proceed, Return
  <2>2. dst_iter.start # dst_iter.end
          /\ ~HasRegion(mapping, "Store", At(dst_iter))
    BY <1>6, <1>8, OutcomeCases
  <2>3. At(dst_iter) \in Span(args.dst, args.n)
    BY <1>3, <1>5, <2>2, LooksInRange
  <2>4. ~Abstract!Possible(args)
    BY <1>2, <2>2, <2>3, PossibleNonContiguous
  <2>5. Abstract!Fail
    BY <1>1, <1>4, <2>1, <2>4, LoopPartlyMoved, FailAbstract
  <2> QED  BY <2>5
<1>9. CASE o = "break"
  <2>1. ~dst_chunk.some /\ dst_iter.start = dst_iter.end
    BY <1>6, <1>9, OutcomeCases
  <2>2. Unread(dst_iter, dst_chunk) = 0
    BY <1>3, <1>5, <2>1, UnreadType
  <2>3. Unread(src_iter, src_chunk) = 0  BY <1>1, <2>2 DEF Lockstep
  <2>4. ~src_chunk.some
    BY <1>3, <1>5, <2>3, UnreadType
  <2> QED  BY <1>1, <2>4 DEF Loop
<1> QED  BY <1>6, <1>7, <1>8, <1>9, OutcomeCases

(* Every step of the detailed operations is a step of Memmove, or none. *)
LEMMA StepRefines ==
  IInv /\ [Next]_vars => [Abstract!Next]_(Abstract!vars)
<1> SUFFICES ASSUME IInv, [Next]_vars
             PROVE  Abstract!Next \/ UNCHANGED Abstract!vars
  OBVIOUS
<1>1. CASE Call
  <2>1. /\ args = Abstract!NoCall /\ pc = "call" /\ pc' # "done"
    BY <1>1 DEF IInv, Early, Call, Abstract!Calls, Abstract!Ops
  <2>2. Abstract!Call
    BY <1>1, <2>1 DEF Call, Abstract!Call
  <2> QED  BY <2>2 DEF Abstract!Next
<1>2. CASE Memcpy
  BY <1>2, MemcpyAbstract DEF Abstract!Next
<1>3. CASE NewIterators
  BY <1>3, NewIteratorsAbstract DEF Abstract!Next
<1>4. CASE SrcChunk
  BY <1>4, SrcChunkAbstract DEF Abstract!Next
<1>5. CASE DstChunk
  BY <1>5, DstChunkAbstract DEF Abstract!Next
<1>6. CASE CopyChunk
  <2>1. /\ pc' = "src" /\ result' = result /\ mapping' = mapping
        /\ args' = args /\ before' = before
    BY <1>6, CopyChunkFacts
  <2>2. pc = "copy"  BY <1>6 DEF CopyChunk
  <2> QED  BY <2>1, <2>2 DEF Abstract!vars
<1>7. CASE UNCHANGED vars
  BY <1>7 DEF vars, call, Abstract!vars
<1> QED
  BY <1>1, <1>2, <1>3, <1>4, <1>5, <1>6, <1>7 DEF Next, Step, Returned

(* memcpy and memmove_non_contiguous implement the one-step memmove, for   *)
(* every mapping, every call and every memory.                             *)
THEOREM MemmoveImplements == Spec => Implements
<1>1. Init => Abstract!Init
  BY DEF Init, Abstract!Init
<1> QED  BY <1>1, Invariance, StepRefines, PTL
         DEF Spec, Implements, Abstract!Spec
=============================================================================
