--------------------------- MODULE ChunkedMemmove ---------------------------
(***************************************************************************)
(* The copying operations of mem_ops.rs: SyscallMemcpy, which copies two   *)
(* ranges that each lie in one region, and memmove_non_contiguous, whose   *)
(* iter_memory_pair_chunks walks both ranges region by region, forwards or *)
(* backwards.  The two walks have chunks of different lengths; a turn of   *)
(* the loop tops up whichever side has none, and copies the shorter one.   *)
(*                                                                         *)
(* `before' is a history variable: the memory at the call.                 *)
(***************************************************************************)
EXTENDS MemoryMapping

CONSTANT Memories   \* the memories a call may find

ASSUME MemoriesAssumption ==
  \A m \in Memories : DOMAIN m = Addresses /\ m = [a \in Addresses |-> m[a]]

VARIABLES
  mapping,      \* the memory mapping of the vm
  args,         \* the call
  mem,          \* the bytes at the addresses
  result,       \* "none", "ok" or "error"
  pc,           \* where the call is
  reverse,      \* walk from the end
  src_iter,     \* MemoryChunkIterator: vm_addr_start and vm_addr_end
  dst_iter,
  src_chunk,    \* Option<(region, address, remaining)>
  dst_chunk,
  before

call == <<mapping, args, before>>
vars == <<call, mem, result, pc, reverse, src_iter, dst_iter,
          src_chunk, dst_chunk>>

Abstract == INSTANCE Memmove WITH
              mem <- IF pc = "done" THEN mem ELSE before

NoIter == [start |-> 0, end |-> 0]
NoRegion == [start |-> 0, end |-> 0, writable |-> FALSE]
None == [some |-> FALSE, region |-> NoRegion, addr |-> 0, remaining |-> 0]

Init ==
  /\ mapping \in Mappings
  /\ before \in Memories
  /\ mem = before
  /\ args = Abstract!NoCall
  /\ result = "none"
  /\ pc = "call"
  /\ reverse = FALSE
  /\ src_iter = NoIter
  /\ dst_iter = NoIter
  /\ src_chunk = None
  /\ dst_chunk = None

Return(r) == pc' = "done" /\ result' = r

(* The program makes a call. *)
Call ==
  /\ pc = "call"
  /\ args' \in Abstract!Calls
  /\ pc' = args'.op
  /\ UNCHANGED <<mapping, before, mem, result, reverse, src_iter, dst_iter,
                 src_chunk, dst_chunk>>

---------------------------------------------------------------------------

(* The distance between the two starts is at least the length of the lower *)
(* range.                                                                  *)
IsNonoverlapping_OffByOne(src, src_len, dst, dst_len) ==
  IF src > dst THEN src - dst >= dst_len ELSE dst - src + 1 >= src_len
IsNonoverlapping(src, src_len, dst, dst_len) ==
  IF src > dst THEN src - dst >= dst_len ELSE dst - src >= src_len

(* translate_slice_inner for bytes: an empty slice is not looked up.  The  *)
(* context asks for no check of alignment or size.                         *)
TranslateSlice(access, a, n) == n = 0 \/ Maps(mapping, access, a, n)

(* SyscallMemcpy, and the memmove it calls. *)
Memcpy ==
  /\ pc = "memcpy"
  /\ IF /\ IsNonoverlapping(args.src, args.n, args.dst, args.n)
        /\ TranslateSlice("Store", args.dst, args.n)
        /\ TranslateSlice("Load", args.src, args.n)
       THEN /\ mem' = Copy(mem, args.dst, args.src, args.n)
            /\ Return("ok")
       ELSE /\ mem' = mem
            /\ Return("error")
  /\ UNCHANGED <<call, reverse, src_iter, dst_iter, src_chunk, dst_chunk>>

---------------------------------------------------------------------------

(* u64::wrapping_sub *)
WrappingSub(a, b) == IF a >= b THEN a - b ELSE a + (U64_MAX + 1) - b

(* Walk from the end when the destination starts inside the source. *)
Reverse_Never(dst, src, n) == FALSE
Reverse(dst, src, n) == WrappingSub(dst, src) < n

(* The checked_add of MemoryChunkIterator::new. *)
EndsInU64_Unchecked(a, n) == TRUE
EndsInU64(a, n) == a + n <= U64_MAX

(* The start of memmove_non_contiguous and of iter_memory_pair_chunks. *)
NewIterators ==
  /\ pc = "memmove_non_contiguous"
  /\ reverse' = Reverse(args.dst, args.src, args.n)
  /\ IF EndsInU64(args.src, args.n) /\ EndsInU64(args.dst, args.n)
       THEN /\ src_iter' = [start |-> args.src, end |-> args.src + args.n]
            /\ dst_iter' = [start |-> args.dst, end |-> args.dst + args.n]
            /\ pc' = "src"
            /\ UNCHANGED result
       ELSE /\ Return("error")
            /\ UNCHANGED <<src_iter, dst_iter>>
  /\ UNCHANGED <<call, mem, src_chunk, dst_chunk>>

(* MemoryChunkIterator::next and next_back: the address whose region is    *)
(* looked up, and the chunk up to the end of that region or of the range.  *)
At(iter) == IF reverse THEN iter.end - 1 ELSE iter.start
ChunkStart(r, iter) ==
  IF reverse /\ r.start >= iter.start THEN r.start ELSE iter.start
ChunkEnd(r, iter) ==
  IF ~reverse /\ r.end <= iter.end THEN r.end ELSE iter.end
Chunk(r, iter) ==
  [some |-> TRUE, region |-> r, addr |-> ChunkStart(r, iter),
   remaining |-> ChunkEnd(r, iter) - ChunkStart(r, iter)]
Rest(r, iter) ==
  IF reverse THEN [iter EXCEPT !.end = ChunkStart(r, iter)]
             ELSE [iter EXCEPT !.start = ChunkEnd(r, iter)]

(* The macro memory_chunk!: keep the current chunk, or ask the iterator    *)
(* for one.  An iterator at its end leaves the loop; an address without a  *)
(* region ends the iterator and the call.                                  *)
Outcome(access, iter, chunk) ==
  CASE chunk.some -> "keep"
    [] ~chunk.some /\ iter.start = iter.end -> "break"
    [] ~chunk.some /\ iter.start # iter.end
         /\ HasRegion(mapping, access, At(iter)) -> "take"
    [] OTHER -> "fault"
IterAfter(access, iter, chunk) ==
  CASE Outcome(access, iter, chunk) = "take" ->
         Rest(Region(mapping, access, At(iter)), iter)
    [] Outcome(access, iter, chunk) = "fault" ->
         [iter EXCEPT !.start = iter.end]
    [] OTHER -> iter
ChunkAfter(access, iter, chunk) ==
  IF Outcome(access, iter, chunk) = "take"
    THEN Chunk(Region(mapping, access, At(iter)), iter) ELSE chunk
Proceed(outcome, next) ==
  CASE outcome = "break" -> Return("ok")
    [] outcome = "fault" -> Return("error")
    [] OTHER -> pc' = next /\ UNCHANGED result

SrcChunk ==
  /\ pc = "src"
  /\ src_iter' = IterAfter("Load", src_iter, src_chunk)
  /\ src_chunk' = ChunkAfter("Load", src_iter, src_chunk)
  /\ Proceed(Outcome("Load", src_iter, src_chunk), "dst")
  /\ UNCHANGED <<call, mem, reverse, dst_iter, dst_chunk>>

DstChunk ==
  /\ pc = "dst"
  /\ dst_iter' = IterAfter("Store", dst_iter, dst_chunk)
  /\ dst_chunk' = ChunkAfter("Store", dst_iter, dst_chunk)
  /\ Proceed(Outcome("Store", dst_iter, dst_chunk), "copy")
  /\ UNCHANGED <<call, mem, reverse, src_iter, src_chunk>>

(* The part of a chunk the turn copies, and what is left of the chunk. *)
Piece(chunk, len) ==
  IF reverse THEN chunk.addr + chunk.remaining - len ELSE chunk.addr
Left_KeepEmpty(chunk, len) ==
  [chunk EXCEPT !.remaining = chunk.remaining - len,
                !.addr = IF reverse THEN chunk.addr ELSE chunk.addr + len]
Left_DropBoth(chunk, len) == None
Left(chunk, len) ==
  IF chunk.remaining = len THEN None
    ELSE [chunk EXCEPT !.remaining = chunk.remaining - len,
                       !.addr = IF reverse THEN chunk.addr
                                           ELSE chunk.addr + len]

(* The body of the loop. *)
CopyChunk ==
  LET len == IF src_chunk.remaining <= dst_chunk.remaining
               THEN src_chunk.remaining ELSE dst_chunk.remaining
      src == Piece(src_chunk, len)
      dst == Piece(dst_chunk, len)
  IN /\ pc = "copy"
     /\ IF VmToHost(src_chunk.region, src, len)
             /\ VmToHost(dst_chunk.region, dst, len)
          THEN /\ mem' = Copy(mem, dst, src, len)
               /\ src_chunk' = Left(src_chunk, len)
               /\ dst_chunk' = Left(dst_chunk, len)
               /\ pc' = "src"
               /\ UNCHANGED result
          ELSE /\ Return("error")
               /\ UNCHANGED <<mem, src_chunk, dst_chunk>>
     /\ UNCHANGED <<call, reverse, src_iter, dst_iter>>

Step == Memcpy \/ NewIterators \/ SrcChunk \/ DstChunk \/ CopyChunk

(* The call has returned: nothing is left to do. *)
Returned == pc = "done" /\ UNCHANGED vars

Next == Call \/ Step \/ Returned

(* The program is run by one thread, which does not stop in a syscall. *)
Spec == Init /\ [][Next]_vars /\ WF_vars(Step)

---------------------------------------------------------------------------

IterType == [start : U64Values, end : U64Values]
ChunkType == [some : BOOLEAN, region : RegionType,
              addr : U64Values, remaining : U64Values]

(* Type invariant: no address or length of the walks leaves u64, although  *)
(* the code adds and subtracts them unchecked or saturating.               *)
TypeOK ==
  /\ mapping \in Mappings
  /\ args \in Abstract!Calls \cup {Abstract!NoCall}
  /\ before \in Memories
  /\ DOMAIN mem = Addresses
  /\ result \in {"none", "ok", "error"}
  /\ pc \in {"call", "src", "dst", "copy", "done"} \cup Abstract!Ops
  /\ reverse \in BOOLEAN
  /\ src_iter \in IterType
  /\ dst_iter \in IterType
  /\ src_chunk \in ChunkType
  /\ dst_chunk \in ChunkType

(* The bytes one side has still to hand to the loop. *)
Unread(iter, chunk) == (iter.end - iter.start) + chunk.remaining

InLoop == pc \in {"src", "dst", "copy"}

(* The two walks of iter_memory_pair_chunks, each cut at the borders of    *)
(* its own regions, always have the same number of bytes to go: neither    *)
(* ends while the other still has bytes to copy.                           *)
Lockstep ==
  InLoop => Unread(src_iter, src_chunk) = Unread(dst_iter, dst_chunk)

(* Between two turns of the loop, the memory is the memory of the call     *)
(* with the first bytes moved, or the last ones when walking in reverse:   *)
(* no byte of the source is overwritten before it is read.                 *)
CopiedSoFar ==
  InLoop =>
    LET left == Unread(src_iter, src_chunk)
        skip == IF reverse THEN left ELSE 0
    IN mem = Copy(before, args.dst + skip, args.src + skip, args.n - left)

(* memcpy and memmove_non_contiguous do what Memmove promises: they        *)
(* succeed exactly when the ranges allow it, a success has moved the       *)
(* source as it was at the call, and a failure has at most moved a first   *)
(* or a last part of it.                                                   *)
Implements == Abstract!Spec

(* A call returns: every turn of the loop makes progress. *)
Returns == []<>(pc \in {"call", "done"})
=============================================================================
