--------------------------- MODULE SyscallsProofs ---------------------------
(***************************************************************************)
(* The safety properties of the syscalls, for every mapping, memory, clock *)
(* and arguments, every number of calls, and whatever addresses are        *)
(* derived from seeds.                                                     *)
(***************************************************************************)
EXTENDS Syscalls, SequenceTheorems, WellFoundedInduction, TLAPS

(* The constants are numbers, and the lengths fit into the address space. *)
LEMMA Constants ==
  /\ U64_MAX \in Nat /\ PUBKEY \in Nat /\ FAT = 2 /\ BAD \in Nat
  /\ U8_MAX \in Nat /\ MAX_SEEDS \in Nat /\ MAX_SEED_LEN \in Nat
  /\ MAX_RETURN_DATA \in Nat /\ MaxCalls \in Nat
  /\ PUBKEY > 0 /\ MAX_SEEDS > 0 /\ U8_MAX > 0
  /\ U64_MAX <= BAD /\ U8_MAX <= BAD
  /\ PUBKEY <= U64_MAX /\ MAX_SEED_LEN <= U64_MAX /\ 2 * MAX_SEEDS <= U64_MAX
  BY SyscallsAssumption, MappingsAssumption

-----------------------------------------------------------------------------
(* Bytes in memory. *)
Memory == [Addresses -> Bytes]

(* A function on 1..n is a sequence of length n. *)
LEMMA FunctionIsSeq ==
  ASSUME NEW S, NEW n \in Nat, NEW f \in [1..n -> S]
  PROVE  f \in Seq(S) /\ Len(f) = n
  <1>1. f \in Seq(S)
    BY SeqDef
  <1> QED
    BY <1>1, LenProperties

(* A slice within the address space is a sequence of bytes. *)
LEMMA SliceType ==
  ASSUME NEW m \in Memory, NEW a \in Nat, NEW n \in Nat,
         n = 0 \/ a + n <= U64_MAX
  PROVE  /\ Slice(m, a, n) \in [1..n -> Bytes]
         /\ Slice(m, a, n) \in Seq(Bytes) /\ Len(Slice(m, a, n)) = n
  <1>1. \A k \in 1..n : a + k - 1 \in Addresses
    BY Constants DEF Addresses
  <1>2. Slice(m, a, n) \in [1..n -> Bytes]
    BY <1>1 DEF Slice, Memory
  <1> QED
    BY <1>2, FunctionIsSeq

(* A write leaves a memory. *)
LEMMA WriteType ==
  ASSUME NEW m \in Memory, NEW a \in Nat, NEW bytes \in Seq(Bytes)
  PROVE  Write(m, a, bytes) \in Memory
  <1>1. Len(bytes) \in Nat
    BY LenProperties
  <1>2. ASSUME NEW b \in Addresses
        PROVE  (IF a <= b /\ b < a + Len(bytes) THEN bytes[b - a + 1]
                ELSE m[b]) \in Bytes
    <2>1. CASE a <= b /\ b < a + Len(bytes)
      <3>1. b - a + 1 \in 1..Len(bytes)
        BY <1>1, <2>1, Constants DEF Addresses
      <3> QED
        BY <2>1, <3>1, ElementOfSeq
    <2>2. CASE ~(a <= b /\ b < a + Len(bytes))
      BY <2>2 DEF Memory
    <2> QED
      BY <2>1, <2>2
  <1> QED
    BY <1>2 DEF Write, Memory

(* What was written is read back. *)
LEMMA ReadWritten ==
  ASSUME NEW m \in Memory, NEW a \in Nat, NEW n \in Nat, a + n <= U64_MAX,
         NEW bytes \in [1..n -> Bytes]
  PROVE  Slice(Write(m, a, bytes), a, n) = bytes
  <1>1. bytes \in Seq(Bytes) /\ Len(bytes) = n
    BY FunctionIsSeq
  <1>2. ASSUME NEW k \in 1..n
        PROVE  Write(m, a, bytes)[a + k - 1] = bytes[k]
    <2>1. /\ a + k - 1 \in Addresses /\ a <= a + k - 1 /\ a + k - 1 < a + n
          /\ (a + k - 1) - a + 1 = k
      BY Constants DEF Addresses
    <2> QED
      BY <1>1, <2>1 DEF Write
  <1>3. Slice(Write(m, a, bytes), a, n) = [k \in 1..n |-> bytes[k]]
    BY <1>2 DEF Slice
  <1> QED
    BY <1>3

(* A byte outside of what is written stays. *)
LEMMA WriteElsewhere ==
  ASSUME NEW m, NEW a \in Nat, NEW bytes \in Seq(Bytes), NEW b \in Addresses,
         b < a \/ b >= a + Len(bytes)
  PROVE  Write(m, a, bytes)[b] = m[b]
  <1>1. Len(bytes) \in Nat
    BY LenProperties
  <1>2. ~(a <= b /\ b < a + Len(bytes))
    BY <1>1, Constants DEF Addresses
  <1> QED
    BY <1>2 DEF Write

(* So do the n bytes at a, if what is written next does not overlap them.  *)
LEMMA ReadBeside ==
  ASSUME NEW m \in Memory, NEW a \in Nat, NEW n \in Nat, a + n <= U64_MAX,
         NEW c \in Nat, NEW bytes \in Seq(Bytes),
         IsNonoverlapping(a, n, c, Len(bytes))
  PROVE  Slice(Write(m, c, bytes), a, n) = Slice(m, a, n)
  <1>1. Len(bytes) \in Nat
    BY LenProperties
  <1>2. ASSUME NEW k \in 1..n
        PROVE  Write(m, c, bytes)[a + k - 1] = m[a + k - 1]
    <2>1. /\ a + k - 1 \in Addresses
          /\ a + k - 1 < c \/ a + k - 1 >= c + Len(bytes)
      BY <1>1, Constants DEF Addresses, IsNonoverlapping
    <2> QED
      BY <2>1, WriteElsewhere
  <1> QED
    BY <1>2 DEF Slice

(* A range that is translated ends within the address space. *)
LEMMA MappedRange ==
  ASSUME mapping \in Mappings, NEW access, NEW a \in Nat, NEW n \in Nat,
         Maps(mapping, access, a, n)
  PROVE  a + n <= U64_MAX /\ a < U64_MAX
  <1>1. PICK r \in mapping : Holds(r, access, a) /\ a + n <= r.end
    BY DEF Maps
  <1>2. r.end \in 0..U64_MAX
    BY MappingsAssumption DEF RegionType, U64Values
  <1> QED
    BY <1>1, <1>2, Constants DEF Holds

(* A range that translates lies within the address space. *)
LEMMA ByteRangeMapped ==
  ASSUME mapping \in Mappings, NEW access, NEW a \in Nat, NEW n \in Nat,
         n <= U64_MAX, TranslateSlice(access, a, n, 1)
  PROVE  n = 0 \/ a + n <= U64_MAX
  <1>1. SaturatingMul(n, 1) = n
    BY Constants DEF SaturatingMul
  <1> QED
    BY <1>1, MappedRange DEF TranslateSlice

(* A set of indices has a first. *)
LEMMA LeastExists ==
  ASSUME NEW I \in SUBSET Nat, I # {}
  PROVE  \E i \in I : \A j \in I : i <= j
  <1> DEFINE R == OpToRel(<, Nat)
  <1>1. PICK i \in I : \A j \in I : ~(<<j, i>> \in R)
    BY NatLessThanWellFounded, WFMin
  <1>2. \A j \in I : ~(j < i)
    BY <1>1 DEF OpToRel
  <1> QED
    BY <1>2

-----------------------------------------------------------------------------
(* The seeds of a search, once they are found to be in order.              *)
LEMMA SeedsErrorNone ==
  ASSUME NEW n \in Nat, NEW fats, DOMAIN fats = 1..n,
         SeedsError(fats) = "none"
  PROVE  \A k \in 1..n : SeedError(fats[k]) = "none"
  <1> DEFINE bad == {k \in DOMAIN fats : SeedError(fats[k]) # "none"}
  <1>1. bad \in SUBSET Nat
    OBVIOUS
  <1>2. SUFFICES ASSUME bad # {}
                 PROVE  FALSE
    OBVIOUS
  <1>3. \E k \in bad : \A j \in bad : k <= j
    BY <1>1, <1>2, LeastExists
  <1>4. (CHOOSE k \in bad : \A j \in bad : k <= j) \in bad
    BY <1>3
  <1> QED
    BY <1>2, <1>4 DEF SeedsError

(* The slices that translate_program_address_inputs reads have an address  *)
(* and a length each.                                                      *)
LEMMA FatTypes ==
  ASSUME mapping \in Mappings, mem \in Memory, NEW args \in SearchArgs,
         InputsError(args) = "none"
  PROVE  /\ args.seeds_len \in 0..MAX_SEEDS
         /\ \A k \in 1..args.seeds_len :
              Fats(args)[k].ptr \in Nat /\ Fats(args)[k].len \in Nat
  <1> DEFINE a == args.seeds_addr
             n == args.seeds_len
  <1>1. a \in 0..U64_MAX /\ n \in 0..U64_MAX
    BY SyscallsAssumption DEF U64Values
  <1>2. n <= MAX_SEEDS /\ TranslateSlice("Load", a, n, FAT)
    BY <1>1, Constants DEF InputsError
  <1>3. ASSUME NEW k \in 1..n
        PROVE  Fats(args)[k].ptr \in Nat /\ Fats(args)[k].len \in Nat
    <2>1. SaturatingMul(n, FAT) = 2 * n
      BY <1>1, <1>2, Constants DEF SaturatingMul
    <2>2. Maps(mapping, "Load", a, 2 * n)
      BY <1>1, <1>2, <1>3, <2>1 DEF TranslateSlice
    <2>3. a + 2 * n <= U64_MAX
      BY <1>1, <2>2, MappedRange, Constants
    <2>4. FAT * (k - 1) = 2 * (k - 1)
      BY Constants
    <2>5. a + 2 * (k - 1) \in Addresses /\ a + 2 * (k - 1) + 1 \in Addresses
      BY <1>1, <2>3, Constants DEF Addresses
    <2>6. mem[a + 2 * (k - 1)] \in Bytes /\ mem[a + 2 * (k - 1) + 1] \in Bytes
      BY <2>5 DEF Memory
    <2>7. Bytes \subseteq Nat
      BY Constants DEF Bytes
    <2> QED
      BY <2>4, <2>6, <2>7 DEF Fats
  <1> QED
    BY <1>1, <1>2, <1>3, Constants

(* The inputs of an address search that pass the checks are seeds and a    *)
(* program id.                                                             *)
LEMMA SeedTypes ==
  ASSUME mapping \in Mappings, mem \in Memory, NEW args \in SearchArgs,
         InputsError(args) = "none"
  PROVE  /\ Seeds(args) \in [1..args.seeds_len -> SeedValues]
         /\ args.seeds_len \in 0..MAX_SEEDS
         /\ Slice(mem, args.program_id_addr, PUBKEY) \in Pubkeys
  <1> DEFINE n == args.seeds_len
  <1>1. /\ n \in 0..MAX_SEEDS
        /\ \A k \in 1..n :
             Fats(args)[k].ptr \in Nat /\ Fats(args)[k].len \in Nat
    BY FatTypes
  <1>2. SeedsError(Fats(args)) = "none"
    BY DEF InputsError
  <1>3. \A k \in 1..n : SeedError(Fats(args)[k]) = "none"
    <2>1. DOMAIN Fats(args) = 1..n /\ n \in Nat
      BY <1>1, Constants DEF Fats
    <2> QED
      BY <1>2, <2>1, SeedsErrorNone
  <1>4. ASSUME NEW k \in 1..n
        PROVE  Slice(mem, Fats(args)[k].ptr, Fats(args)[k].len) \in SeedValues
    <2> DEFINE ptr == Fats(args)[k].ptr
               len == Fats(args)[k].len
    <2>1. ptr \in Nat /\ len \in Nat
      BY <1>1, <1>4
    <2>2. len <= MAX_SEED_LEN /\ TranslateSlice("Load", ptr, len, 1)
      BY <1>3, <1>4, <2>1, Constants DEF SeedError
    <2>3. len = 0 \/ ptr + len <= U64_MAX
      BY <2>1, <2>2, ByteRangeMapped, Constants
    <2>4. Slice(mem, ptr, len) \in [1..len -> Bytes]
      BY <2>1, <2>3, SliceType
    <2>5. len \in 0..MAX_SEED_LEN
      BY <2>1, <2>2, Constants
    <2> QED
      BY <2>4, <2>5 DEF SeedValues
  <1>5. Slice(mem, args.program_id_addr, PUBKEY) \in Pubkeys
    <2>1. args.program_id_addr \in Nat
      BY SyscallsAssumption, Constants DEF U64Values
    <2>2. Maps(mapping, "Load", args.program_id_addr, PUBKEY)
      BY DEF InputsError, TranslateType
    <2> QED
      BY <2>1, <2>2, MappedRange, SliceType, Constants DEF Pubkeys
  <1>6. Seeds(args) \in [1..n -> SeedValues]
    BY <1>4 DEF Seeds
  <1> QED
    BY <1>1, <1>5, <1>6

(* Pubkey::create_program_address gives an address or none. *)
LEMMA CreateType ==
  ASSUME NEW n \in 0..MAX_SEEDS, NEW seeds \in [1..n -> SeedValues],
         NEW bump \in 0..U8_MAX, NEW program_id \in Pubkeys
  PROVE  CreateProgramAddress(seeds, bump, program_id) \in Pubkeys \union {None}
  <1>1. n \in Nat /\ Len(seeds) = n
    BY FunctionIsSeq, Constants
  <1>2. CASE n + 1 > MAX_SEEDS
    BY <1>1, <1>2 DEF CreateProgramAddress
  <1>3. CASE ~(n + 1 > MAX_SEEDS)
    <2>1. n \in 0..(MAX_SEEDS - 1)
      BY <1>1, <1>3, Constants
    <2>2. seeds \in SeedLists
      BY <2>1 DEF SeedLists
    <2> QED
      BY <1>1, <1>3, <2>2, DeriveAssumption DEF CreateProgramAddress
  <1> QED
    BY <1>2, <1>3

-----------------------------------------------------------------------------
(* An error ends the run. *)
Alive == pc # "ended" => result.error = "none"

(* The search has tried the bumps above bump_seed, one for each try, and   *)
(* none of them gives an address.                                          *)
Searching ==
  pc = "searching" =>
    /\ last.name = "find" /\ last.args \in SearchArgs
    /\ \E n \in 0..MAX_SEEDS : last.seeds \in [1..n -> SeedValues]
    /\ last.program_id \in Pubkeys
    /\ bump_seed = U8_MAX - tries
    /\ \A b \in (bump_seed + 1)..U8_MAX : ~Gives(b)

IInv ==
  /\ TypeOK
  /\ GetDelivers
  /\ FindsHighest
  /\ Alive
  /\ Searching

(* What every step does: it keeps the invariant, and if it fails, the      *)
(* state.                                                                  *)
Kept == IInv' /\ LeavesState

-----------------------------------------------------------------------------
(* A run begins in a state of the invariant. *)
LEMMA InitInvariant == Init => IInv
  <1> SUFFICES ASSUME Init
               PROVE  IInv
    OBVIOUS
  <1> USE DEF Init
  <1>1. return_data.pid \in Pubkeys
    BY Constants DEF Pubkeys, Bytes
  <1>2. mem \in [Addresses -> Bytes]
    BY SyscallsAssumption
  <1>3. return_data.data \in Seq(Bytes) /\ Len(return_data.data) = 0
    BY EmptySeq
  <1>4. logs = None \/ logs \in Seq(Seq(Bytes))
    BY EmptySeq
  <1>5. result \in [error : Errors, r0 : Nat]
    BY DEF Errors
  <1>6. TypeOK
    BY <1>1, <1>2, <1>3, <1>4, <1>5, Constants DEF TypeOK
  <1> QED
    BY <1>6 DEF IInv, GetDelivers, FindsHighest, Alive, Searching

(* The parts of the type invariant that the steps use. *)
LEMMA Types ==
  ASSUME TypeOK
  PROVE  /\ mapping \in Mappings /\ mem \in Memory
         /\ return_data.pid \in Pubkeys /\ return_data.data \in Seq(Bytes)
         /\ Len(return_data.data) \in Nat
         /\ tries \in Nat /\ bump_seed \in Nat
  BY Constants, LenProperties DEF TypeOK, Memory

(* Arguments of syscalls are numbers. *)
LEMMA ArgumentTypes ==
  /\ Pointers \subseteq Nat /\ Lengths \subseteq Nat
  /\ \A n \in Lengths : n <= U64_MAX
  /\ \A a \in SearchArgs :
       /\ a.bump_seed_addr \in Nat /\ a.address_addr \in Nat
  BY SyscallsAssumption, Constants DEF U64Values

(* A syscall that returns leaves the program running. *)
LEMMA OkFacts ==
  ASSUME NEW r0 \in Nat, Ok(r0)
  PROVE  /\ pc' = "running" /\ result' \in [error : Errors, r0 : Nat]
         /\ result'.error = "none" /\ result'.r0 = r0
  BY DEF Ok, Errors

(* A syscall that fails ends the run. *)
LEMMA ErrFacts ==
  ASSUME NEW e \in Errors, Err(e)
  PROVE  pc' = "ended" /\ result' \in [error : Errors, r0 : Nat]
  BY DEF Err

(* A call keeps the types of what it does not touch. *)
LEMMA CallTypes ==
  ASSUME TypeOK, NEW call, Called(call), mem' \in Memory,
         return_data'.pid \in Pubkeys, return_data'.data \in Seq(Bytes),
         Len(return_data'.data) <= MAX_RETURN_DATA,
         logs' = None \/ logs' \in Seq(Seq(Bytes)),
         pc' \in {"running", "searching", "ended"},
         result' \in [error : Errors, r0 : Nat],
         tries' \in 0..U8_MAX, bump_seed' \in 0..U8_MAX
  PROVE  TypeOK'
  <1>1. calls' \in 0..MaxCalls
    BY Constants DEF TypeOK, Called
  <1> QED
    BY <1>1 DEF TypeOK, Called, Memory

(* FailuresLeave asks nothing of a success. *)
LEMMA SuccessLeaves ==
  ASSUME result'.error = "none"
  PROVE  LeavesState
  BY DEF LeavesState

(* A step that changes nothing leaves everything. *)
LEMMA NothingLeaves ==
  ASSUME UNCHANGED <<mem, return_data, logs>>
  PROVE  LeavesState
  BY DEF LeavesState

(* A call that fails before it has changed anything. *)
LEMMA Failed ==
  ASSUME IInv, NEW call, Called(call), NEW e \in Errors, Err(e),
         UNCHANGED <<mem, return_data, logs, search>>
  PROVE  Kept
  <1>1. TypeOK'
    BY ErrFacts, CallTypes DEF IInv, TypeOK, Memory, search
  <1>2. pc' = "ended"
    BY ErrFacts
  <1> QED
    BY <1>1, <1>2, NothingLeaves
    DEF Kept, IInv, GetDelivers, FindsHighest, Alive, Searching

(* A call other than the two with a property of their own that succeeds.   *)
LEMMA Succeeded ==
  ASSUME IInv, NEW call, Called(call), call.name \notin {"get", "find"},
         NEW r0 \in Nat, Ok(r0), UNCHANGED search, mem' \in Memory,
         return_data'.pid \in Pubkeys, return_data'.data \in Seq(Bytes),
         Len(return_data'.data) <= MAX_RETURN_DATA,
         logs' = None \/ logs' \in Seq(Seq(Bytes))
  PROVE  Kept
  <1>1. TypeOK'
    BY OkFacts, CallTypes DEF IInv, TypeOK, search
  <1>2. pc' = "running" /\ result'.error = "none" /\ last' = call
    BY OkFacts DEF Called
  <1> QED
    BY <1>1, <1>2, SuccessLeaves
    DEF Kept, IInv, GetDelivers, FindsHighest, Alive, Searching

-----------------------------------------------------------------------------
(* A store of the program makes earlier answers history. *)
LEMMA StoreStep ==
  ASSUME IInv, NEW a \in Pointers, Store(a, BAD)
  PROVE  Kept
  <1> DEFINE call == [name |-> "store", addr |-> a]
  <1>1. <<BAD>> \in Seq(Bytes)
    BY Constants DEF Bytes
  <1>2. mem' \in Memory
    BY <1>1, Types, WriteType, ArgumentTypes DEF Store, IInv
  <1>3. /\ Called(call) /\ call.name = "store" /\ Ok(0)
        /\ UNCHANGED <<return_data, logs, search>>
    BY DEF Store
  <1> HIDE DEF call
  <1> QED
    BY <1>2, <1>3, Succeeded DEF IInv, TypeOK

(* sol_set_return_data replaces the data, or fails before it does. *)
LEMMA SetReturnDataStep ==
  ASSUME IInv, NEW addr \in Pointers, NEW len \in Lengths,
         SetReturnData(addr, len)
  PROVE  Kept
  <1> DEFINE call == [name |-> "set"]
  <1>1. Called(call) /\ call.name = "set" /\ UNCHANGED <<mem, logs, search>>
    BY DEF SetReturnData
  <1> HIDE DEF call
  <1>2. ASSUME NEW e \in {"ReturnDataTooLarge", "AccessViolation"}, Err(e),
               UNCHANGED return_data
        PROVE  Kept
    BY <1>1, <1>2, Failed DEF Errors
  <1>3. CASE /\ ~TooLarge(len)
             /\ TranslateSlice("Load", addr, len, 1)
             /\ return_data' = [pid |-> ProgramId, data |-> Slice(mem, addr, len)]
             /\ Ok(0)
    <2>1. addr \in Nat /\ len \in Nat /\ len <= U64_MAX
      BY ArgumentTypes
    <2>2. len = 0 \/ addr + len <= U64_MAX
      BY <1>3, <2>1, Types, ByteRangeMapped DEF IInv
    <2>3. Slice(mem, addr, len) \in Seq(Bytes) /\ Len(Slice(mem, addr, len)) = len
      BY <2>1, <2>2, Types, SliceType DEF IInv
    <2>4. /\ return_data'.pid \in Pubkeys /\ return_data'.data \in Seq(Bytes)
          /\ Len(return_data'.data) <= MAX_RETURN_DATA
      BY <1>3, <2>1, <2>3, SyscallsAssumption, Constants DEF TooLarge
    <2> QED
      BY <1>1, <1>3, <2>4, Succeeded DEF IInv, TypeOK, Memory
  <1> QED
    BY <1>2, <1>3 DEF SetReturnData

(* sol_log_ adds a message, or fails before it does. *)
LEMMA LogStep ==
  ASSUME IInv, NEW addr \in Pointers, NEW len \in Lengths, Log(addr, len)
  PROVE  Kept
  <1> DEFINE call == [name |-> "log"]
  <1>1. /\ Called(call) /\ call.name = "log"
        /\ UNCHANGED <<mem, return_data, search>>
    BY DEF Log
  <1> HIDE DEF call
  <1>2. CASE Err(StringError(addr, len)) /\ UNCHANGED logs
    <2>1. StringError(addr, len) \in Errors
      BY DEF StringError, Errors
    <2> QED
      BY <1>1, <1>2, <2>1, Failed
  <1>3. CASE /\ StringError(addr, len) = "none"
             /\ logs' = IF logs = None THEN None
                        ELSE Append(logs, Slice(mem, addr, len))
             /\ Ok(0)
    <2>1. addr \in Nat /\ len \in Nat /\ len <= U64_MAX
      BY ArgumentTypes
    <2>2. len = 0 \/ addr + len <= U64_MAX
      BY <1>3, <2>1, Types, ByteRangeMapped DEF IInv, StringError
    <2>3. Slice(mem, addr, len) \in Seq(Bytes)
      BY <2>1, <2>2, Types, SliceType DEF IInv
    <2>4. logs' = None \/ logs' \in Seq(Seq(Bytes))
      <3>1. CASE logs = None
        BY <1>3, <3>1
      <3>2. CASE logs # None
        <4>1. logs \in Seq(Seq(Bytes))
          BY <3>2 DEF IInv, TypeOK
        <4> QED
          BY <1>3, <2>3, <3>2, <4>1, AppendProperties
      <3> QED
        BY <3>1, <3>2
    <2> QED
      BY <1>1, <1>3, <2>4, Succeeded DEF IInv, TypeOK, Memory
  <1> QED
    BY <1>2, <1>3 DEF Log

(* sol_panic_ ends the run. *)
LEMMA PanicStep ==
  ASSUME IInv, NEW file, NEW len, Panic(file, len)
  PROVE  Kept
  BY Failed DEF Panic, Errors

(* abort ends the run. *)
LEMMA AbortStep ==
  ASSUME IInv, Abort
  PROVE  Kept
  BY Failed DEF Abort, Errors

(* sol_get_clock_sysvar writes the clock, or fails before it does. *)
LEMMA GetClockSysvarStep ==
  ASSUME IInv, NEW addr \in Pointers, GetClockSysvar(addr)
  PROVE  Kept
  <1> DEFINE call == [name |-> "clock", addr |-> addr]
  <1>1. /\ Called(call) /\ call.name = "clock"
        /\ UNCHANGED <<return_data, logs, search>>
    BY DEF GetClockSysvar
  <1> HIDE DEF call
  <1>2. ASSUME NEW e \in {"AccessViolation", "UnsupportedSysvar"}, Err(e),
               UNCHANGED mem
        PROVE  Kept
    BY <1>1, <1>2, Failed DEF Errors
  <1>3. CASE clock # <<>> /\ mem' = Write(mem, addr, clock) /\ Ok(0)
    <2>1. clock \in Seq(Bytes)
      BY <1>3, SyscallsAssumption DEF IInv, TypeOK
    <2>2. mem' \in Memory
      BY <1>3, <2>1, Types, WriteType, ArgumentTypes DEF IInv
    <2> QED
      BY <1>1, <1>3, <2>2, Succeeded DEF IInv, TypeOK
  <1> QED
    BY <1>2, <1>3 DEF GetClockSysvar

(* The data is written first, then the program id beside it. *)
LEMMA GetReturnDataStep ==
  ASSUME IInv, NEW addr \in Pointers, NEW length \in Lengths,
         NEW pid_addr \in Pointers, GetReturnData(addr, length, pid_addr)
  PROVE  Kept
  <1> DEFINE n == Shorter(length, Len(return_data.data))
             bytes == SubSeq(return_data.data, 1, n)
             copied == Write(mem, addr, bytes)
             call == [name |-> "get", addr |-> addr, n |-> n,
                      pid_addr |-> pid_addr]
  <1>1. /\ Called(call) /\ UNCHANGED <<return_data, logs, search>>
        /\ call.name = "get" /\ call.addr = addr /\ call.n = n
        /\ call.pid_addr = pid_addr
    BY DEF GetReturnData
  <1>2. /\ \/ n = 0 /\ Ok(Len(return_data.data)) /\ UNCHANGED mem
           \/ Err("AccessViolation") /\ UNCHANGED mem
           \/ /\ n > 0 /\ TranslateSlice("Store", addr, n, 1)
              /\ \/ \E e \in {"AccessViolation", "CopyOverlapping"} :
                      Err(e) /\ mem' = copied
                 \/ /\ TranslateType("Store", pid_addr, PUBKEY)
                    /\ IsNonoverlapping(addr, n, pid_addr, PUBKEY)
                    /\ mem' = Write(copied, pid_addr, return_data.pid)
                    /\ Ok(Len(return_data.data))
    BY DEF GetReturnData
  <1>3. /\ addr \in Nat /\ pid_addr \in Nat /\ length \in Nat
        /\ mapping \in Mappings /\ mem \in Memory
        /\ return_data.data \in Seq(Bytes) /\ Len(return_data.data) \in Nat
        /\ return_data.pid \in Pubkeys
    BY Types, ArgumentTypes DEF IInv
  <1>4. n \in Nat /\ n <= Len(return_data.data) /\ n <= U64_MAX
    BY <1>3, ArgumentTypes, Constants DEF Shorter
  <1>5. bytes \in [1..n -> Bytes] /\ bytes \in Seq(Bytes) /\ Len(bytes) = n
    <2>1. \A k \in 1..n : k \in 1..Len(return_data.data)
      BY <1>3, <1>4
    <2>2. bytes = [k \in 1..n |-> return_data.data[k]]
      BY <1>3, <1>4, <2>1, SubSeqProperties
    <2>3. bytes \in [1..n -> Bytes]
      BY <1>3, <2>1, <2>2, ElementOfSeq
    <2> QED
      BY <1>4, <2>3, FunctionIsSeq
  <1> HIDE DEF n, bytes, copied, call
  <1>6. copied \in Memory
    BY <1>3, <1>5, WriteType DEF copied
  <1>7. last' = call /\ pc = "running"
    BY <1>1 DEF Called
  <1>8. CASE n = 0 /\ Ok(Len(return_data.data)) /\ UNCHANGED mem
    <2>1. /\ pc' = "running" /\ result' \in [error : Errors, r0 : Nat]
          /\ result'.error = "none" /\ result'.r0 = Len(return_data.data)
      BY <1>3, <1>8, OkFacts
    <2>2. TypeOK'
      BY <1>1, <1>8, <2>1, CallTypes DEF IInv, TypeOK, Memory, search
    <2>3. GetDelivers'
      BY <1>1, <1>7, <1>8, <2>1 DEF GetDelivers
    <2> QED
      BY <1>1, <1>7, <2>1, <2>2, <2>3, SuccessLeaves
      DEF Kept, IInv, FindsHighest, Alive, Searching
  <1>9. CASE Err("AccessViolation") /\ UNCHANGED mem
    BY <1>1, <1>9, Failed DEF Errors
  <1>10. ASSUME NEW e \in {"AccessViolation", "CopyOverlapping"}, Err(e),
                mem' = copied
         PROVE  Kept
    <2>1. pc' = "ended" /\ result' \in [error : Errors, r0 : Nat]
      BY <1>10, ErrFacts DEF Errors
    <2>2. TypeOK'
      BY <1>1, <1>6, <1>10, <2>1, CallTypes DEF IInv, TypeOK, search
    <2>3. LeavesState
      <3>1. ASSUME NEW a \in Addresses, mem'[a] # mem[a]
            PROVE  a \in addr..(addr + n - 1)
        <4>1. ~(a < addr \/ a >= addr + n)
          BY <1>3, <1>5, <1>10, <3>1, WriteElsewhere DEF copied
        <4> QED
          BY <1>3, <1>4, <4>1, Constants DEF Addresses
      <3> QED
        BY <1>1, <1>7, <3>1 DEF LeavesState
    <2> QED
      BY <2>1, <2>2, <2>3
      DEF Kept, IInv, GetDelivers, FindsHighest, Alive, Searching
  <1>11. CASE /\ n > 0 /\ TranslateSlice("Store", addr, n, 1)
              /\ TranslateType("Store", pid_addr, PUBKEY)
              /\ IsNonoverlapping(addr, n, pid_addr, PUBKEY)
              /\ mem' = Write(copied, pid_addr, return_data.pid)
              /\ Ok(Len(return_data.data))
    <2>1. /\ pc' = "running" /\ result' \in [error : Errors, r0 : Nat]
          /\ result'.error = "none" /\ result'.r0 = Len(return_data.data)
      BY <1>3, <1>11, OkFacts
    <2>2. /\ return_data.pid \in [1..PUBKEY -> Bytes]
          /\ return_data.pid \in Seq(Bytes) /\ Len(return_data.pid) = PUBKEY
      BY <1>3, FunctionIsSeq, Constants DEF Pubkeys
    <2>3. mem' \in Memory
      BY <1>3, <1>6, <1>11, <2>2, WriteType
    <2>4. TypeOK'
      BY <1>1, <2>1, <2>3, CallTypes DEF IInv, TypeOK, search
    <2>5. addr + n <= U64_MAX
      BY <1>3, <1>4, <1>11, ByteRangeMapped
    <2>6. pid_addr + PUBKEY <= U64_MAX
      BY <1>3, <1>11, MappedRange, Constants DEF TranslateType
    <2>7. Slice(mem', addr, n) = bytes
      <3>1. Slice(copied, addr, n) = bytes
        BY <1>3, <1>4, <1>5, <2>5, ReadWritten DEF copied
      <3>2. Slice(mem', addr, n) = Slice(copied, addr, n)
        BY <1>3, <1>4, <1>6, <1>11, <2>2, <2>5, ReadBeside
      <3> QED
        BY <3>1, <3>2
    <2>8. Slice(mem', pid_addr, PUBKEY) = return_data.pid
      BY <1>3, <1>6, <1>11, <2>2, <2>6, ReadWritten, Constants
    <2>9. GetDelivers'
      BY <1>1, <1>7, <2>1, <2>7, <2>8 DEF GetDelivers, bytes
    <2> QED
      BY <1>1, <1>7, <2>1, <2>4, <2>9, SuccessLeaves
      DEF Kept, IInv, FindsHighest, Alive, Searching
  <1> QED
    BY <1>2, <1>8, <1>9, <1>10, <1>11

-----------------------------------------------------------------------------
(* A search begins with nothing tried, or fails on its inputs. *)
LEMMA TryFindProgramAddressStep ==
  ASSUME IInv, NEW args \in SearchArgs, TryFindProgramAddress(args)
  PROVE  Kept
  <1>1. UNCHANGED <<mem, return_data, logs>>
    BY DEF TryFindProgramAddress
  <1>2. CASE InputsError(args) # "none"
    <2>1. InputsError(args) \in Errors
      BY DEF InputsError, SeedsError, SeedError, Errors
    <2>2. /\ Err(InputsError(args)) /\ UNCHANGED search
          /\ Called([name |-> "find", args |-> args, seeds |-> <<>>,
                     program_id |-> <<>>])
      BY <1>2 DEF TryFindProgramAddress
    <2> QED
      BY <1>1, <2>1, <2>2, Failed
  <1>3. CASE InputsError(args) = "none"
    <2> DEFINE program_id == Slice(mem, args.program_id_addr, PUBKEY)
               call == [name |-> "find", args |-> args, seeds |-> Seeds(args),
                        program_id |-> program_id]
    <2>1. /\ Called(call) /\ pc' = "searching" /\ tries' = 0
          /\ bump_seed' = U8_MAX /\ UNCHANGED result
      BY <1>3 DEF TryFindProgramAddress
    <2>2. /\ call.name = "find" /\ call.args = args /\ call.seeds = Seeds(args)
          /\ call.program_id = program_id
      OBVIOUS
    <2>3. /\ \E n \in 0..MAX_SEEDS : Seeds(args) \in [1..n -> SeedValues]
          /\ program_id \in Pubkeys
      BY <1>3, Types, SeedTypes DEF IInv
    <2> HIDE DEF program_id, call
    <2>4. last' = call /\ pc = "running"
      BY <2>1 DEF Called
    <2>5. TypeOK'
      BY <1>1, <2>1, CallTypes, Constants DEF IInv, TypeOK, Memory
    <2>6. Searching'
      BY <2>1, <2>2, <2>3, <2>4, Constants DEF Searching
    <2>7. Alive'
      BY <2>1, <2>4 DEF IInv, Alive
    <2> QED
      BY <1>1, <2>1, <2>2, <2>4, <2>5, <2>6, <2>7, NothingLeaves
      DEF Kept, IInv, GetDelivers, FindsHighest
  <1> QED
    BY <1>2, <1>3

(* The bump and the address are written beside each other. *)
LEMMA FoundStep ==
  ASSUME IInv, pc = "searching", TriesLeft, Candidate # None, Found,
         UNCHANGED <<search, mapping, return_data, logs, clock, last, calls>>
  PROVE  Kept
  <1> DEFINE a == last.args
  <1>1. /\ last.name = "find" /\ a \in SearchArgs
        /\ last.program_id \in Pubkeys
        /\ bump_seed = U8_MAX - tries
        /\ \A b \in (bump_seed + 1)..U8_MAX : ~Gives(b)
    BY DEF IInv, Searching
  <1>2. PICK n \in 0..MAX_SEEDS : last.seeds \in [1..n -> SeedValues]
    BY DEF IInv, Searching
  <1>3. bump_seed \in 1..U8_MAX /\ bump_seed \in 0..U8_MAX
    BY <1>1, Constants DEF TriesLeft, IInv, TypeOK
  <1>4. Candidate \in Pubkeys
    BY <1>1, <1>2, <1>3, CreateType DEF Candidate
  <1>5. /\ Candidate \in [1..PUBKEY -> Bytes]
        /\ Candidate \in Seq(Bytes) /\ Len(Candidate) = PUBKEY
    BY <1>4, FunctionIsSeq, Constants DEF Pubkeys
  <1>6. mapping \in Mappings /\ mem \in Memory
    BY Types DEF IInv
  <1>7. a.bump_seed_addr \in Nat /\ a.address_addr \in Nat
    BY <1>1, ArgumentTypes
  <1>8. ASSUME NEW e \in {"AccessViolation", "CopyOverlapping"}, Err(e),
               UNCHANGED mem
        PROVE  Kept
    <2>1. pc' = "ended" /\ result' \in [error : Errors, r0 : Nat]
      BY <1>8, ErrFacts DEF Errors
    <2>2. TypeOK'
      BY <1>8, <2>1 DEF IInv, TypeOK, search
    <2> QED
      BY <1>8, <2>1, <2>2, NothingLeaves
      DEF Kept, IInv, GetDelivers, FindsHighest, Alive, Searching
  <1>9. CASE /\ TranslateType("Store", a.bump_seed_addr, 1)
             /\ TranslateSlice("Store", a.address_addr, PUBKEY, 1)
             /\ IsNonoverlapping(a.bump_seed_addr, 1, a.address_addr, PUBKEY)
             /\ mem' = Write(Write(mem, a.bump_seed_addr, <<bump_seed>>),
                             a.address_addr, Candidate)
             /\ Ok(0)
    <2> DEFINE bump == <<bump_seed>>
               first == Write(mem, a.bump_seed_addr, bump)
    <2>1. /\ pc' = "running" /\ result' \in [error : Errors, r0 : Nat]
          /\ result'.error = "none" /\ result'.r0 = 0
      BY <1>9, OkFacts
    <2>2. bump \in [1..1 -> Bytes] /\ bump \in Seq(Bytes) /\ bump[1] = bump_seed
      <3>1. bump_seed \in Bytes
        BY <1>3, Constants DEF Bytes
      <3> QED
        BY <3>1
    <2> HIDE DEF bump
    <2>3. first \in Memory
      BY <1>6, <1>7, <2>2, WriteType
    <2>4. mem' = Write(first, a.address_addr, Candidate)
      BY <1>9 DEF bump
    <2>5. mem' \in Memory
      BY <1>5, <1>7, <2>3, <2>4, WriteType
    <2>6. TypeOK'
      BY <2>1, <2>5 DEF IInv, TypeOK, Memory, search
    <2>7. a.bump_seed_addr + 1 <= U64_MAX
      BY <1>6, <1>7, <1>9, MappedRange DEF TranslateType
    <2>8. a.address_addr + PUBKEY <= U64_MAX
      BY <1>6, <1>7, <1>9, ByteRangeMapped, Constants
    <2>9. Slice(mem', a.address_addr, PUBKEY) = Candidate
      BY <1>5, <1>7, <2>3, <2>4, <2>8, ReadWritten, Constants
    <2>10. mem'[a.bump_seed_addr] = bump_seed
      <3>1. Slice(first, a.bump_seed_addr, 1) = bump
        BY <1>6, <1>7, <2>2, <2>7, ReadWritten
      <3>2. Slice(mem', a.bump_seed_addr, 1) = Slice(first, a.bump_seed_addr, 1)
        BY <1>5, <1>7, <1>9, <2>3, <2>4, <2>7, ReadBeside
      <3>3. Slice(mem', a.bump_seed_addr, 1)[1] = mem'[a.bump_seed_addr]
        BY <1>7 DEF Slice
      <3> QED
        BY <2>2, <3>1, <3>2, <3>3
    <2>11. Gives(bump_seed)
      BY DEF Gives, Candidate
    <2>12. UNCHANGED <<last, bump_seed>>
      BY DEF search
    <2>13. FindsHighest'
      <3>1. \A b : Gives(b)' <=> Gives(b)
        BY <2>12 DEF Gives
      <3>2. Slice(mem', last'.args.address_addr, PUBKEY)
              = CreateProgramAddress(last'.seeds, bump_seed, last'.program_id)
        BY <2>9, <2>12 DEF Candidate
      <3> QED
        BY <1>1, <1>3, <2>1, <2>10, <2>11, <2>12, <3>1, <3>2
        DEF FindsHighest, Gives
    <2> QED
      BY <1>1, <2>1, <2>6, <2>12, <2>13, SuccessLeaves
      DEF Kept, IInv, GetDelivers, Alive, Searching
  <1> QED
    BY <1>8, <1>9 DEF Found

(* A turn of the search finds an address, fails to write it, or has one    *)
(* bump fewer to try.                                                      *)
LEMMA TryStep ==
  ASSUME IInv, Try
  PROVE  Kept
  <1>1. /\ pc = "searching" /\ TriesLeft
        /\ UNCHANGED <<mapping, return_data, logs, clock, last, calls>>
    BY DEF Try
  <1>2. CASE Candidate # None /\ Found /\ UNCHANGED search
    BY <1>1, <1>2, FoundStep
  <1>3. CASE Candidate = None /\ NextBump /\ UNCHANGED <<mem, pc, result>>
    <2>1. /\ last.name = "find" /\ last.args \in SearchArgs
          /\ \E n \in 0..MAX_SEEDS : last.seeds \in [1..n -> SeedValues]
          /\ last.program_id \in Pubkeys
          /\ bump_seed = U8_MAX - tries
          /\ \A b \in (bump_seed + 1)..U8_MAX : ~Gives(b)
      BY <1>1 DEF IInv, Searching
    <2>2. /\ tries \in 0..U8_MAX /\ tries < U8_MAX
          /\ bump_seed \in 1..U8_MAX
      BY <1>1, <2>1, Constants DEF IInv, TypeOK, TriesLeft
    <2>3. /\ tries' \in 0..U8_MAX /\ bump_seed' \in 0..U8_MAX
          /\ bump_seed' = bump_seed - 1 /\ bump_seed' = U8_MAX - tries'
      BY <1>3, <2>1, <2>2, Constants DEF NextBump
    <2>4. TypeOK'
      BY <1>1, <1>3, <2>3 DEF IInv, TypeOK
    <2>5. \A b \in (bump_seed' + 1)..U8_MAX : ~Gives(b)
      <3>1. ~Gives(bump_seed)
        BY <1>3 DEF Gives, Candidate
      <3>2. \A b \in (bump_seed' + 1)..U8_MAX :
              b = bump_seed \/ b \in (bump_seed + 1)..U8_MAX
        BY <2>2, <2>3, Constants
      <3> QED
        BY <2>1, <3>1, <3>2
    <2>6. Searching'
      <3>1. \A b : Gives(b)' <=> Gives(b)
        BY <1>1 DEF Gives
      <3> QED
        BY <1>1, <2>1, <2>3, <2>5, <3>1 DEF Searching
    <2> QED
      BY <1>1, <1>3, <2>1, <2>4, <2>6, NothingLeaves
      DEF Kept, IInv, GetDelivers, FindsHighest, Alive
  <1> QED
    BY <1>2, <1>3 DEF Try

(* The search gives up when it has tried all bumps but 0. *)
LEMMA GiveUpStep ==
  ASSUME IInv, GiveUp
  PROVE  Kept
  <1>1. /\ pc = "searching" /\ ~TriesLeft
        /\ UNCHANGED <<mapping, mem, return_data, logs, clock, search, last,
                       calls>>
    BY DEF GiveUp
  <1>2. /\ pc' = "running" /\ result' \in [error : Errors, r0 : Nat]
        /\ result'.error = "none" /\ result'.r0 = 1
    BY OkFacts DEF GiveUp
  <1>3. TypeOK'
    BY <1>1, <1>2 DEF IInv, TypeOK, search
  <1>4. /\ last.name = "find"
        /\ bump_seed = U8_MAX - tries
        /\ \A b \in (bump_seed + 1)..U8_MAX : ~Gives(b)
    BY <1>1 DEF IInv, Searching
  <1>5. bump_seed + 1 = 1
    BY <1>1, <1>4, Constants DEF IInv, TypeOK, TriesLeft
  <1>6. \A b \in 1..U8_MAX : ~Gives(b)
    BY <1>4, <1>5
  <1>7. FindsHighest'
    <2>1. \A b : Gives(b)' <=> Gives(b)
      BY <1>1 DEF Gives
    <2> QED
      BY <1>2, <1>6, <2>1 DEF FindsHighest
  <1> QED
    BY <1>1, <1>2, <1>3, <1>4, <1>7, NothingLeaves
    DEF Kept, IInv, GetDelivers, Alive, Searching

(* The end of the program. *)
LEMMA ExitStep ==
  ASSUME IInv, Exit
  PROVE  Kept
  <1>1. TypeOK'
    BY DEF Exit, IInv, TypeOK, search
  <1> QED
    BY <1>1, NothingLeaves
    DEF Exit, Kept, IInv, GetDelivers, FindsHighest, Alive, Searching

(* The invariant is of the variables alone. *)
LEMMA StutterStep ==
  ASSUME IInv, UNCHANGED vars
  PROVE  Kept
  <1>1. TypeOK'
    BY DEF vars, IInv, TypeOK
  <1>2. GetDelivers' /\ Alive'
    BY DEF vars, IInv, GetDelivers, Alive
  <1>3. FindsHighest' /\ Searching'
    BY DEF vars, IInv, FindsHighest, Searching, Gives
  <1>4. LeavesState
    BY NothingLeaves DEF vars
  <1> QED
    BY <1>1, <1>2, <1>3, <1>4 DEF Kept, IInv

(* Every step keeps the invariant, and the state if it fails. *)
LEMMA NextStep ==
  ASSUME IInv, [Next]_vars
  PROVE  Kept
  BY StoreStep, SetReturnDataStep, LogStep, PanicStep, GetReturnDataStep,
     AbortStep, GetClockSysvarStep, TryFindProgramAddressStep, TryStep,
     GiveUpStep, ExitStep, StutterStep
  DEF Next, Ended

(* IInv holds in every state. *)
LEMMA Invariance == Spec => []IInv
  <1>1. IInv /\ [Next]_vars => IInv'
    BY NextStep DEF Kept
  <1> QED
    BY <1>1, InitInvariant, PTL DEF Spec

-----------------------------------------------------------------------------
(* Memory, return data, logs and the search keep their types: the return   *)
(* data never exceeds MAX_RETURN_DATA, every byte that is read or written  *)
(* lies in the address space, and the bump of the search does not wrap.    *)
THEOREM SyscallsTypeCorrect == Spec => []TypeOK
  <1>1. IInv => TypeOK
    BY DEF IInv
  <1> QED
    BY <1>1, Invariance, PTL

(* When sol_get_return_data succeeds, the program reads back the data and  *)
(* the id of the program that set it, wherever it asked for the two.       *)
THEOREM SyscallsGetDelivers == Spec => []GetDelivers
  <1>1. IInv => GetDelivers
    BY DEF IInv
  <1> QED
    BY <1>1, Invariance, PTL

(* sol_try_find_program_address finds the highest bump that gives an       *)
(* address, whatever function of the seeds gives one, and answers 1 only   *)
(* if no bump from U8_MAX down to 1 does.                                  *)
THEOREM SyscallsFindsHighest == Spec => []FindsHighest
  <1>1. IInv => FindsHighest
    BY DEF IInv
  <1> QED
    BY <1>1, Invariance, PTL

(* A syscall that fails leaves the return data, the logs and the memory as *)
(* they were, but for the data that sol_get_return_data has already        *)
(* copied.                                                                 *)
THEOREM SyscallsFailuresLeave == Spec => FailuresLeave
  <1>1. IInv /\ [Next]_vars => [LeavesState]_vars
    BY NextStep DEF Kept
  <1> QED
    BY <1>1, Invariance, PTL DEF Spec, FailuresLeave
=============================================================================
