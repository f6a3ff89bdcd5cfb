------------------------------ MODULE Syscalls ------------------------------
(***************************************************************************)
(* The syscalls of a program other than the copies of ChunkedMemmove:      *)
(* sol_set_return_data, sol_get_return_data, sol_log_, sol_panic_, abort,  *)
(* sol_get_clock_sysvar and sol_try_find_program_address, during one run.  *)
(*                                                                         *)
(* Memory is byte for byte.  A pubkey is its PUBKEY bytes, the clock its   *)
(* bytes, and a slice `&[u8]' in memory is one byte of address and one of  *)
(* length.  Each syscall is a step, but for the search of a program        *)
(* address, which is a step for every try.                                 *)
(*                                                                         *)
(* `last' is a history variable: the latest call, with what it read.       *)
(***************************************************************************)
EXTENDS MemoryMapping, Sequences

CONSTANTS
  PUBKEY,            \* size_of::<Pubkey>()
  FAT,               \* size_of::<&[u8]>()
  BAD,               \* the largest byte, the one that is not UTF-8
  U8_MAX,            \* u8::MAX
  MAX_SEEDS, MAX_SEED_LEN, MAX_RETURN_DATA,
  Clocks,            \* what the sysvar cache may hold as the clock
  ProgramId,         \* context.program_id
  Memories,          \* what memory may hold when the run begins
  Pointers, Lengths, \* addresses and lengths a program passes
  SearchArgs,        \* arguments of sol_try_find_program_address
  MaxCalls,          \* bound: syscalls and stores of a run
  Derive(_, _, _),   \* the address of seeds, bump and program id, or None
  None

Bytes == 0..BAD
Pubkeys == [1..PUBKEY -> Bytes]
SeedValues == UNION {[1..n -> Bytes] : n \in 0..MAX_SEED_LEN}
SeedLists == UNION {[1..n -> SeedValues] : n \in 0..(MAX_SEEDS - 1)}

ASSUME SyscallsAssumption ==
  /\ {PUBKEY, FAT, BAD, U8_MAX, MAX_SEEDS, MAX_SEED_LEN, MAX_RETURN_DATA,
      MaxCalls} \subseteq Nat
  /\ FAT = 2 /\ PUBKEY > 0 /\ MAX_SEEDS > 0 /\ U8_MAX > 0
  /\ U64_MAX <= BAD /\ U8_MAX <= BAD
  /\ PUBKEY <= U64_MAX /\ MAX_SEED_LEN <= U64_MAX /\ FAT * MAX_SEEDS <= U64_MAX
  /\ Pointers \subseteq U64Values /\ Lengths \subseteq U64Values
  /\ Memories \subseteq [Addresses -> Bytes]
  /\ Clocks \subseteq Seq(Bytes) /\ <<>> \notin Clocks
  /\ ProgramId \in Pubkeys
  /\ None \notin Pubkeys
  /\ SearchArgs \subseteq [seeds_addr : U64Values, seeds_len : U64Values,
                           program_id_addr : U64Values,
                           address_addr : U64Values,
                           bump_seed_addr : U64Values]
ASSUME DeriveAssumption ==
  \A seeds \in SeedLists, bump \in 0..U8_MAX, program_id \in Pubkeys :
    Derive(seeds, bump, program_id) \in Pubkeys \union {None}

VARIABLES
  mapping, mem,  \* the regions, and the bytes they hold
  return_data,   \* context.return_data: (program id, data)
  logs,          \* context.log_collector: None, or the messages
  clock,         \* context.sysvars' clock: <<>> when it is not set
  pc,            \* "running", "searching", or "ended"
  result,        \* of the latest syscall: error, and r0 when there is none
  tries, bump_seed,   \* of the search
  last, calls    \* history: the latest call; how many there were

vars == <<mapping, mem, return_data, logs, clock, pc, result, tries,
          bump_seed, last, calls>>
search == <<tries, bump_seed>>

Init ==
  /\ mapping \in Mappings
  /\ mem \in Memories
  /\ return_data = [pid |-> [k \in 1..PUBKEY |-> 0], data |-> <<>>]
  /\ logs \in {None, <<>>}
  /\ clock \in Clocks \union {<<>>}
  /\ pc = "running"
  /\ result = [error |-> "none", r0 |-> 0]
  /\ tries = 0 /\ bump_seed = 0
  /\ last = [name |-> "none"]
  /\ calls = 0

----------------------------------------------------------------------------
(* translate_slice and translate_slice_mut of n elements of a size, and    *)
(* translate_type and translate_type_mut: alignment and size are unchecked *)
(* for every caller.                                                       *)
SaturatingMul(n, size) == IF n * size > U64_MAX THEN U64_MAX ELSE n * size
TranslateSlice(access, a, n, size) ==
  n = 0 \/ Maps(mapping, access, a, SaturatingMul(n, size))
TranslateType(access, a, size) == Maps(mapping, access, a, size)

Slice(m, a, n) == [k \in 1..n |-> m[a + k - 1]]
Write(m, a, bytes) ==
  [b \in Addresses |->
     IF a <= b /\ b < a + Len(bytes) THEN bytes[b - a + 1] ELSE m[b]]

IsNonoverlapping_OtherLength(src, src_len, dst, dst_len) ==
  IF src > dst THEN src - dst >= src_len ELSE dst - src >= dst_len
IsNonoverlapping(src, src_len, dst, dst_len) ==
  IF src > dst THEN src - dst >= dst_len ELSE dst - src >= src_len

(* A syscall begins; it returns r0 to the program, or its error ends the   *)
(* run.                                                                    *)
Called(call) ==
  /\ pc = "running"
  /\ calls < MaxCalls
  /\ calls' = calls + 1
  /\ last' = call
  /\ UNCHANGED <<mapping, clock>>
Ok(r0) == pc' = "running" /\ result' = [error |-> "none", r0 |-> r0]
Err(e) == pc' = "ended" /\ result' = [error |-> e, r0 |-> 0]

(* A store by the program itself. *)
Store(a, byte) ==
  /\ Called([name |-> "store", addr |-> a])
  /\ Maps(mapping, "Store", a, 1)
  /\ mem' = Write(mem, a, <<byte>>)
  /\ Ok(0)
  /\ UNCHANGED <<return_data, logs, search>>

----------------------------------------------------------------------------
(* SyscallSetReturnData *)
TooLarge_OffByOne(len) == len > MAX_RETURN_DATA + 1
TooLarge(len) == len > MAX_RETURN_DATA
SetReturnData_ClearFirst(addr, len) ==
  /\ Called([name |-> "set"])
  /\ \/ /\ TooLarge(len)
        /\ Err("ReturnDataTooLarge")
        /\ UNCHANGED return_data
     \/ /\ ~TooLarge(len)
        /\ return_data' =
             [pid |-> ProgramId,
              data |-> IF TranslateSlice("Load", addr, len, 1)
                         THEN Slice(mem, addr, len) ELSE <<>>]
        /\ IF TranslateSlice("Load", addr, len, 1)
             THEN Ok(0) ELSE Err("AccessViolation")
  /\ UNCHANGED <<mem, logs, search>>
SetReturnData(addr, len) ==
  /\ Called([name |-> "set"])
  /\ \/ /\ TooLarge(len)
        /\ Err("ReturnDataTooLarge")
        /\ UNCHANGED return_data
     \/ /\ ~TooLarge(len)
        /\ ~TranslateSlice("Load", addr, len, 1)
        /\ Err("AccessViolation")
        /\ UNCHANGED return_data
     \/ /\ ~TooLarge(len)
        /\ TranslateSlice("Load", addr, len, 1)
        /\ return_data' = [pid |-> ProgramId, data |-> Slice(mem, addr, len)]
        /\ Ok(0)
  /\ UNCHANGED <<mem, logs, search>>

(* SyscallGetReturnData: the data is copied before the address of the      *)
(* program id is looked at.  Of no data, no address is.                    *)
Shorter(m, n) == IF m < n THEN m ELSE n
GetReturnData(addr, length, pid_addr) ==
  LET n == Shorter(length, Len(return_data.data))
      copied == Write(mem, addr, SubSeq(return_data.data, 1, n))
  IN /\ Called([name |-> "get", addr |-> addr, n |-> n,
                pid_addr |-> pid_addr])
     /\ \/ /\ n = 0
           /\ Ok(Len(return_data.data))
           /\ UNCHANGED mem
        \/ /\ n > 0
           /\ ~TranslateSlice("Store", addr, n, 1)
           /\ Err("AccessViolation")
           /\ UNCHANGED mem
        \/ /\ n > 0
           /\ TranslateSlice("Store", addr, n, 1)
           /\ \/ /\ ~TranslateType("Store", pid_addr, PUBKEY)
                 /\ Err("AccessViolation")
                 /\ mem' = copied
              \/ /\ TranslateType("Store", pid_addr, PUBKEY)
                 /\ ~IsNonoverlapping(addr, n, pid_addr, PUBKEY)
                 /\ Err("CopyOverlapping")
                 /\ mem' = copied
              \/ /\ TranslateType("Store", pid_addr, PUBKEY)
                 /\ IsNonoverlapping(addr, n, pid_addr, PUBKEY)
                 /\ mem' = Write(copied, pid_addr, return_data.pid)
                 /\ Ok(Len(return_data.data))
     /\ UNCHANGED <<return_data, logs, search>>

(* from_utf8, and the part of a string before its first NUL. *)
Utf8(s) == \A k \in DOMAIN s : s[k] # BAD
UpToNul(s) ==
  LET nuls == {k \in DOMAIN s : s[k] = 0}
  IN  SubSeq(s, 1, IF nuls = {} THEN Len(s)
                   ELSE (CHOOSE k \in nuls : \A j \in nuls : k <= j) - 1)

(* What is wrong with a string, for translate_string_and_do told not to    *)
(* truncate, and SyscallLog.                                               *)
StringError(addr, len) ==
  IF ~TranslateSlice("Load", addr, len, 1) THEN "AccessViolation"
  ELSE IF ~Utf8(Slice(mem, addr, len)) THEN "InvalidString"
  ELSE "none"
Log(addr, len) ==
  /\ Called([name |-> "log"])
  /\ \/ /\ StringError(addr, len) # "none"
        /\ Err(StringError(addr, len))
        /\ UNCHANGED logs
     \/ /\ StringError(addr, len) = "none"
        /\ logs' = IF logs = None THEN None
                   ELSE Append(logs, Slice(mem, addr, len))
        /\ Ok(0)
  /\ UNCHANGED <<mem, return_data, search>>

(* SyscallPanic, which truncates, and SyscallAbort. *)
Panic(file, len) ==
  /\ Called([name |-> "panic"])
  /\ Err(IF ~TranslateSlice("Load", file, len, 1) THEN "AccessViolation"
         ELSE IF Utf8(UpToNul(Slice(mem, file, len))) THEN "Panic"
         ELSE "InvalidString")
  /\ UNCHANGED <<mem, return_data, logs, search>>
Abort ==
  /\ Called([name |-> "abort"])
  /\ Err("Abort")
  /\ UNCHANGED <<mem, return_data, logs, search>>

(* SyscallGetClockSysvar and get_sysvar: the address first, then whether   *)
(* there is a clock.                                                       *)
ClockSize == IF Clocks = {} THEN 1 ELSE Len(CHOOSE c \in Clocks : TRUE)
GetClockSysvar(addr) ==
  /\ Called([name |-> "clock", addr |-> addr])
  /\ \/ /\ ~TranslateType("Store", addr, ClockSize)
        /\ Err("AccessViolation")
        /\ UNCHANGED mem
     \/ /\ TranslateType("Store", addr, ClockSize)
        /\ clock = <<>>
        /\ Err("UnsupportedSysvar")
        /\ UNCHANGED mem
     \/ /\ TranslateType("Store", addr, ClockSize)
        /\ clock # <<>>
        /\ mem' = Write(mem, addr, clock)
        /\ Ok(0)
  /\ UNCHANGED <<return_data, logs, search>>

----------------------------------------------------------------------------
(* The slices at seeds_addr, and what is wrong with them, if anything: the *)
(* first seed that is too long or out of bounds decides.                   *)
Fats(args) ==
  [k \in 1..args.seeds_len |->
     [ptr |-> mem[args.seeds_addr + FAT * (k - 1)],
      len |-> mem[args.seeds_addr + FAT * (k - 1) + 1]]]
SeedError(fat) ==
  IF fat.len > MAX_SEED_LEN THEN "BadSeeds"
  ELSE IF ~TranslateSlice("Load", fat.ptr, fat.len, 1) THEN "AccessViolation"
  ELSE "none"
SeedsError(fats) ==
  LET bad == {k \in DOMAIN fats : SeedError(fats[k]) # "none"}
  IN  IF bad = {} THEN "none"
      ELSE SeedError(fats[CHOOSE k \in bad : \A j \in bad : k <= j])

(* translate_and_check_program_address_inputs *)
InputsError(args) ==
  IF ~TranslateSlice("Load", args.seeds_addr, args.seeds_len, FAT)
    THEN "AccessViolation"
  ELSE IF args.seeds_len > MAX_SEEDS THEN "BadSeeds"
  ELSE IF SeedsError(Fats(args)) # "none" THEN SeedsError(Fats(args))
  ELSE IF ~TranslateType("Load", args.program_id_addr, PUBKEY)
    THEN "AccessViolation"
  ELSE "none"
Seeds(args) ==
  [k \in 1..args.seeds_len |->
     Slice(mem, Fats(args)[k].ptr, Fats(args)[k].len)]

(* SyscallTryFindProgramAddress up to its loop. *)
TryFindProgramAddress(args) ==
  /\ \/ /\ InputsError(args) # "none"
        /\ Called([name |-> "find", args |-> args, seeds |-> <<>>,
                   program_id |-> <<>>])
        /\ Err(InputsError(args))
        /\ UNCHANGED search
     \/ /\ InputsError(args) = "none"
        /\ Called([name |-> "find", args |-> args, seeds |-> Seeds(args),
                   program_id |-> Slice(mem, args.program_id_addr, PUBKEY)])
        /\ pc' = "searching"
        /\ tries' = 0
        /\ bump_seed' = U8_MAX
        /\ UNCHANGED result
  /\ UNCHANGED <<mem, return_data, logs>>

(* Pubkey::create_program_address: the bump is one more seed, and their    *)
(* number is limited here too.                                             *)
CreateProgramAddress(seeds, bump, program_id) ==
  IF Len(seeds) + 1 > MAX_SEEDS THEN None
  ELSE Derive(seeds, bump, program_id)
Candidate == CreateProgramAddress(last.seeds, bump_seed, last.program_id)

(* One turn of `for _ in 0..u8::MAX'. *)
TriesLeft_OneFewer == tries + 1 < U8_MAX
TriesLeft == tries < U8_MAX
Found ==
  LET a == last.args IN
  \/ /\ ~ /\ TranslateType("Store", a.bump_seed_addr, 1)
          /\ TranslateSlice("Store", a.address_addr, PUBKEY, 1)
     /\ Err("AccessViolation")
     /\ UNCHANGED mem
  \/ /\ TranslateType("Store", a.bump_seed_addr, 1)
     /\ TranslateSlice("Store", a.address_addr, PUBKEY, 1)
     /\ ~IsNonoverlapping(a.bump_seed_addr, 1, a.address_addr, PUBKEY)
     /\ Err("CopyOverlapping")
     /\ UNCHANGED mem
  \/ /\ TranslateType("Store", a.bump_seed_addr, 1)
     /\ TranslateSlice("Store", a.address_addr, PUBKEY, 1)
     /\ IsNonoverlapping(a.bump_seed_addr, 1, a.address_addr, PUBKEY)
     /\ mem' = Write(Write(mem, a.bump_seed_addr, <<bump_seed>>),
                     a.address_addr, Candidate)
     /\ Ok(0)

NextBump_UntilFound ==
  /\ tries' = tries
  /\ bump_seed' = IF bump_seed = 1 THEN 1 ELSE bump_seed - 1
NextBump ==
  /\ tries' = tries + 1
  /\ bump_seed' = IF bump_seed = 0 THEN 0 ELSE bump_seed - 1

Try ==
  /\ pc = "searching"
  /\ TriesLeft
  /\ \/ /\ Candidate # None
        /\ Found
        /\ UNCHANGED search
     \/ /\ Candidate = None
        /\ NextBump
        /\ UNCHANGED <<mem, pc, result>>
  /\ UNCHANGED <<mapping, return_data, logs, clock, last, calls>>
GiveUp ==
  /\ pc = "searching"
  /\ ~TriesLeft
  /\ Ok(1)
  /\ UNCHANGED <<mapping, mem, return_data, logs, clock, search, last, calls>>

Exit ==
  /\ pc = "running"
  /\ pc' = "ended"
  /\ last' = [name |-> "none"]
  /\ UNCHANGED <<mapping, mem, return_data, logs, clock, result, search, calls>>
Ended == pc = "ended" /\ UNCHANGED vars

Next ==
  \/ \E a \in Pointers : Store(a, BAD)
  \/ \E a \in Pointers, n \in Lengths :
       SetReturnData(a, n) \/ Log(a, n) \/ Panic(a, n)
  \/ \E a, p \in Pointers, n \in Lengths : GetReturnData(a, n, p)
  \/ Abort
  \/ \E a \in Pointers : GetClockSysvar(a)
  \/ \E args \in SearchArgs : TryFindProgramAddress(args)
  \/ Try \/ GiveUp \/ Exit \/ Ended

(* A syscall, once entered, runs on. *)
Spec == Init /\ [][Next]_vars /\ WF_vars(Try \/ GiveUp)

----------------------------------------------------------------------------
Errors == {"none", "AccessViolation", "ReturnDataTooLarge", "CopyOverlapping",
           "InvalidString", "Panic", "Abort", "UnsupportedSysvar", "BadSeeds"}

(* Type invariant: the return data stays within its limit, and the search  *)
(* never makes more than U8_MAX tries or lets the bump wrap.               *)
TypeOK ==
  /\ mapping \in Mappings
  /\ mem \in [Addresses -> Bytes]
  /\ return_data.pid \in Pubkeys
  /\ return_data.data \in Seq(Bytes)
  /\ Len(return_data.data) <= MAX_RETURN_DATA
  /\ logs = None \/ logs \in Seq(Seq(Bytes))
  /\ clock \in Clocks \union {<<>>}
  /\ pc \in {"running", "searching", "ended"}
  /\ result \in [error : Errors, r0 : Nat]
  /\ tries \in 0..U8_MAX
  /\ bump_seed \in 0..U8_MAX
  /\ calls \in 0..MaxCalls

(* When sol_get_return_data succeeds, the program reads back the data, as  *)
(* far as it asked for it, and the id of the program that set it: the id,  *)
(* written second, has not destroyed the data.  r0 is the whole length.    *)
GetDelivers ==
  last.name = "get" /\ pc = "running" =>
    /\ result.r0 = Len(return_data.data)
    /\ last.n > 0 =>
         /\ Slice(mem, last.addr, last.n) = SubSeq(return_data.data, 1, last.n)
         /\ Slice(mem, last.pid_addr, PUBKEY) = return_data.pid

(* sol_try_find_program_address answers 0 with the highest bump that gives *)
(* an address, and that address, both still readable; it answers 1 only if *)
(* no bump from U8_MAX down to 1 gives one.                                *)
Gives(bump) == CreateProgramAddress(last.seeds, bump, last.program_id) # None
FindsHighest ==
  last.name = "find" /\ pc = "running" =>
    \/ /\ result.r0 = 0
       /\ LET bump == mem[last.args.bump_seed_addr] IN
          /\ bump \in 1..U8_MAX
          /\ Gives(bump)
          /\ \A b \in (bump + 1)..U8_MAX : ~Gives(b)
          /\ Slice(mem, last.args.address_addr, PUBKEY)
               = CreateProgramAddress(last.seeds, bump, last.program_id)
    \/ result.r0 = 1 /\ \A b \in 1..U8_MAX : ~Gives(b)

(* A syscall that fails leaves the return data, the logs and the memory,   *)
(* which the caller reads after the run, as they were; only                *)
(* sol_get_return_data may already have copied its data, and then only     *)
(* that.                                                                   *)
LeavesState ==
  pc # "ended" /\ result'.error # "none" =>
    /\ UNCHANGED <<return_data, logs>>
    /\ \A a \in Addresses :
         mem'[a] # mem[a] =>
           last'.name = "get" /\ a \in last'.addr..(last'.addr + last'.n - 1)
FailuresLeave == [][LeavesState]_vars

(* The search for an address ends. *)
SearchEnds == pc = "searching" ~> pc # "searching"
=============================================================================
