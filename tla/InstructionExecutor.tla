------------------------ MODULE InstructionExecutor ------------------------
(***************************************************************************)
(* InstructionExecutor<A> between `new' and the end of its life: the       *)
(* update_* operations that rewrite parts of the input buffer, execute,    *)
(* which lets a program loose on it, and get_account, which reads it back. *)
(*                                                                         *)
(* The buffer is a function from byte offsets to bytes.  A byte is a pair: *)
(* <<n, 0>> is the byte n, <<p, k>> is byte k of the pubkey p.  Integers   *)
(* are little-endian and, in the model, below 256.  The default pubkey is  *)
(* 0, whose bytes are zero.                                                *)
(*                                                                         *)
(* A run of a program is a sequence of steps of its own choosing: stores   *)
(* to the fields of the accounts it found when its entrypoint parsed the   *)
(* buffer, stores to stack and heap, sol_set_return_data, and its end.     *)
(* Each of these steps takes one unit from the meter; the entrypoint's     *)
(* walk, as long as the accounts, is left uncharged so that BUDGET counts  *)
(* the steps that matter.                                                  *)
(*                                                                         *)
(* `view', `ix', `run' and `misaligned' are history variables.             *)
(***************************************************************************)
EXTENDS InputLayout, Integers, Sequences

CONSTANTS
  NumAccounts,       \* account_sizes.len()
  AccountSize,       \* account_sizes.size(i)
  InstructionSize,   \* instruction_size
  AccountOffset,     \* account_offsets, then instruction_offset
  Pubkeys,           \* the keys in use, without the default one
  ProgramIds,        \* those passed to update_program
  Elfs, BadElf,      \* what a program account may hold
  AccountInputs,     \* arguments of update_account, but for the index
  InstructionInputs, \* instructions passed to update_instruction
  BUDGET,            \* u64::MAX / 256
  MAX_RETURN_DATA,
  ReturnDataInputs,  \* lengths a program passes to sol_set_return_data
  StoredLamports, StoredDatum,   \* what a program stores in an account
  MaxRuns,           \* bound: how many times execute is called
  None

Slots == 0..(NumAccounts - 1)
InstructionOffset == AccountOffset[NumAccounts]
ProgramIdOffset == InstructionOffset + U64 + InstructionSize
BufferLen == ProgramIdOffset + PUBKEY
Addr == 0..(BufferLen - 1)
Keys == Pubkeys \union {0}
Cells == Nat \X Nat

(* What BufferConstruction shows of the offsets `new' returns. *)
ASSUME LayoutAssumption ==
  /\ NumAccounts \in Nat
  /\ AccountSize \in [Slots -> Nat]
  /\ InstructionSize \in Nat
  /\ AccountOffset \in [0..NumAccounts -> Nat]
  /\ AccountOffset[0] = U64
  /\ \A k \in Slots :
       AccountOffset[k + 1] =
         AccountOffset[k] + EmptyAccountLen(AccountSize[k])
  /\ \A k \in 0..NumAccounts : AccountOffset[k] % ALIGN = 0
  /\ \A j \in Slots, k \in 0..NumAccounts :
       j < k => AccountOffset[j] + EmptyAccountLen(AccountSize[j])
                  <= AccountOffset[k]

ASSUME BoundsAssumption ==
  /\ BUDGET \in Nat
  /\ MAX_RETURN_DATA \in Nat
  /\ MaxRuns \in Nat
  /\ ReturnDataInputs \subseteq Nat
  /\ StoredLamports \subseteq Nat
  /\ StoredDatum \in Nat
  /\ Pubkeys \subseteq Nat \ {0}
  /\ ProgramIds \subseteq Pubkeys
  /\ None \notin [elf : Elfs, pid : ProgramIds]
  /\ AccountInputs \subseteq
       [key : Keys, owner : Keys, lamports : Nat, rent_epoch : Nat,
        data : Seq(Cells), signer : BOOLEAN, writable : BOOLEAN,
        executable : BOOLEAN]
  /\ InstructionInputs \subseteq Seq(Cells)

VARIABLES
  mem,          \* buffer
  executable,   \* Option<Executable>
  program_id,   \* context.program_id
  return_data,  \* context.return_data, with the length for the bytes
  remaining,    \* context.instruction_remaining
  scratch,      \* the run that last wrote to stack or heap; 0: all zero
  pc,           \* "idle", or "running" inside vm.execute_program
  result,       \* what the last operation returned
  parsed,       \* what the program's entrypoint found: address and length
  count,        \* how many of them it has parsed
  cursor,       \* and where it looks for the next
  view,         \* history: each account as the caller and the programs left it
  ix,           \* history: the last instruction, and the longest so far
  run,          \* history: number and program of the current or last run
  misaligned    \* history: a run began on a buffer with a resized account

context == <<program_id, return_data, remaining>>
history == <<view, ix, run, misaligned>>
entrypoint == <<parsed, count, cursor>>
vars == <<mem, executable, context, scratch, pc, result, entrypoint, history>>

-----------------------------------------------------------------------------
(* Bytes. *)
Zero == <<0, 0>>
Zeros(n) == [k \in 1..n |-> Zero]
Byte(n) == <<n, 0>>
IntBytes(n, w) == [k \in 1..w |-> IF k = 1 THEN Byte(n) ELSE Zero]
KeyBytes(p) == [k \in 1..PUBKEY |-> IF p = 0 THEN Zero ELSE <<p, k>>]
Flag(b) == IF b THEN 1 ELSE 0

(* write, write_all and fill_write at Some(at). *)
WriteAt(m, at, bytes) ==
  [a \in DOMAIN m |->
     IF a \in at..(at + Len(bytes) - 1) THEN bytes[a - at + 1] ELSE m[a]]

(* A slice of the buffer; an integer or a key read from it.  Bytes that    *)
(* encode neither read as -1.                                              *)
Slice(m, at, n) == [k \in 1..n |-> m[at + k - 1]]
ReadInt(m, at) ==
  IF m[at][2] = 0 /\ \A k \in 1..(U64 - 1) : m[at + k] = Zero
    THEN m[at][1] ELSE -1
ReadKey(m, at) ==
  LET keys == {p \in Pubkeys \union {0} : Slice(m, at, PUBKEY) = KeyBytes(p)}
  IN  IF keys = {} THEN -1 ELSE CHOOSE p \in keys : TRUE

(* The bytes of write_account, in the order it writes them.  The length    *)
(* field is the slot's capacity, not the length of the account's data.     *)
AccountHeader_LengthOfData(i, acc) ==
  <<Byte(255), Byte(Flag(acc.signer)), Byte(Flag(acc.writable)),
    Byte(Flag(acc.executable))>>
    \o Zeros(U32) \o KeyBytes(acc.key) \o KeyBytes(acc.owner)
    \o IntBytes(acc.lamports, U64) \o IntBytes(Len(acc.data), U64)
AccountHeader(i, acc) ==
  <<Byte(255), Byte(Flag(acc.signer)), Byte(Flag(acc.writable)),
    Byte(Flag(acc.executable))>>
    \o Zeros(U32) \o KeyBytes(acc.key) \o KeyBytes(acc.owner)
    \o IntBytes(acc.lamports, U64) \o IntBytes(AccountSize[i], U64)
AccountBytes_FillTooLong(i, acc) ==
  AccountHeader(i, acc) \o acc.data
    \o Zeros(AccountSize[i] + MAX_INCREASE + AlignOffset(AccountSize[i]))
    \o IntBytes(acc.rent_epoch, U64)
AccountBytes_PadLast(i, acc) ==
  AccountHeader(i, acc) \o acc.data
    \o Zeros(AccountSize[i] - Len(acc.data) + MAX_INCREASE)
    \o IntBytes(acc.rent_epoch, U64)
    \o Zeros(AlignOffset(AccountSize[i]))
AccountBytes(i, acc) ==
  AccountHeader(i, acc) \o acc.data
    \o Zeros(AccountSize[i] - Len(acc.data) + MAX_INCREASE
               + AlignOffset(AccountSize[i]))
    \o IntBytes(acc.rent_epoch, U64)

(* get_account: None when it indexes past the buffer, which is a panic. *)
GetAccount(m, i) ==
  LET at       == AccountOffset[i]
      data_len == ReadInt(m, at + DataLenField)
      rent     == at + DataField + data_len + AlignOffset(data_len)
                    + MAX_INCREASE
  IN  IF data_len < 0 \/ rent + U64 > BufferLen THEN None
      ELSE [executable |-> m[at + ExecutableField] = Byte(1),
            owner      |-> ReadKey(m, at + OwnerField),
            lamports   |-> ReadInt(m, at + LamportsField),
            data       |-> Slice(m, at + DataField, data_len),
            rent_epoch |-> ReadInt(m, rent)]

(* The length field of an account found at `at'. *)
DataLenAt(m, at) ==
  IF at + DataField > BufferLen THEN -1 ELSE ReadInt(m, at + DataLenField)
-----------------------------------------------------------------------------
(* The buffer as `new' leaves it. *)
SlotRegion(i) == AccountOffset[i]..(AccountOffset[i + 1] - 1)
EmptyAccount ==
  [key |-> 0, owner |-> 0, lamports |-> 0, data |-> <<>>, rent_epoch |-> 0,
   signer |-> FALSE, writable |-> FALSE, executable |-> FALSE]
EmptyBuffer ==
  [a \in Addr |->
     IF a = 0 THEN Byte(NumAccounts)
     ELSE IF a = InstructionOffset THEN Byte(InstructionSize)
     ELSE IF \E i \in Slots : a \in SlotRegion(i)
       THEN LET i == CHOOSE i \in Slots : a \in SlotRegion(i)
            IN  AccountBytes(i, EmptyAccount)[a - AccountOffset[i] + 1]
     ELSE Zero]

(* An account as update_account leaves it: the data, then zeros up to and  *)
(* past the capacity, which is what the length says.                       *)
Rounded(n) == n + AlignOffset(n)
RoomLen(i) == Rounded(AccountSize[i]) + MAX_INCREASE
ViewOf(i, acc) ==
  [executable |-> acc.executable, owner |-> acc.owner,
   lamports |-> acc.lamports,
   room |-> acc.data \o Zeros(RoomLen(i) - Len(acc.data)),
   len |-> AccountSize[i], rent_epoch |-> acc.rent_epoch]

NothingParsed == [i \in Slots |-> [at |-> 0, len |-> 0]]
NoReturnData == [pid |-> 0, len |-> 0, run |-> 0]

Init ==
  /\ mem = EmptyBuffer
  /\ executable = None
  /\ program_id = 0
  /\ return_data = NoReturnData
  /\ remaining = BUDGET
  /\ scratch = 0
  /\ pc = "idle"
  /\ result = "ok"
  /\ parsed = NothingParsed
  /\ count = 0
  /\ cursor = U64
  /\ view = [i \in Slots |-> ViewOf(i, EmptyAccount)]
  /\ ix = [last |-> <<>>, longest |-> 0]
  /\ run = [no |-> 0, pid |-> 0]
  /\ misaligned = FALSE

(* update_program: from_elf and jit_compile may fail before anything is    *)
(* assigned.                                                               *)
UpdateProgram_IdFirst(pid, elf) ==
  /\ pc = "idle"
  /\ program_id' = pid
  /\ mem' = WriteAt(mem, ProgramIdOffset, KeyBytes(pid))
  /\ IF elf = BadElf
       THEN result' = "BadElf" /\ UNCHANGED executable
       ELSE result' = "ok" /\ executable' = [elf |-> elf, pid |-> pid]
  /\ UNCHANGED <<return_data, remaining, scratch, pc, entrypoint, history>>
UpdateProgram(pid, elf) ==
  /\ pc = "idle"
  /\ IF elf = BadElf
       THEN result' = "BadElf" /\ UNCHANGED <<mem, executable, program_id>>
       ELSE /\ executable' = [elf |-> elf, pid |-> pid]
            /\ program_id' = pid
            /\ mem' = WriteAt(mem, ProgramIdOffset, KeyBytes(pid))
            /\ result' = "ok"
  /\ UNCHANGED <<return_data, remaining, scratch, pc, entrypoint, history>>

(* update_instruction: the length field is the capacity, and only as many  *)
(* bytes as the instruction has are written.                               *)
UpdateInstruction_LengthOfData(instruction) ==
  /\ pc = "idle"
  /\ Len(instruction) <= InstructionSize
  /\ mem' = WriteAt(WriteAt(mem, InstructionOffset,
                            IntBytes(Len(instruction), U64)),
                    InstructionOffset + U64, instruction)
  /\ ix' = [last |-> instruction,
            longest |-> IF Len(instruction) > ix.longest
                          THEN Len(instruction) ELSE ix.longest]
  /\ result' = "ok"
  /\ UNCHANGED <<executable, context, scratch, pc, entrypoint, view, run,
                 misaligned>>
UpdateInstruction(instruction) ==
  /\ pc = "idle"
  /\ IF Len(instruction) > InstructionSize
       THEN result' = "InvalidInstruction" /\ UNCHANGED <<mem, ix>>
       ELSE /\ mem' = WriteAt(WriteAt(mem, InstructionOffset,
                                      IntBytes(InstructionSize, U64)),
                              InstructionOffset + U64, instruction)
            /\ ix' = [last |-> instruction,
                      longest |-> IF Len(instruction) > ix.longest
                                    THEN Len(instruction) ELSE ix.longest]
            /\ result' = "ok"
  /\ UNCHANGED <<executable, context, scratch, pc, entrypoint, view, run,
                 misaligned>>

(* update_account. *)
UpdateAccount(i, acc) ==
  /\ pc = "idle"
  /\ IF Len(acc.data) > AccountSize[i]
       THEN result' = "InvalidAccount" /\ UNCHANGED <<mem, view>>
       ELSE /\ mem' = WriteAt(mem, AccountOffset[i], AccountBytes(i, acc))
            /\ view' = [view EXCEPT ![i] = ViewOf(i, acc)]
            /\ result' = "ok"
  /\ UNCHANGED <<executable, context, scratch, pc, entrypoint, ix, run,
                 misaligned>>

-----------------------------------------------------------------------------
(* The capacity and the current length of slot i end at the same aligned   *)
(* address, so that what follows the data is where it was.                 *)
InPlace(i) == Rounded(view[i].len) = Rounded(AccountSize[i])

(* execute up to vm.execute_program.  Stack and heap are cleared before    *)
(* the missing program is noticed.                                         *)
Execute_KeepReturnData ==
  /\ pc = "idle"
  /\ run.no < MaxRuns
  /\ executable /= None
  /\ scratch' = 0
  /\ pc' = "running"
  /\ parsed' = NothingParsed /\ count' = 0 /\ cursor' = U64
  /\ run' = [no |-> run.no + 1, pid |-> executable.pid]
  /\ misaligned' = (misaligned \/ \E i \in Slots : ~InPlace(i))
  /\ UNCHANGED <<mem, executable, context, result, view, ix>>
Execute ==
  /\ pc = "idle"
  /\ run.no < MaxRuns
  /\ scratch' = 0
  /\ IF executable = None
       THEN /\ result' = "MissingProgram"
            /\ UNCHANGED <<return_data, pc, entrypoint, run, misaligned>>
       ELSE /\ return_data' = NoReturnData
            /\ pc' = "running"
            /\ parsed' = NothingParsed /\ count' = 0 /\ cursor' = U64
            /\ run' = [no |-> run.no + 1, pid |-> executable.pid]
            /\ misaligned' = (misaligned \/ \E i \in Slots : ~InPlace(i))
            /\ UNCHANGED result
  /\ UNCHANGED <<mem, executable, program_id, remaining, view, ix>>

(* The end of execute: the program's exit code or the VM's error. *)
Return(r) == pc' = "idle" /\ result' = r
Continue == UNCHANGED <<pc, result>>

(* The program's entrypoint (solana_program::entrypoint::deserialize)      *)
(* walks the buffer: it skips each account's data, the room for growth and *)
(* what is missing to an aligned address, then the rent epoch.  It faults  *)
(* on a length that is none.                                               *)
ParseAccount ==
  /\ pc = "running"
  /\ remaining > 0
  /\ count < NumAccounts
  /\ LET n   == DataLenAt(mem, cursor)
         end == cursor + DataField + n + MAX_INCREASE
     IN  IF n < 0
           THEN Return("vm") /\ UNCHANGED entrypoint
           ELSE /\ Continue
                /\ parsed' = [parsed EXCEPT ![count] =
                                [at |-> cursor, len |-> n]]
                /\ count' = count + 1
                /\ cursor' = end + AlignOffset(end) + U64
  /\ UNCHANGED <<mem, executable, context, scratch, history>>

(* InvokeContext::consume, for a step of the program proper. *)
Consume_Nothing ==
  /\ pc = "running"
  /\ count = NumAccounts
  /\ remaining > 0
  /\ UNCHANGED remaining
Consume ==
  /\ pc = "running"
  /\ count = NumAccounts
  /\ remaining > 0
  /\ remaining' = remaining - 1

(* A store of the program into the input region: an access violation past  *)
(* its end.                                                                *)
Store(at, bytes, v) ==
  IF at + Len(bytes) > BufferLen
    THEN Return("vm") /\ UNCHANGED <<mem, view>>
    ELSE Continue /\ mem' = WriteAt(mem, at, bytes) /\ view' = v

ProgramLeaves ==
  UNCHANGED <<executable, program_id, entrypoint, ix, run, misaligned>>

StoreLamports(i, n) ==
  /\ Consume
  /\ Store(parsed[i].at + LamportsField, IntBytes(n, U64),
           [view EXCEPT ![i].lamports = n])
  /\ ProgramLeaves /\ UNCHANGED <<return_data, scratch>>

StoreOwner(i, p) ==
  /\ Consume
  /\ Store(parsed[i].at + OwnerField, KeyBytes(p),
           [view EXCEPT ![i].owner = p])
  /\ ProgramLeaves /\ UNCHANGED <<return_data, scratch>>

(* A store of one byte into the data, within its current length.           *)
StoreData(i, k) ==
  /\ Consume
  /\ k <= DataLenAt(mem, parsed[i].at)
  /\ Store(parsed[i].at + DataField + k - 1, <<Byte(StoredDatum)>>,
           [view EXCEPT ![i].room[k] = Byte(StoredDatum)])
  /\ ProgramLeaves /\ UNCHANGED <<return_data, scratch>>

(* AccountInfo::realloc: at most MAX_INCREASE over the length found by the *)
(* entrypoint (and, a bound of the model, within the slot).                *)
Realloc(i, n) ==
  /\ Consume
  /\ n <= parsed[i].len + MAX_INCREASE
  /\ Store(parsed[i].at + DataLenField, IntBytes(n, U64),
           [view EXCEPT ![i].len = n])
  /\ ProgramLeaves /\ UNCHANGED <<return_data, scratch>>

(* Stores to the stack and the heap. *)
StoreScratch ==
  /\ Consume
  /\ scratch' = run.no
  /\ Continue
  /\ ProgramLeaves /\ UNCHANGED <<mem, return_data, view>>

(* SyscallSetReturnData: too much of it, or an address that does not       *)
(* translate, ends the run.  Of nothing, no address is translated.         *)
SetReturnData_NoLimit(n, mapped) ==
  /\ Consume
  /\ IF n > 0 /\ ~mapped
       THEN Return("vm") /\ UNCHANGED return_data
       ELSE Continue /\ return_data' = [pid |-> program_id, len |-> n,
                                        run |-> run.no]
  /\ ProgramLeaves /\ UNCHANGED <<mem, scratch, view>>
SetReturnData(n, mapped) ==
  /\ Consume
  /\ IF n > MAX_RETURN_DATA \/ (n > 0 /\ ~mapped)
       THEN Return("vm") /\ UNCHANGED return_data
       ELSE Continue /\ return_data' = [pid |-> program_id, len |-> n,
                                        run |-> run.no]
  /\ ProgramLeaves /\ UNCHANGED <<mem, scratch, view>>

(* The program's exit, with SUCCESS or another code, and its faults. *)
Exit(r) ==
  /\ Consume
  /\ Return(r)
  /\ ProgramLeaves /\ UNCHANGED <<mem, return_data, scratch, view>>

(* ExceededMaxInstructions. *)
OutOfMeter ==
  /\ pc = "running"
  /\ remaining = 0
  /\ Return("vm")
  /\ ProgramLeaves
  /\ UNCHANGED <<mem, return_data, remaining, scratch, view>>

CallerStep ==
  \/ \E pid \in ProgramIds, elf \in Elfs \union {BadElf} :
       UpdateProgram(pid, elf)
  \/ \E instruction \in InstructionInputs : UpdateInstruction(instruction)
  \/ \E i \in Slots, acc \in AccountInputs : UpdateAccount(i, acc)
  \/ Execute

ProgramStep ==
  \/ ParseAccount
  \/ \E i \in Slots, n \in StoredLamports : StoreLamports(i, n)
  \/ \E i \in Slots, p \in Pubkeys : StoreOwner(i, p)
  \/ \E i \in Slots : \E k \in DOMAIN view[i].room : StoreData(i, k)
  \/ \E i \in Slots : \E n \in 0..RoomLen(i) : Realloc(i, n)
  \/ StoreScratch
  \/ \E n \in ReturnDataInputs, mapped \in BOOLEAN : SetReturnData(n, mapped)
  \/ \E r \in {"ok", "code", "vm"} : Exit(r)
  \/ OutOfMeter

Next == CallerStep \/ ProgramStep

(* The VM goes on running the program it was given; nothing obliges the    *)
(* caller to call.                                                         *)
Spec == Init /\ [][Next]_vars /\ WF_vars(ProgramStep)

-----------------------------------------------------------------------------
Results == {"ok", "BadElf", "InvalidInstruction", "InvalidAccount",
            "MissingProgram", "code", "vm"}

(* Type invariant: the meter, which saturates, stays within the budget,    *)
(* and the return data within MAX_RETURN_DATA.                             *)
TypeOK ==
  /\ mem \in [Addr -> Cells]
  /\ executable \in [elf : Elfs, pid : ProgramIds] \union {None}
  /\ program_id \in Keys
  /\ return_data \in [pid : Keys, len : 0..MAX_RETURN_DATA, run : 0..MaxRuns]
  /\ remaining \in 0..BUDGET
  /\ scratch \in 0..MaxRuns
  /\ pc \in {"idle", "running"}
  /\ result \in Results
  /\ parsed \in [Slots -> [at : Nat, len : Nat]]
  /\ count \in 0..NumAccounts
  /\ cursor \in Nat
  /\ view \in [Slots -> [executable : BOOLEAN, owner : Keys, lamports : Nat,
                        room : Seq(Cells), len : Nat, rent_epoch : Nat]]
  /\ ix \in [last : Seq(Cells), longest : 0..InstructionSize]
  /\ run \in [no : 0..MaxRuns, pid : Keys]
  /\ misaligned \in BOOLEAN

(* get_account returns what the caller last gave update_account with the   *)
(* programs' stores since then applied to it, padded to the capacity,      *)
(* whatever happened to the other slots in between, as long as no account  *)
(* was resized across an alignment boundary.  The resized ones are the     *)
(* business of RentEpochKept.                                              *)
Expected(i) ==
  [executable |-> view[i].executable, owner |-> view[i].owner,
   lamports |-> view[i].lamports,
   data |-> SubSeq(view[i].room, 1, view[i].len),
   rent_epoch |-> view[i].rent_epoch]
AccountView ==
  ~misaligned =>
    \A i \in Slots : InPlace(i) => GetAccount(mem, i) = Expected(i)

(* The rent epoch, which no program changes, is read back as it was        *)
(* written, also from an account that the program resized within its       *)
(* bounds.                                                                 *)
RentEpochKept ==
  pc = "idle" /\ ~misaligned =>
    \A i \in Slots : LET got == GetAccount(mem, i) IN
      got /= None /\ got.rent_epoch = view[i].rent_epoch

(* The instruction a program reads starts with the one last given to       *)
(* update_instruction and has the pre-allocated length.  Past it there are *)
(* zeros only as far as no earlier instruction reached: the tail of a      *)
(* longer one stays.                                                       *)
InstructionView ==
  ~misaligned =>
    /\ ReadInt(mem, InstructionOffset) = InstructionSize
    /\ Slice(mem, InstructionOffset + U64, Len(ix.last)) = ix.last
    /\ \A k \in (ix.longest + 1)..InstructionSize :
         mem[InstructionOffset + U64 + k - 1] = Zero

(* The program that runs, the id it runs under (return data, logs) and the *)
(* id it finds at the end of its input are of one update_program, also     *)
(* after an update_program that failed.                                    *)
LoadedProgram == executable /= None => executable.pid = program_id
ProgramAgreement ==
  /\ LoadedProgram
  /\ executable = None => program_id = 0
  /\ ~misaligned => Slice(mem, ProgramIdOffset, PUBKEY) = KeyBytes(program_id)

(* Nothing of an earlier run reaches a later one through the stack, the    *)
(* heap or the return data, and the return data the caller sees after a    *)
(* run was set by that run under its program's id.                         *)
RunIsolation ==
  /\ pc = "running" => scratch \in {0, run.no}
  /\ return_data /= NoReturnData =>
       return_data.run = run.no /\ return_data.pid = run.pid

(* A program finds every account where `new' put it, unless an earlier run *)
(* left one resized across an alignment boundary.                          *)
ParseAgrees ==
  pc = "running" /\ ~misaligned =>
    \A i \in Slots : i < count => parsed[i].at = AccountOffset[i]

(* A step, of the caller or of a program, changes bytes of one slot, of    *)
(* the instruction or of the program id, and never the account count.      *)
Regions == {SlotRegion(i) : i \in Slots}
             \union {InstructionOffset..(ProgramIdOffset - 1),
                     ProgramIdOffset..(BufferLen - 1)}
OneRegion ==
  ~misaligned => \E R \in Regions : \A a \in Addr \ R : mem'[a] = mem[a]
SlotIsolation == [][OneRegion]_vars

(* Every run ends: the meter, which every step of the program draws on and *)
(* execute does not refill, runs out.                                      *)
RunEnds == pc = "running" ~> pc = "idle"
=============================================================================
