# Verification of solana-bpf-simulator

`solana-bpf-simulator` runs Solana programs outside a validator. It has two
entries: `InstructionExecutor`, which runs one program on a reusable input
buffer, and `MessageExecutor`, which loads the accounts and programs of a whole
message and hands them to Solana's `MessageProcessor`. This directory holds the
TLA+ models of the crate, the TLC configurations that check them on small
instances, and TLAPS proofs for every instance. Paths below are relative to the
repository (`src/...`).

## 1. Inventory

| Component | Source | State | Operations |
|---|---|---|---|
| Input buffer construction | `instruction_executor/mod.rs` (`new`, `write_empty_account`), `account_sizes.rs` | the count `size`, the buffer's length, `account_offsets`, `instruction_offset`, `program_id_offset` | count, allocate, serialise empty accounts, instruction, program id |
| `InstructionExecutor` | `instruction_executor/mod.rs` | buffer, executable, context, stack, heap | `update_program`, `update_instruction`, `update_account`, `execute`, `get_account`, `get_return_data` |
| `InvokeContext` | `context.rs` | meter, program id, return data, sysvar cache, log collector | `consume`, `get_remaining`, accessors |
| Memory syscalls | `syscalls/mem_ops.rs` | vm memory, two chunk iterators | `SyscallMemcpy` with `memmove`, `memmove_non_contiguous` |
| Other syscalls | `syscalls/mod.rs`, `syscalls/sysvar.rs`, `syscall_errors.rs` | return data, log, meter | `sol_set_return_data`, `sol_get_return_data`, `sol_log_`, `sol_panic_`, `abort`, program addresses, clock |
| Transaction loader | `message_executor/loader/transaction_loader.rs`, `loader/mod.rs` | loaded accounts, chains of indices | `load_transaction_accounts` |
| Program loader and cache | `loader/program_loader.rs` | the `LoadedPrograms` cache | `replenish_program_cache`, `load_program_accounts`, `load_program` |
| `MessageExecutor` | `executor.rs`, `message_executor/mod.rs` | caches, sysvars, slot, logger | `new`, `record_log`, `process` |
| Command line | `main.rs` | memoised accounts, output file | `Simulate`, `GetProgramData` |
| Syscall registry, error types | `syscalls/mod.rs` (`get_syscalls`), `errors.rs` | none | none |

### How they interact

- `InstructionExecutor::execute` maps the buffer, a fresh stack and heap and the
  program's read-only data, makes an `EbpfVm` over the context, and calls it
  synchronously. The program writes to the buffer directly and calls back into
  the syscalls, which change the context and, through the memory mapping, the
  same memory. What the program leaves in the buffer is the input of the next
  `execute` and of `get_account`.
- A caller of `MessageExecutor` gives `loader` an account-fetching closure, has
  the transaction loader and then the program loader run on the message with it,
  and passes both results to `process`, which runs
  `MessageProcessor::process_message` (a library) on them and returns the
  message's keys and the accounts. The program loader reads and fills a cache
  that the executor keeps from call to call.
- `main.rs` and the examples give a closure that answers for the program from a
  file and asks an RPC node for everything else. The closure of `main.rs`
  remembers the answers; those of the examples do not.

The crate is single threaded. What is hard in it is not scheduling but state
that outlives a call, untested writes through raw pointers, and arithmetic at
region and alignment borders:

- **Two loops that must agree.** `new` counts bytes in one loop and writes them
  unchecked in another.
- **Reuse.** An executor runs many programs on one buffer. Lengths, the tail of
  an earlier instruction, return data, stack, heap, the meter and the program id
  all outlive a run.
- **An actor in the middle.** Between two operations of the caller
  the program may store anything into its accounts, and resize them.
- **Partial failure.** ELF loading fails after arguments were taken; a copy over
  several regions faults half way; a syscall fails after it has written; a
  closure has no account for a key; a lost request is taken for an empty account;
  a file is truncated and the process dies.
- **Accounts read twice.** The chain moves on between the fetches of two
  loaders, and between the two fetches of one.
- **A cache over slots.** Calls come at any slots, and what is cached must be
  hidden or visible accordingly.
- **Indices into vectors that still grow.** The loader chains.
- **Termination.** A meter shared by all runs; ownership cycles between
  accounts; the loop over two chunk iterators.

`PROJECT.json` lists each of these as a hazard at its line, with the property
that would catch it.

### What makes each component correct

- *Construction*: no write passes the capacity, the buffer is filled exactly,
  the recorded offsets are those of disjoint, aligned slots.
- *InstructionExecutor*: the program and `get_account` see what was written;
  operations on one slot leave the others alone; nothing crosses from run to
  run; the three copies of the program id agree; every run ends.
- *Memory syscalls*: a copy cut at region borders has the effect of one
  `memmove`, and fails exactly when a byte is not accessible.
- *Transaction loader*: message accounts keep their positions, a loader is
  loaded once, each chain follows ownership up to the native loader, and the
  call returns.
- *Other syscalls*: what was set is what is read back, the address search finds
  the highest bump, and a failing call leaves what the caller reads afterwards.
- *Program loader*: every program of the message and every builtin is in the
  batch, as its accounts say; a failure leaves the cache as it was.
- *MessageExecutor and command line*: the two loaders agree about an account, and
  the program of the file is the one that runs.
- *get-program-data*: after success the file is one version of the program.

## 2. Modules

```
InputLayout ──< BufferConstruction ──< MCBufferConstruction
     │                   └──< BufferConstructionProofs
     └──< InstructionExecutor ──< MCInstructionExecutor
                   └──< InstructionExecutorProofs

MemoryMapping ──< Memmove                       (abstract)
     └──────────< ChunkedMemmove ──< MCChunkedMemmove
                   └──< ChunkedMemmoveProofs    (refines Memmove)

MemoryMapping ──< Syscalls ──< MCSyscalls
                      └──< SyscallsProofs

TransactionLoader ──< MCTransactionLoader
     └──< TransactionLoaderProofs
ProgramLoader ──< MCProgramLoader
     └──< ProgramLoaderProofs
TransactionLoader and ProgramLoader are instances in Simulate ──< MCSimulate
     └──< SimulateProofs  (with instances of TransactionLoaderProofs and
                           ProgramLoaderProofs)

ProgramFile ──< MCProgramFile
     └──< ProgramFileProofs
```

**InputLayout.** The widths of the buffer's fields, `align_offset`, the offsets
of the fields of a slot, and the two expressions for an account's size: what
`new` reserves and what `write_empty_account` writes. Widths are constants.

**BufferConstruction.** `InstructionExecutor::new`. `ReserveAccount` is an
iteration of the counting loop, `Allocate` the rest of the count with
`with_capacity` and the first `write_unchecked`, `SerializeAccount` an iteration
of the second loop with `write_empty_account`, `SerializeTail` the instruction
and the program id. `fill_write` is the only write that tests the capacity; its
error is the state `failed`.

**InstructionExecutor.** The executor after `new`. The buffer is a function from
offsets to bytes, so every operation is the bytes it writes and every read
decodes bytes. Caller's actions: `UpdateProgram`, `UpdateInstruction`,
`UpdateAccount`, `Execute`; `get_account` is the operator `GetAccount`, applied in
every state. The program is an external actor: `ParseAccount` is its entrypoint,
which finds accounts by walking the buffer, and then it makes any sequence of
`StoreLamports`, `StoreOwner`, `StoreData`, `Realloc`, `StoreScratch`,
`SetReturnData` and `Exit`, each taking one unit from the meter, until `OutOfMeter`
ends it. The stores go to the addresses the entrypoint found, which is what makes
stale lengths visible. `misaligned` records that a run began while an account's
length did not round to its capacity's alignment; from then on the program's
walk and the executor's offsets may part, which the properties say.

**MemoryMapping.** The part of solana_rbpf's mapping that the syscalls use:
regions, lookup with access rights, `map` of a range, `vm_to_host`, and the copy.
External.

**Memmove.** What a caller may expect of a copy: one call, answered in one step,
succeeding exactly when the ranges permit.

**ChunkedMemmove.** `SyscallMemcpy` with `is_nonoverlapping` and
`translate_slice_inner`, and `memmove_non_contiguous` with
`iter_memory_pair_chunks` and `MemoryChunkIterator`. `SrcChunk` and `DstChunk` are the
two uses of the macro `memory_chunk!`, `CopyChunk` the body of the loop. The
refinement mapping gives `Memmove` the memory of the call until the call returns.
`memmove_non_contiguous` has no caller in the crate at this commit: the
registration of `sol_memmove_`, which would reach it, is commented out
(`syscalls/mod.rs:550`). It is modelled because it is the algorithm of the file
and what that syscall would rest on.

**TransactionLoader.** `load_transaction_accounts`: `LoadAccount` is an iteration
over the account keys, `StartChain` the head of the loop over the instructions,
`ChainStep` one of at most five turns of the inner loop, with its five ways out.
An account is its owner. The closure `g` is the caller's `FnMut`; it may answer the
same key differently each time, or not at all.

**Syscalls.** The other syscalls of a program during one run, over the bytes of a
mapped memory: `SetReturnData`, `GetReturnData`, `Log`, `Panic`, `Abort`,
`GetClockSysvar` are one step each, with one disjunct per way out, in the order
the code tests. `TryFindProgramAddress` checks the inputs; then `Try` is one turn
of the loop over bumps and `GiveUp` its end. `create_program_address` is the
constant operator `Derive`, which may give an address for any set of bumps.
Pubkeys, the clock and the `&[u8]` of a seed are bytes in memory, so that
overlapping ranges really destroy each other. `Store` lets the program write
between calls.

**ProgramLoader.** `MessageExecutor::new` (its `Init`: features, builtins, the
cache) and `replenish_program_cache`: `Scan` is a turn of the loops over messages
and keys, `Extract` the builtins and the cache's answer, `FetchProgram` and
`FetchProgramData` are the two fetches of `load_program_accounts` with the arms of
`load_program` they lead to, `Replenish` the final loop. The cache
(`LoadedPrograms`) and the batch are solana_program_runtime's and external: entries
are kept in the order of their effective slot, `extract` takes the newest that is
on the fork and in effect, `replenish` keeps an entry of the same slots unless one
of the two is a tombstone. `LoadedProgram::new` panics on a loader it does not know:
the state `dead`. An account is its owner, the state its data decodes to, and its
ELF. Missing programs are loaded in the order of their keys; which is the lesser
key is left open.

**Simulate.** The composition: `Simulate::run` as the stages clock, file, load,
replenish, process. It instantiates TransactionLoader and ProgramLoader and joins
each of their fetches with the closure `G`: `MemoClosure` is that of `main.rs`,
`RawClosure` that of the examples. `RpcAnswers` is what the node may answer, a
different one each time; `Request` also loses requests, which `unwrap_or_default`
turns into an account of the system program. `Process` reduces the
MessageProcessor to the decision it takes from the loaders' results: the first
account of the chain must be a builtin of the batch, and if that is the loader it
runs the batch's program. `Rank` is the flags of the instruction's accounts and
`Orders` the sorting of `Message::new`.

**ProgramFile.** `GetProgramData::run`, run again on one destination: `Open`
truncates, `FetchProgram` and `FetchData` ask the node, `WriteBlock` is a piece of
`write_all`. Requests and writes fail, the process is killed between any two steps
(`Crash`), and the program is upgraded at any time (`Upgrade`).

Definitions whose name has a suffix (`Left_KeepEmpty`) are faulty variants of the
definition before the underscore. They are used to see that a property notices
the fault, and by nothing else.

## 3. Runs

| Run | Instance | Checks | States |
|---|---|---|---|
| `construction` | the code's widths; 0–3 accounts of sizes {0,1,7,8,9,165}; instructions of 0, 1, 41 | `TypeOK NoOverrun ExactFit LayoutOK SlotsAligned` | 6,687 |
| `executor_buffer` | two accounts of sizes 1 and 2, two runs, 3 units of meter | `AccountView InstructionView ParseAgrees SlotIsolation` | 346,320 |
| `executor_runs` | one account, two program ids, three runs, 4 units of meter | `TypeOK ProgramAgreement RunIsolation RunEnds` | 260,040 |
| `executor_resize` | one account, one run | `RentEpochKept` (violated) | – |
| `memmove` | addresses 0–9, four mappings | `TypeOK Lockstep CopiedSoFar Implements Returns` | 21,483 |
| `transaction_loader` | five messages, five keys, depth 5 | `TypeOK MessageAccountsFirst LoadersOnce ChainsFollowOwners TooDeepOnlyIfDeep Returns` | 26,148 |
| `syscalls` | nine bytes in three regions, two calls, `u8::MAX` = 3 | `TypeOK GetDelivers FindsHighest FailuresLeave SearchEnds` | 162,576 |
| `program_loader` | two programs, three calls at slots 0, 1, 3, root 2 | `TypeOK BatchComplete BatchFaithful FailureKeepsCache PanicsOnChange` | 1,502,668 |
| `simulate` | four commands, remembered answers | `LoadersAgree RunsTheFile Ends` | 9,703 |
| `simulate_raw` | the same, every answer asked anew | `RunsTheFile` | 54,091 |
| `program_file` | three versions, three runs | `OkIsWhole NeverMixed` | 426 |

- **construction** shows that the counting and the writing loop agree to the
  byte, and that the padding, computed from sizes, aligns addresses.
- **executor_buffer** shows that what the caller wrote and programs stored is
  what `get_account` returns, that the entrypoint finds every account, and that
  no step touches two regions of the buffer. `InstructionView` states what the
  code does with short instructions: the length field stays at the capacity, and
  the tail of a longer earlier instruction stays readable after the new one.
- **executor_runs** shows that return data, stack and heap belong to the current
  run, that a failing `update_program` leaves the old program whole, and that
  the shared meter ends every run.
- **executor_resize** is the finding of section 6.
- **memmove** shows that both copies implement the one-step `Memmove`, in both
  directions, over region borders, holes and read-only regions.
- **transaction_loader** shows the chains correct with a closure that may change
  its answers, ownership cycles included.
- **syscalls** shows that `sol_get_return_data`, which copies before it validates,
  either delivers data and id intact or ends the run having written nothing but
  the data; that the bump found is the highest and that bump 0 alone is never
  tried; and that the search ends, `bump_seed` saturating instead of wrapping.
- **program_loader** shows that a batch is never incomplete and that each entry,
  tombstones included, is what the program's accounts say at the slot of the call,
  for some state of them that this call or an earlier one fetched. The cache is
  not invalidated by an upgrade, so "some" is the most that holds. A call that
  fails leaves the cache unchanged, and the library's panic needs an account
  that ceased to be a program between two fetches of one call.
- **simulate** shows that remembering answers rules that panic out and makes the
  loaders agree on every owner but that of the instructions sysvar, which one
  of them makes up. The file's program runs if all requests are answered. When
  the request for the loader's account is lost, the system program is called
  with the instruction instead: `RunsTheFile` names this as the only way another
  program runs.
- **simulate_raw** shows that the examples, which remember nothing, can meet the
  panic (`CacheReplenished` takes its second disjunct), though never over the
  program of the file or a builtin, and that otherwise the same holds.
- **program_file** shows that although a failure destroys the earlier file, no
  sequence of failures, crashes and upgrades leaves parts of two versions, and
  success means one whole version.

### Bounds

- *Executor*: fields are two bytes wide, alignment two, growth two. Nothing in
  the code depends on a field's width except the offsets it adds up, and the
  proofs cover all widths; `construction` uses the real ones. Sizes 1 and 2 are
  the two residues of the alignment. `BUDGET` (3 or 4) allows a resize followed
  by stores before and after a second `execute`. `MaxRuns` bounds calls of
  `execute`; no other counter grows. Account inputs are one without data and one
  too large for the smaller slot; instructions are shorter than, equal to and
  longer than the space.
- *Memmove*: `U64_MAX = 9` leaves room for five adjoining regions of lengths 1 to
  3, and every destination, source and length is tried, so each range starts and
  ends at every position relative to a border. All bytes differ; since a copy
  never looks at a byte, this is the general case.
- *Loader*: chains of length 1 to 5 and beyond appear because the closure chooses
  owners freely among five keys. Two instructions are enough for one to meet the
  loaders the other appended. `CHAIN_DEPTH` is the code's.
- *Syscalls*: a pubkey, a slice and the clock are two bytes, so nine bytes hold a
  read-only region and two writable ones with every relative position of two
  ranges in them. With `U8_MAX = 3` addresses exist for the first bump, a middle
  one, the last that is tried, only for 0, or for none. `MaxCalls = 2` lets a call
  see what another left.
- *Program loader*: slots 0, 1 and 3 with deployments at 1 and 3 and the root at 2
  are calls before, in and after the slot of a deployment on both sides of the
  root. `MaxCalls = 3` gives an entry, a later one, and a call at a slot between
  them. Each kind of account of each loader is among the answers, with ELFs
  that verify and do not.
- *Simulate*: an account that is an upgradeable program, one of the first loaders
  or no program, whose data account changes too; the program alone, with it, with
  the sysvar, and among its own accounts. Chains of lost accounts reach the depth
  of the code.
- *ProgramFile*: versions of three, two and three blocks: a shorter one over a
  longer and an equal one; `MaxRuns = 3` is a failure between two runs.

### Fairness

`RunEnds` assumes weak fairness of `ProgramStep`: the VM, called synchronously,
goes on executing. Nothing is assumed of the caller. `Returns`, in both modules,
assumes weak fairness of `Step`: one thread runs the call and, for the loader, the
closure returns. `SearchEnds` assumes it of `Try \/ GiveUp` only, a syscall once
entered: nothing makes the program call one. `Ends` assumes it of `Step`: one
thread runs the command and every request is answered or fails. Deadlock is
checked in every run; finished calls stutter through an action of their own.

## 4. Proofs

All theorems hold for every value of the constants that satisfies the named
assumptions, which TLC evaluates on the instances above.

**BufferConstructionProofs** (`TypeCorrect`, `ConstructionNoOverrun`,
`ConstructionExactFit`, `ConstructionLayout`, `ConstructionAligned`). From
`WidthsAssumption`, `AlignedAssumption` (the fixed parts of the layout are
multiples of the alignment) and `InputsAssumption`. `NoOverrun` is not inductive:
while serialising account *k* it must be known that the counting loop had
reserved exactly `len` before account *k*. The history variable `reserved` keeps
the counts of the first loop, and the invariant says that `len` equals
`reserved[i]` and that consecutive counts differ by `ReservedLen`; the lemma that
`ReservedLen` equals `EmptyAccountLen` closes the step. Alignment is a second
induction, on the counts.

**InstructionExecutorProofs** (`ExecutorTypeCorrect`, `ExecutorRunIsolation`,
`ExecutorProgramAgreement`, `ExecutorInstructionView`, `ExecutorParseAgrees`,
`ExecutorSlotIsolation`, `ExecutorAccountView`). From `LayoutAssumption`, which is what
`ConstructionLayout` and `ConstructionAligned` establish of `new`'s results, and
`BoundsAssumption`. The invariant is

    IInv == TypeOK /\ Own /\ (~misaligned => Intact)

`Own` is the state that no byte of the buffer enters (program, return data,
scratch). `Intact` says that the length fields hold the lengths of the history
variable `view`, that the entrypoint is, after `count` accounts, at the offset of
the next one, that the instruction's bytes and the id's bytes are as last
written. `ParseAgrees` needs it because where the entrypoint finds account *k*
depends on the length fields of all accounts before it, which program and caller
both write. Each store is shown confined to a slot, slots to be disjoint, and
`Intact` follows slot by slot. `AccountView` needs a second invariant on top,
`Accounts`: every field of slot *i* holds, byte by byte, the encoding of that
field of `view[i]`, and the room after the data length holds all of its `room`,
the part beyond the current length included, since a program may grow the account
again. A write of `update_account` is taken apart into its concatenated fields
(`SlotParts`), a store of a program changes one field and spares the others
(`FieldsBeside`), a step elsewhere spares the slot. That `get_account` decodes
what was encoded rests on two facts: no two keys have the same bytes, and while
the account is in place the rent epoch is where the length says it is.

**ChunkedMemmoveProofs** (`MemmoveTypeCorrect`, `MemmoveLockstep`,
`MemmoveCopiedSoFar`, `MemmoveImplements`, `MemmoveProgress`). From
`MappingsAssumption` and the assumption on memories. `IInv` adds to the three
invariants that, in the loop, each side satisfies `Side`: its iterator and chunk are adjacent, lie in the range
of the call, the chunk lies in a region that grants the access, and every byte
already walked is accessible. `CopiedSoFar` is preserved because the direction
`Reverse` chooses makes the part still to be read disjoint from the part written.
`MemmoveImplements` proves that every step is a step of `Memmove` or leaves the
mapped variables alone; the accessible bytes of `Side` show that success happens
only when `Possible`, and the missing region that failure happens only otherwise.
`MemmoveProgress`: every step of a call lowers `Variant`, three for each byte left
to read plus the rest of the turn. That a turn copies at least one byte follows
from `Side`: a chunk that is there is never empty.

**TransactionLoaderProofs** (`LoaderTypeCorrect`, `LoaderMessageAccountsFirst`,
`LoaderLoadersOnce`, `LoaderChainsFollowOwners`, `LoaderTooDeepOnlyIfDeep`,
`LoaderProgress`). From
`KeysAssumption` and `MessagesAssumption`: any messages, any depth, any answers of
the closure. `IInv` adds `Phases` (what is loaded in which phase; the message's
accounts are complete from the first chain on, which makes
`builtins_start_index` their number), `Finished` (each stored chain is right *for
the accounts loaded so far*) and `Current` (the chain being followed has `depth`
accounts that own each other, none owned by the native loader, and the account at
`program_index` owns the first). Accounts are only appended, so finished chains
stay right; a loader is appended only where `Loaded` found none, which gives
`LoadersOnce`. `LoaderProgress`: every step lowers `Variant`, the accounts left to
load plus `CHAIN_DEPTH + 3` for each instruction left, so that the number of steps
is bounded by the message, whatever the owners are.

**SyscallsProofs** (`SyscallsTypeCorrect`, `SyscallsGetDelivers`,
`SyscallsFindsHighest`, `SyscallsFailuresLeave`). From `SyscallsAssumption` (the
lengths and limits fit an address), `DeriveAssumption` (`Derive` is any function
to addresses or none) and `MappingsAssumption`: any mapping, any memory.
`FindsHighest` is not inductive; `Searching` is: during the search `bump_seed` is
`U8_MAX - tries` and no bump above it gives an address. `GetDelivers` follows from
what the overlap check leaves possible: data and id in disjoint ranges, each write
read back. `Alive` says that an error ends the run, so that no call follows one.
`FailuresLeave` is an action property, proved by cases on the ways out of each
syscall.

**ProgramLoaderProofs** (`CacheTypeCorrect`, `CacheBatchComplete`,
`CacheBatchFaithful`, `CacheFailureKeepsCache`, `CachePanicsOnChange`,
`CacheProgress`). From
`LoaderAssumption`: any number of calls, any slots, any root, any answers.
`BatchFaithful` needs the strongest invariant of the project, `CacheFaithful`: each
entry of the cache says, *at every slot*, what some accounts fetched for its key say
at that slot, and not only at the slot of the call that made it.
`LoadedFaithful` is the same for what the current call loaded and `BatchSays` for
the batch. The lemmas about `Place`, `Replenished` and
`Deduplicated` show that inserting an entry keeps the order by effective slot
(part of `TypeOK`), adds no entry but the new one, and returns either that or one
that was there.
`BuiltinsCached` (an enabled builtin is in the cache and found at every slot)
gives that no builtin is ever loaded from an account, and `Collected` (missing and
batch together are what was named) gives `BatchComplete`. `CacheProgress`: every
step of a call lowers `Variant`, one for each key left to scan and two for each
program left to load; the programs to load are finitely many because each was
named by a key, and one that is being loaded was not loaded before (`Phases`).

**ProgramFileProofs** (`FileOkIsWhole`, `FileNeverMixed`). From `ImagesAssumption`:
any number of versions, of any lengths. The invariant is that while the file is
being written it is the beginning of the fetched image, `position` blocks long,
that it was truncated before the fetch, and that after a failure or crash it is
some beginning of one image.

**SimulateProofs** (`SimulateLoadersAgree`, `SimulateRunsTheFile`,
`SimulateDrivesProgramLoader`, `SimulateDrivesTransactionLoader`,
`SimulateProgress`). For any command lines, any keys, any slots, and a node that
answers anything, or nothing, each time it is asked, but for `RpcAssumption`: the
native loader owns the loader and the system program, as on every cluster.
`AddressesAssumption` says that the fixed addresses are different where the code
tells them apart, and that `--program-id` names none of the builtins, nor the
native loader or the instructions sysvar; `ParametersAssumption` types the rest.
The invariant is

    IInv == TLP!IInv /\ PLP!IInv /\ Own

Every step of the command is a step of either loader or leaves it alone
(`TLStep`, `PLStep`), so the loaders' inductive invariants carry over from the
instances `TLP` and `PLP` of their proof modules; the same lemmas give the two
refinement theorems. `Own` is what belongs to the composition. `Seen(k, a)` says
that the closure can have answered `a` for `k`: the file's account for the
program, otherwise an answer of the node, or the default account of a lost
request; and, where answers are remembered, that it is the one remembered.
`AccountsSeen`, `ScannedSeen`, `LoadingSeen` and `AnswersSeen` say that of
everything the loaders work on. A call of the closure keeps all that was seen
(`ClosureSeen`). Where answers are remembered `Seen` has at most one `a` for each
`k`, which is `LoadersAgree`; the library's panic needs two, by `PanicsOnChange`.
For the examples' closure `LoadersAgree` is false, and the theorem assumes
`Memoised`. `Chained` says that the chain goes from the program to the loader and
beyond it only if the request for the loader was lost, which bounds what
`Process` can call; that the batch's entry for the program is the file's comes
from `BatchFaithful` and `AnswersSeen`. `SimulateProgress` adds the two loaders'
measures to the stages of the command.

The lemmas about lengths and alignments of `InputLayout` are in
`BufferConstructionProofs` and `InstructionExecutorProofs`, which cite them.

*Checked by TLC only.* `RunEnds`, `SearchEnds`, `Ends` and both `Returns`: liveness
under fairness is beyond the prover. For `Ends` and both `Returns` the `Progress`
theorems prove the larger part, that only so many steps can be taken; that one
can be taken until the call has returned needs `ENABLED`, and is TLC's.
`RentEpochKept` is false, and `executor_resize` shows it.

## 5. Not modelled

- `update_program`'s ELF verification and JIT, the interpreter: solana_rbpf. Their
  failures are modelled, the code they run is the program actor.
- `sol_memmove_`, `sol_memset_` and `sol_memcmp_` are not registered by the crate
  and have no code in it.
- The log collectors: `record_log` makes a new one, the library limits its length,
  and only the final output reads it. `Syscalls` keeps the messages of a run
  without the limit. Compute units of `process` are likewise only reported.
- What `MessageProcessor` does beyond choosing the program: a library.
- `ForkGraph` is used by the cache's `prune`, which the crate never calls.
- Usage counters and metrics of loaded programs: nothing reads them. The size of
  the cache is not limited by the crate either.
- The alignment and size checks of the translations: every caller in the crate
  passes `false` or `get_check_aligned` and `get_check_size`, which are `false`.
- The `as u16` of loader indices: a message has at most 256 accounts.
- Stack gaps: `execute` maps the stack with a gap size of 0, so a byte has one
  address.
- `get_syscalls` registers functions under hashed names; error enumerations have
  no behaviour; `FEATURES` is data; argument parsing and the set-up of logging
  keep no state.
- The halves of the examples that use `InstructionExecutor` call its operations in
  one fixed order, which the executor's module allows among others.

## 6. Finding

`get_account` (`src/src/instruction_executor/mod.rs:292`) finds the rent epoch from
the account's current length field. `write_account` placed it after the
pre-allocated space. When a program legally resizes its account so that the
rounded length changes, the two differ, and `get_account` returns eight bytes of
data or padding as the rent epoch. The run `executor_resize` gives the shortest
behaviour; `AccountView` shows that everything else `get_account` returns is right,
for every account whose rounded length is that of its capacity.

## 7. State of the plan

The system's own logic is modelled, and every safety property that a run checks
is proved for every value of the constants. Liveness is left to TLC, as section 4
says. Should the crate register `sol_memmove_`, or use the executor's cache for
more than one message, `Syscalls` and `Simulate` are where that belongs: the
theorems about `memmove_non_contiguous` and about several calls on one cache are
stated for those cases already.
