---------------------------- MODULE ProgramFile ----------------------------
(***************************************************************************)
(* The `get-program-data' command, run again and again on one destination: *)
(* the file is truncated, then the account of the program, and for an      *)
(* upgradeable program that of its data, is asked of an RPC node, then the *)
(* program is written.  A request or a write may fail, the process may die *)
(* at any point, and the program may be upgraded between two steps.        *)
(*                                                                         *)
(* A program's image, and what a file holds, is a sequence of blocks.      *)
(***************************************************************************)
EXTENDS Naturals, Sequences

CONSTANTS
  Blocks,        \* what an image is made of
  Images,        \* the versions of the program
  Owners,        \* what may own its account
  MaxRuns,       \* bound: runs of the command
  None

ASSUME ImagesAssumption ==
  /\ Images \subseteq Seq(Blocks) \ {<<>>}
  /\ Owners \subseteq {"upgradeable", "bpf_loader", "other"}
  /\ None \notin Images /\ MaxRuns \in Nat

VARIABLES
  image,      \* the chain: the image now deployed
  file,       \* the destination: None, or what it holds
  pc,         \* "idle", "fetch", "data" or "write"
  acc,        \* the bytes to write, as fetched
  position,   \* how many blocks are written
  result,     \* of the latest run
  runs

vars == <<image, file, pc, acc, position, result, runs>>

Init ==
  /\ image \in Images
  /\ file = None
  /\ pc = "idle"
  /\ acc = <<>>
  /\ position = 0
  /\ result = "none"
  /\ runs = 0

Return(r) == pc' = "idle" /\ result' = r

(* OpenOptions::new().create(true).write(true).truncate(true).open *)
Opened_Kept == IF file = None THEN <<>> ELSE file
Opened == <<>>
Open ==
  /\ pc = "idle"
  /\ runs < MaxRuns
  /\ runs' = runs + 1
  /\ position' = 0
  /\ acc' = <<>>
  /\ \/ Return("Io") /\ UNCHANGED file
     \/ pc' = "fetch" /\ file' = Opened /\ result' = "none"
  /\ UNCHANGED image

(* The account of the program: owned by bpf_loader it holds the program,   *)
(* owned by the upgradeable loader, the address of its data, unless it is  *)
(* in another state.                                                       *)
FetchProgram(owner) ==
  /\ pc = "fetch"
  /\ \/ Return("Rpc") /\ UNCHANGED acc
     \/ owner = "bpf_loader" /\ pc' = "write" /\ acc' = image /\ UNCHANGED result
     \/ owner = "upgradeable" /\ Return("Wrong state") /\ UNCHANGED acc
     \/ owner = "upgradeable" /\ pc' = "data" /\ UNCHANGED <<acc, result>>
     \/ owner = "other" /\ Return("Unknown owner") /\ UNCHANGED acc
  /\ UNCHANGED <<image, file, position, runs>>

(* The account of its data, whose metadata is skipped: one too short for   *)
(* them is a panic.                                                        *)
FetchData ==
  /\ pc = "data"
  /\ \/ \E r \in {"Rpc", "panic"} : Return(r) /\ UNCHANGED acc
     \/ pc' = "write" /\ acc' = image /\ UNCHANGED result
  /\ UNCHANGED <<image, file, position, runs>>

(* write_all, a block at a time. *)
Overwritten(f, n, block) ==
  [k \in 1..(IF n > Len(f) THEN n ELSE Len(f)) |-> IF k = n THEN block ELSE f[k]]
AllWritten_Early == position + 1 >= Len(acc)
AllWritten == position = Len(acc)
WriteBlock ==
  /\ pc = "write"
  /\ ~AllWritten
  /\ \/ Return("Io") /\ UNCHANGED <<file, position>>
     \/ /\ position' = position + 1
        /\ file' = Overwritten(file, position + 1, acc[position + 1])
        /\ UNCHANGED <<pc, result>>
  /\ UNCHANGED <<image, acc, runs>>
Written ==
  /\ pc = "write"
  /\ AllWritten
  /\ Return("ok")
  /\ UNCHANGED <<image, file, acc, position, runs>>

(* The process is killed; the program is upgraded. *)
Crash ==
  /\ pc # "idle"
  /\ Return("killed")
  /\ UNCHANGED <<image, file, acc, position, runs>>
Upgrade ==
  /\ image' \in Images \ {image}
  /\ UNCHANGED <<file, pc, acc, position, result, runs>>

Next ==
  \/ Open \/ (\E owner \in Owners : FetchProgram(owner)) \/ FetchData
  \/ WriteBlock \/ Written \/ Crash \/ Upgrade
Spec == Init /\ [][Next]_vars

-----------------------------------------------------------------------------
(* After a run that succeeded, the destination holds exactly the program   *)
(* it fetched, one version of it, whatever an earlier run left there.      *)
OkIsWhole == result = "ok" => file = acc /\ file \in Images

(* At no moment, and after no failure, does the destination hold parts of  *)
(* two versions: it is the beginning of one, or empty.  A run that fails   *)
(* after the truncation has destroyed what an earlier one had fetched.     *)
IsBeginning(f, i) == Len(f) <= Len(i) /\ f = SubSeq(i, 1, Len(f))
NeverMixed == file # None => \E i \in Images : IsBeginning(file, i)
=============================================================================
