----------------------------- MODULE OutputFile -----------------------------
(***************************************************************************)
(* How `tarzan wrap -f FILE` publishes its archive: `wrap_to_output_file`  *)
(* and `create_temp_output_file` of cmd_wrap.rs, run by any number of      *)
(* processes on one output path, with failures at any call, processes that *)
(* are killed and machines that lose power.                                *)
(*                                                                         *)
(* The file system is external.  A directory maps names to inodes, create  *)
(* and rename are atomic, directory changes become durable in order but at *)
(* any later time, a file's bytes too; fsync makes durable what it is      *)
(* called on.                                                              *)
(***************************************************************************)
EXTENDS Naturals, Sequences

CONSTANTS
    Writers,     \* runs of `tarzan wrap -f FILE`, all on the same path
    Pid,         \* process id of each; in containers they may well be equal
    NoSync,      \* the runs with --no-sync
    MaxAttempts, \* temporary names one run tries: 100 in the code
    Size,        \* pieces in which a whole archive is written
    Existing,    \* what is at the output path at first: Old or NoFile
    Old, NoFile, Partial, Output,
    MaxPowerLosses \* bound of a run

ASSUME AttemptsAssumption == MaxAttempts \in Nat \ {0}
ASSUME SizeAssumption == Size \in Nat \ {0}
ASSUME WritersAssumption == NoSync \subseteq Writers
ASSUME FilesAssumption ==
    /\ Old \notin Writers /\ NoFile \notin Writers \cup {Old}
    /\ Partial \notin Writers \cup {Old, NoFile}
    /\ Existing \in {Old, NoFile}
ASSUME NamesAssumption ==
    \A w \in Writers, n \in 0 .. MaxAttempts - 1 : <<Pid[w], n>> # Output
ASSUME BoundAssumption == MaxPowerLosses \in Nat

VARIABLES
    pc,          \* where each run is
    attempt,     \* the attempt of create_temp_output_file
    fd,          \* the inode each run has opened
    dir,         \* the directory
    durableDirs, \* the directories a loss of power may leave
    content,     \* pieces in each inode
    durable,     \* pieces that a loss of power cannot take
    past,        \* history: what has been at the output path
    powerLosses

fileVars == <<content, durable>>
dirVars == <<dir, durableDirs, past>>
vars == <<pc, attempt, fd, dirVars, fileVars, powerLosses>>

Inodes == Writers \cup {Old}
Names == {Output} \cup {<<Pid[w], n>> : w \in Writers, n \in 0 .. MaxAttempts - 1}
Ended == {"done", "unsynced", "failed", "littered", "killed"}

TempPath(w) == <<Pid[w], attempt[w]>>

Init ==
    /\ pc = [w \in Writers |-> "idle"]
    /\ attempt = [w \in Writers |-> 0]
    /\ fd = [w \in Writers |-> NoFile]
    /\ dir = [n \in Names |-> IF n = Output THEN Existing ELSE NoFile]
    /\ durableDirs = {dir}
    /\ content = [i \in Inodes |-> IF i = Old THEN Size ELSE 0]
    /\ durable = content
    /\ past = <<Existing>>
    /\ powerLosses = 0

Goto(w, label) == pc' = [pc EXCEPT ![w] = label]

(* A change of the directory: durable at some later time. *)
SetDir(d) == dir' = d /\ durableDirs' = durableDirs \cup {d}
-----------------------------------------------------------------------------
Start(w) ==
    /\ pc[w] = "idle"
    /\ Goto(w, "creating")
    /\ UNCHANGED <<attempt, fd, dirVars, fileVars, powerLosses>>

(* create_temp_output_file *)

(* Variant: create(true).truncate(true) takes a file that is there. *)
CreateOrTruncate(w) ==
    /\ pc[w] = "creating"
    /\ Goto(w, "writing")
    /\ fd' = [fd EXCEPT ![w] = IF dir[TempPath(w)] = NoFile THEN w ELSE dir[TempPath(w)]]
    /\ SetDir([dir EXCEPT ![TempPath(w)] = fd'[w]])
    /\ content' = [content EXCEPT ![fd'[w]] = 0]
    /\ UNCHANGED <<attempt, durable, past, powerLosses>>

CreateTemp(w) ==
    /\ pc[w] = "creating"
    /\ dir[TempPath(w)] = NoFile
    /\ Goto(w, "writing")
    /\ fd' = [fd EXCEPT ![w] = w]
    /\ SetDir([dir EXCEPT ![TempPath(w)] = w])
    /\ UNCHANGED <<attempt, past, fileVars, powerLosses>>

(* Variant: the attempts do not end. *)
NextAttemptUnbounded(w) ==
    /\ pc[w] = "creating"
    /\ dir[TempPath(w)] # NoFile
    /\ attempt' = [attempt EXCEPT ![w] = @ + 1]
    /\ UNCHANGED <<pc, fd, dirVars, fileVars, powerLosses>>

(* Variant: the same name is tried again. *)
RetrySameName(w) ==
    /\ pc[w] = "creating"
    /\ dir[TempPath(w)] # NoFile
    /\ UNCHANGED vars

(* AlreadyExists *)
NextAttempt(w) ==
    /\ pc[w] = "creating"
    /\ dir[TempPath(w)] # NoFile
    /\ attempt[w] + 1 < MaxAttempts
    /\ attempt' = [attempt EXCEPT ![w] = @ + 1]
    /\ UNCHANGED <<pc, fd, dirVars, fileVars, powerLosses>>

(* "could not allocate a temporary output path" *)
AttemptsExhausted(w) ==
    /\ pc[w] = "creating"
    /\ dir[TempPath(w)] # NoFile
    /\ attempt[w] + 1 = MaxAttempts
    /\ Goto(w, "failed")
    /\ UNCHANGED <<attempt, fd, dirVars, fileVars, powerLosses>>

(* Another error: there is nothing to clean up. *)
CreateFails(w) ==
    /\ pc[w] = "creating"
    /\ Goto(w, "failed")
    /\ UNCHANGED <<attempt, fd, dirVars, fileVars, powerLosses>>

(* wrap_with writes through a BufWriter, which passes some of it on. *)
Write(w) ==
    /\ pc[w] = "writing"
    /\ content[fd[w]] < Size
    /\ content' = [content EXCEPT ![fd[w]] = @ + 1]
    /\ UNCHANGED <<pc, attempt, fd, dirVars, durable, powerLosses>>

WrapReturns(w) ==
    /\ pc[w] = "writing"
    /\ Goto(w, "wrapped")
    /\ UNCHANGED <<attempt, fd, dirVars, fileVars, powerLosses>>

(* Variant: the BufWriter is dropped after the rename. *)
FlushSkipped(w) ==
    /\ pc[w] = "wrapped"
    /\ Goto(w, IF w \in NoSync THEN "renaming" ELSE "flushed")
    /\ UNCHANGED <<attempt, fd, dirVars, fileVars, powerLosses>>

Flush(w) ==
    /\ pc[w] = "wrapped"
    /\ content' = [content EXCEPT ![fd[w]] = Size]
    /\ Goto(w, IF w \in NoSync THEN "renaming" ELSE "flushed")
    /\ UNCHANGED <<attempt, fd, dirVars, durable, powerLosses>>

(* Variant: the file is renamed before it is synced. *)
SyncForgotten(w) ==
    /\ pc[w] = "flushed"
    /\ Goto(w, "renaming")
    /\ UNCHANGED <<attempt, fd, dirVars, fileVars, powerLosses>>

(* sync_all *)
SyncFile(w) ==
    /\ pc[w] = "flushed"
    /\ durable' = [durable EXCEPT ![fd[w]] = content[fd[w]]]
    /\ Goto(w, "renaming")
    /\ UNCHANGED <<attempt, fd, dirVars, content, powerLosses>>

Rename(w) ==
    /\ pc[w] = "renaming"
    /\ dir[TempPath(w)] # NoFile
    /\ SetDir([dir EXCEPT ![Output] = dir[TempPath(w)], ![TempPath(w)] = NoFile])
    /\ past' = Append(past, dir'[Output])
    /\ Goto(w, IF w \in NoSync THEN "unsynced" ELSE "renamed")
    /\ UNCHANGED <<attempt, fd, fileVars, powerLosses>>

(* Variant: the result of the sync is not looked at. *)
SyncDirAnyway(w) ==
    /\ pc[w] = "renamed"
    /\ \/ durableDirs' = {dir}
       \/ UNCHANGED durableDirs
    /\ Goto(w, "done")
    /\ UNCHANGED <<attempt, fd, dir, past, fileVars, powerLosses>>

(* sync_directory only warns when it fails; "unsynced" stands for the
   warning having been given. *)
SyncDir(w) ==
    /\ pc[w] = "renamed"
    /\ \/ durableDirs' = {dir} /\ Goto(w, "done")
       \/ UNCHANGED durableDirs /\ Goto(w, "unsynced")
    /\ UNCHANGED <<attempt, fd, dir, past, fileVars, powerLosses>>

(* Variant: an error after the wrap returns at once, by `?`. *)
StepFailsUncleaned(w) ==
    /\ pc[w] \in {"writing", "wrapped", "flushed", "renaming"}
    /\ Goto(w, IF pc[w] = "writing" THEN "failing" ELSE "failed")
    /\ UNCHANGED <<attempt, fd, dirVars, fileVars, powerLosses>>

(* Any call of the closure may return an error, wrap_with included. *)
StepFails(w) ==
    /\ pc[w] \in {"writing", "wrapped", "flushed", "renaming"}
    /\ Goto(w, "failing")
    /\ UNCHANGED <<attempt, fd, dirVars, fileVars, powerLosses>>

(* remove_file on the temporary path *)
RemoveTemp(w) ==
    /\ pc[w] = "failing"
    /\ SetDir([dir EXCEPT ![TempPath(w)] = NoFile])
    /\ Goto(w, "failed")
    /\ UNCHANGED <<attempt, fd, past, fileVars, powerLosses>>

(* `let _ = fs::remove_file(..)`: the error of the step is returned all the
   same; "littered" stands for the file having stayed. *)
RemoveFails(w) ==
    /\ pc[w] = "failing"
    /\ Goto(w, "littered")
    /\ UNCHANGED <<attempt, fd, dirVars, fileVars, powerLosses>>
-----------------------------------------------------------------------------
(* External: a run is interrupted, and the machine loses power. *)

Running(w) == pc[w] \notin Ended \cup {"idle"}

Kill(w) ==
    /\ Running(w)
    /\ Goto(w, "killed")
    /\ UNCHANGED <<attempt, fd, dirVars, fileVars, powerLosses>>

IndexOf(f) == CHOOSE i \in DOMAIN past : past[i] = f

PowerLoss ==
    /\ powerLosses < MaxPowerLosses
    /\ powerLosses' = powerLosses + 1
    /\ pc' = [w \in Writers |-> IF Running(w) THEN "killed" ELSE pc[w]]
    /\ dir' \in durableDirs
    /\ durableDirs' = {dir'}
    /\ content' \in [Inodes -> 0 .. Size]
    /\ \A i \in Inodes : durable[i] <= content'[i] /\ content'[i] <= content[i]
    /\ durable' = content'
    /\ past' = SubSeq(past, 1, IndexOf(dir'[Output]))
    /\ UNCHANGED <<attempt, fd>>

Step(w) ==
    \/ CreateTemp(w) \/ NextAttempt(w) \/ AttemptsExhausted(w)
    \/ Write(w) \/ WrapReturns(w) \/ Flush(w) \/ SyncFile(w)
    \/ Rename(w) \/ SyncDir(w) \/ RemoveTemp(w)

Fail(w) == CreateFails(w) \/ StepFails(w) \/ RemoveFails(w) \/ Kill(w)

Next == (\E w \in Writers : Start(w) \/ Step(w) \/ Fail(w)) \/ PowerLoss

(* A run that was started goes on until it returns or is killed. *)
Spec == Init /\ [][Next]_vars /\ \A w \in Writers : WF_vars(Step(w))
-----------------------------------------------------------------------------
(* Correctness. *)

Directories == [Names -> Inodes \cup {NoFile}]

(* The variables keep their types. *)
OutputTypeOK ==
    /\ pc \in [Writers -> Ended \cup {"idle", "creating", "writing", "wrapped",
                                      "flushed", "renaming", "renamed", "failing"}]
    /\ attempt \in [Writers -> 0 .. MaxAttempts - 1]
    /\ fd \in [Writers -> Inodes \cup {NoFile}]
    /\ dir \in Directories
    /\ durableDirs \in SUBSET Directories /\ dir \in durableDirs
    /\ content \in [Inodes -> 0 .. Size]
    /\ durable \in [Inodes -> 0 .. Size]
    /\ past \in Seq(Inodes \cup {NoFile})
    /\ powerLosses \in Nat

(* "A failed or interrupted run therefore never leaves a partial archive at the
   output path, and a power loss shortly after `wrap` returns cannot leave a
   truncated one": what is at the output path is complete, unless power was
   lost and it had been published with --no-sync. *)
OutputComplete ==
    \/ dir[Output] = NoFile
    \/ content[dir[Output]] = Size
    \/ dir[Output] \in NoSync /\ powerLosses > 0

(* The same of every directory a loss of power may leave, as long as the
   archive's own bytes are durable: they are before its name can be. *)
NameAfterContent == \A d \in durableDirs :
    d[Output] \notin NoSync \cup {NoFile} => durable[d[Output]] = Size

(* No run works on a file of another one, whatever the process ids: a temporary
   name that is in use leads to the inode of the run that created it. *)
TempIsOwn == \A w \in Writers :
    pc[w] \in {"writing", "wrapped", "flushed", "renaming", "failing"} =>
        fd[w] = w /\ dir[TempPath(w)] = w

(* A run that was neither killed nor cut off by a loss of power leaves no
   temporary file behind, whichever step failed, unless the removal of that file
   fails as well; then it leaves that one file, under its last name. *)
NoLeftovers == \A w \in Writers : \A n \in Names \ {Output} :
    powerLosses = 0 /\ dir[n] = w =>
        /\ pc[w] \notin {"done", "unsynced", "failed"}
        /\ pc[w] = "littered" => n = TempPath(w)

(* Once a run has returned without the warning of sync_directory, no loss of
   power brings back what was at the output path before it. *)
Safe == CHOOSE i \in DOMAIN past :
    /\ \E d \in durableDirs : d[Output] = past[i]
    /\ \A d \in durableDirs : \A j \in DOMAIN past : d[Output] = past[j] => i <= j

ReturnedIsSafe == \A w \in Writers :
    pc[w] = "done" => \E i \in 1 .. Safe : past[i] = w

(* The output path behaves as AtomicPublish says. *)
Visible == IF dir[Output] # NoFile /\ content[dir[Output]] < Size
           THEN Partial ELSE dir[Output]

Publishing == INSTANCE AtomicPublish
    WITH Archives <- Writers, Before <- Existing, Risky <- NoSync,
         visible <- Visible, past <- past, safe <- Safe

PublishesAtomically == Publishing!PublishSpec

(* A run that has started returns, or is killed. *)
RunsEnd == \A w \in Writers : pc[w] = "creating" ~> pc[w] \in Ended
=============================================================================
