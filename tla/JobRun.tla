-------------------------------- MODULE JobRun --------------------------------
(***************************************************************************)
(* One run of a processing job: the task of the queue that runs it         *)
(* (ProcessingQueue::run, src/src/server/processing.rs), the thread that   *)
(* reads what the job says, and the child process itself (src/src/job.rs). *)
(*                                                                         *)
(* They share two pipes, which end when every process that holds them has: *)
(* the child, and a tool it started that it may leave behind.              *)
(***************************************************************************)
EXTENDS Naturals, Sequences

CONSTANT Steps    \* how many processing steps the job has

ASSUME StepsAssumption == Steps \in Nat

Outcomes == {"done", "failed", "timed_out", "cancelled"}

VARIABLES
    task,      \* where the run is
    stopping,  \* why it stopped its child, or "no"
    specFile,  \* job-<id>.json
    child,     \* what the child process does
    signalled, \* the child was sent the signal that kills it
    step,      \* how many steps the child has begun
    temporary, \* the .tmp-<pid>.nc sibling of the output
    output,    \* the processed file, in place
    tool,      \* an external tool the child started: it holds both pipes
    pipe,      \* what is in the stdout pipe
    reading,   \* the reader has not met the end of stdout
    last,      \* the last event that was neither a step nor exporting
    shown,     \* the steps and "writing" of the job's status
    permit,    \* the Notify of the job holds a permit
    asked,     \* somebody cancelled the job
    outcome    \* what run returned

childVars == <<child, signalled, step, temporary, output, tool, pipe>>
readVars  == <<reading, last, shown>>
taskVars  == <<task, stopping, specFile, outcome>>
vars == <<taskVars, childVars, readVars, permit, asked>>

Gone == {"none", "succeeded", "exited", "crashed", "killed"}

Alive == child \notin Gone

\* Every process that holds the write end of the pipes has ended.
PipesClosed == ~Alive /\ tool # "running"

-----------------------------------------------------------------------------

Init ==
    /\ task = "preparing"
    /\ stopping = "no"
    /\ specFile = "absent"
    /\ child = "none"
    /\ signalled = FALSE
    /\ step = 0
    /\ temporary = FALSE
    /\ output = FALSE
    /\ tool = "none"
    /\ pipe = <<>>
    /\ reading = TRUE
    /\ last = "nothing"
    /\ shown = [step |-> 0, writing |-> FALSE]
    /\ permit = FALSE
    /\ asked = FALSE
    /\ outcome = "nothing"

(* The run *)

Return(result) ==
    /\ task' = "returned"
    /\ outcome' = result

\* The work directory or the spec file cannot be written. A write that fails
\* may leave a part of the file, which nobody removes.
PrepareFails ==
    /\ task = "preparing"
    /\ specFile' \in {"absent", "partial"}
    /\ Return("failed")
    /\ UNCHANGED <<stopping, childVars, readVars, permit, asked>>

Prepares ==
    /\ task = "preparing"
    /\ specFile' = "written"
    /\ task' = "spawning"
    /\ UNCHANGED <<stopping, outcome, childVars, readVars, permit, asked>>

SpawnFails ==
    /\ task = "spawning"
    /\ specFile' = "absent"
    /\ Return("failed")
    /\ UNCHANGED <<stopping, childVars, readVars, permit, asked>>

Spawns ==
    /\ task = "spawning"
    /\ child' = "started"
    /\ task' = "watching"
    /\ UNCHANGED <<stopping, specFile, outcome, signalled, step, temporary,
                   output, tool, pipe, readVars, permit, asked>>

\* select!: the end of stdout, the timeout, or a cancellation, whichever the
\* task sees first when several are ready.
SeesEnd ==
    /\ task = "watching"
    /\ ~reading
    /\ task' = "collecting"
    /\ UNCHANGED <<stopping, specFile, outcome, childVars, readVars, permit,
                   asked>>

\* The signal is sent; the process is gone when the system has ended it.
Kill(why) ==
    /\ stopping' = why
    /\ signalled' = Alive
    /\ task' = "stopping"
    /\ UNCHANGED <<specFile, outcome, child, step, temporary, output, tool, pipe,
                   readVars, asked>>

TimesOut ==
    /\ task = "watching"
    /\ Kill("timed_out")
    /\ UNCHANGED permit

SeesCancel ==
    /\ task = "watching"
    /\ permit
    /\ permit' = FALSE
    /\ Kill("cancelled")

\* Seeded fault: the output of a stopped job is waited for to its end.
StopsWithoutGrace ==
    /\ task = "stopping"
    /\ ~reading /\ PipesClosed
    /\ specFile' = "absent"
    /\ Return(stopping)
    /\ UNCHANGED <<stopping, childVars, readVars, permit, asked>>

\* Both pipes are waited for, for two seconds each, then the child is: its
\* output has ended or the two seconds passed, which may be at any time.
Stops ==
    /\ task = "stopping"
    /\ ~Alive
    /\ specFile' = "absent"
    /\ Return(stopping)
    /\ UNCHANGED <<stopping, childVars, readVars, permit, asked>>

\* Seeded fault: what the child said last is not asked for.
ResultOfStatus == IF child \in Gone THEN "done" ELSE "failed"

\* What the child said last and how it ended.
Result ==
    IF last = "done" /\ child = "succeeded" THEN "done" ELSE "failed"

\* The end of stderr, and the child's exit status: neither has a timeout.
Collects ==
    /\ task = "collecting"
    /\ PipesClosed
    /\ specFile' = "absent"
    /\ Return(Result)
    /\ UNCHANGED <<stopping, childVars, readVars, permit, asked>>

\* cancel, on a running job (ProcessingQueue).
Cancel ==
    /\ task # "returned" /\ ~asked
    /\ asked' = TRUE
    /\ permit' = TRUE
    /\ UNCHANGED <<taskVars, childVars, readVars>>

(* The thread that reads the child's events *)

Reads ==
    /\ pipe # <<>>
    /\ pipe' = Tail(pipe)
    /\ CASE Head(pipe) = "step" ->
              shown' = [shown EXCEPT !.step = @ + 1] /\ UNCHANGED last
         [] Head(pipe) = "exporting" ->
              shown' = [shown EXCEPT !.writing = TRUE] /\ UNCHANGED last
         [] OTHER -> last' = Head(pipe) /\ UNCHANGED shown
    /\ UNCHANGED <<taskVars, child, signalled, step, temporary, output, tool,
                   reading, permit, asked>>

ReadsEnd ==
    /\ reading /\ child # "none" /\ pipe = <<>> /\ PipesClosed
    /\ reading' = FALSE
    /\ UNCHANGED <<taskVars, childVars, last, shown, permit, asked>>

(* The child process *)

RestUnchanged == UNCHANGED <<taskVars, signalled, readVars, permit, asked>>

Emits(event) == pipe' = Append(pipe, event)

\* The next step, when the spec has been read; any of them may start a tool
\* (gdal, proj).
ChildSteps ==
    /\ child = "started" /\ ~signalled /\ step < Steps
    /\ step' = step + 1
    /\ Emits("step")
    /\ tool' \in {tool, "running"}
    /\ UNCHANGED <<child, temporary, output>>
    /\ RestUnchanged

ChildExports ==
    /\ child = "started" /\ ~signalled /\ step = Steps
    /\ child' = "exporting"
    /\ Emits("exporting")
    /\ UNCHANGED <<step, temporary, output, tool>>
    /\ RestUnchanged

ChildOpens ==
    /\ child = "exporting" /\ ~signalled /\ ~temporary
    /\ temporary' = TRUE
    /\ UNCHANGED <<child, step, output, tool, pipe>>
    /\ RestUnchanged

ChildWrites ==
    /\ child = "exporting" /\ ~signalled /\ temporary
    /\ child' = "written"
    /\ UNCHANGED <<step, temporary, output, tool, pipe>>
    /\ RestUnchanged

\* Seeded fault: the result is announced before it is in place.
ChildAnnouncesFirst ==
    /\ child = "written" /\ ~signalled
    /\ child' = "said done"
    /\ Emits("done")
    /\ UNCHANGED <<step, temporary, output, tool>>
    /\ RestUnchanged

\* The file is renamed into place, and only then announced. A child that is
\* being killed may still finish the system call it is in.
ChildRenames ==
    /\ child = "written"
    /\ temporary' = FALSE
    /\ output' = TRUE
    /\ child' = "in place"
    /\ UNCHANGED <<step, tool, pipe>>
    /\ RestUnchanged

ChildSaysDone ==
    /\ child = "in place" /\ ~signalled
    /\ child' = "said done"
    /\ Emits("done")
    /\ UNCHANGED <<step, temporary, output, tool>>
    /\ RestUnchanged

\* The spec, a step, the export or the rename fails.
ChildFails ==
    /\ child \in {"started", "exporting", "written"} /\ ~signalled
    /\ temporary' = FALSE
    /\ child' = "said failed"
    /\ Emits("failed")
    /\ UNCHANGED <<step, output, tool>>
    /\ RestUnchanged

ChildExits ==
    /\ ~signalled
    /\ \/ child = "said done" /\ child' = "succeeded"
       \/ child = "said failed" /\ child' = "exited"
    /\ UNCHANGED <<step, temporary, output, tool, pipe>>
    /\ RestUnchanged

\* Out of memory, a signal, a panic: at any moment, whatever it said.
ChildCrashes ==
    /\ Alive
    /\ child' = "crashed"
    /\ UNCHANGED <<step, temporary, output, tool, pipe>>
    /\ RestUnchanged

ChildDies ==
    /\ Alive /\ signalled
    /\ child' = "killed"
    /\ UNCHANGED <<step, temporary, output, tool, pipe>>
    /\ RestUnchanged

ToolEnds ==
    /\ tool = "running"
    /\ tool' = "ended"
    /\ UNCHANGED <<child, step, temporary, output, pipe>>
    /\ RestUnchanged

ChildNext ==
    \/ ChildSteps \/ ChildExports \/ ChildOpens \/ ChildWrites \/ ChildRenames
    \/ ChildSaysDone \/ ChildFails \/ ChildExits \/ ChildCrashes \/ ChildDies

TaskNext ==
    \/ PrepareFails \/ Prepares \/ SpawnFails \/ Spawns
    \/ SeesEnd \/ TimesOut \/ SeesCancel \/ Stops \/ Collects

Next == TaskNext \/ Reads \/ ReadsEnd \/ ChildNext \/ ToolEnds \/ Cancel

Spec == Init /\ [][Next]_vars

\* The task, its timeout and its reader run, and the system ends a process
\* it was told to kill; the child may hang at any point, and a tool it
\* started may never end.
Fairness ==
    /\ WF_vars(TaskNext)
    /\ WF_vars(Reads)
    /\ WF_vars(ReadsEnd)
    /\ WF_vars(ChildDies)

FairSpec == Spec /\ Fairness

-----------------------------------------------------------------------------
(***************************************************************************)
(* Properties                                                              *)
(***************************************************************************)

TypeOK ==
    /\ task \in {"preparing", "spawning", "watching", "stopping", "collecting",
                 "returned"}
    /\ stopping \in {"no", "timed_out", "cancelled"}
    /\ specFile \in {"absent", "partial", "written"}
    /\ child \in Gone \cup {"started", "exporting", "written", "in place",
                            "said done", "said failed"}
    /\ signalled \in BOOLEAN
    /\ step \in 0 .. Steps
    /\ temporary \in BOOLEAN /\ output \in BOOLEAN
    /\ tool \in {"none", "running", "ended"}
    /\ pipe \in Seq({"step", "exporting", "done", "failed"})
    /\ reading \in BOOLEAN
    /\ last \in {"nothing", "done", "failed"}
    /\ shown \in [step : 0 .. Steps, writing : BOOLEAN]
    /\ permit \in BOOLEAN /\ asked \in BOOLEAN
    /\ outcome \in Outcomes \cup {"nothing"}

\* What a run tells the queue is true of the disk and of its child.
\*  - Done: "Written to a temporary sibling and renamed into place, so it
\*    exists only once it is complete" (job.rs), so the output is there and
\*    the child agrees.
\*  - Failed on its own: "Nothing was written to `output`" (Event::Failed).
\*  - What the child said last is heard before it is judged: one that said it
\*    was done and exited by itself is done, unless the run was stopping.
\*  - A slot is given back only when the child has ended, so two jobs never
\*    run in the place of one; and a run that started its child leaves no
\*    spec behind, however it ended.
ResultIsTrue ==
    /\ outcome = "done" => output /\ ~temporary /\ child = "succeeded"
    /\ last = "failed" => ~output
    /\ task = "returned" /\ child = "succeeded" /\ stopping = "no"
         => outcome = "done"
    /\ task = "returned" => ~Alive /\ (child # "none" => specFile = "absent")

\* Every run returns, however its child hangs and whatever the child left
\* behind holding the pipes: the slot is never lost.
EveryRunReturns == <>(task = "returned")

\* What a run promises the queue and the routes (RunPromise).
Promise == INSTANCE RunPromise WITH alive <- Alive, inPlace <- output
RunKeepsItsPromise == Promise!Spec
=============================================================================
