----------------------------- MODULE JobRunProofs -----------------------------
(***************************************************************************)
(* That a run keeps what it promises the queue and the routes, and that    *)
(* what it returns is true, for jobs of any number of steps and whatever   *)
(* the child, its tools, the timeout and a cancellation do.                *)
(***************************************************************************)
EXTENDS JobRun, TLAPS

Events == {"step", "exporting", "done", "failed"}

Holds(events, e) == \E k \in 1 .. Len(events) : events[k] = e

\* The shapes the argument needs.
Shapes ==
    /\ task \in {"preparing", "spawning", "watching", "stopping", "collecting", "returned"}
    /\ stopping \in {"no", "timed_out", "cancelled"}
    /\ child \in Gone \cup {"started", "exporting", "written", "in place",
                            "said done", "said failed"}
    /\ pipe \in Seq(Events)
    /\ temporary \in BOOLEAN /\ output \in BOOLEAN /\ reading \in BOOLEAN
    /\ permit \in BOOLEAN /\ asked \in BOOLEAN
    /\ outcome \in Outcomes \cup {"nothing"}

\* Where the task is, and what that says of the child and of the outcome.
TaskAgrees ==
    /\ task \in {"preparing", "spawning"} <=> child = "none" /\ task # "returned"
    /\ task \notin {"stopping", "returned"} => stopping = "no"
    /\ task = "stopping" => stopping # "no"
    /\ task # "returned" <=> outcome = "nothing"
    /\ task = "returned" => ~Alive /\ (child # "none" => specFile = "absent")
    /\ task = "collecting" => ~reading
    /\ permit \/ stopping = "cancelled" => asked

\* The output is in place once the child has renamed it and not before, and a
\* child that failed by itself never did.
OutputAgrees ==
    /\ child \in {"in place", "said done", "succeeded"} => output /\ ~temporary
    /\ child \in {"none", "started", "exporting", "written", "said failed", "exited"} => ~output

\* What was heard, or is still to be, is what the child said last.
HeardAgrees ==
    /\ last = "failed" \/ Holds(pipe, "failed") =>
          child \in {"said failed", "exited", "crashed", "killed"} /\ ~output
    /\ child \in {"said done", "succeeded"} => last = "done" \/ Holds(pipe, "done")
    /\ ~reading => pipe = <<>> /\ ~Alive /\ child # "none"

ReturnAgrees ==
    /\ outcome = "done" => child = "succeeded"
    /\ task = "returned" /\ child = "succeeded" /\ stopping = "no" => outcome = "done"

RunInv == Shapes /\ TaskAgrees /\ OutputAgrees /\ HeardAgrees /\ ReturnAgrees

-----------------------------------------------------------------------------

\* What an event added to the pipe, and one read from it, does to what it holds.
LEMMA Appended ==
    ASSUME NEW events \in Seq(Events), NEW x \in Events, NEW e
    PROVE  /\ Append(events, x) \in Seq(Events)
           /\ Holds(Append(events, x), e) <=> Holds(events, e) \/ x = e
<1>1. /\ Len(Append(events, x)) = Len(events) + 1
      /\ Append(events, x)[Len(events) + 1] = x
      /\ \A k \in 1 .. Len(events) : Append(events, x)[k] = events[k]
    OBVIOUS
<1>2. ASSUME Holds(events, e) \/ x = e PROVE Holds(Append(events, x), e)
  <2>1. \A k \in 1 .. Len(events) : k \in 1 .. Len(events) + 1 OBVIOUS
  <2>2. Len(events) + 1 \in 1 .. Len(events) + 1 OBVIOUS
  <2> QED BY <1>1, <1>2, <2>1, <2>2 DEF Holds
<1>3. ASSUME Holds(Append(events, x), e) PROVE Holds(events, e) \/ x = e
  <2>1. \A k \in 1 .. Len(events) + 1 : k \in 1 .. Len(events) \/ k = Len(events) + 1 OBVIOUS
  <2> QED BY <1>1, <1>3, <2>1 DEF Holds
<1> QED BY <1>2, <1>3

LEMMA Taken ==
    ASSUME NEW events \in Seq(Events), events # <<>>, NEW e
    PROVE  /\ Tail(events) \in Seq(Events) /\ Head(events) \in Events
           /\ Holds(Tail(events), e) \/ Head(events) = e <=> Holds(events, e)
<1>1. /\ Len(events) \in Nat \ {0} /\ Len(Tail(events)) = Len(events) - 1
      /\ Head(events) = events[1] /\ events[1] \in Events
      /\ Tail(events) \in Seq(Events)
      /\ \A k \in 1 .. Len(events) - 1 : Tail(events)[k] = events[k + 1]
    OBVIOUS
<1>2. ASSUME Holds(Tail(events), e) \/ Head(events) = e PROVE Holds(events, e)
  <2>1. \A k \in 1 .. Len(events) - 1 : k + 1 \in 1 .. Len(events) BY <1>1
  <2>2. 1 \in 1 .. Len(events) BY <1>1
  <2> QED BY <1>1, <1>2, <2>1, <2>2 DEF Holds
<1>3. ASSUME Holds(events, e) PROVE Holds(Tail(events), e) \/ Head(events) = e
  <2>1. PICK k \in 1 .. Len(events) : events[k] = e BY <1>3 DEF Holds
  <2>2. CASE k = 1 BY <1>1, <2>1, <2>2
  <2>3. CASE k # 1
    <3>1. k - 1 \in 1 .. Len(events) - 1 /\ Tail(events)[k - 1] = events[k]
      BY <1>1, <2>1, <2>3
    <3> QED BY <1>1, <2>1, <3>1 DEF Holds
  <2> QED BY <2>2, <2>3
<1> QED BY <1>1, <1>2, <1>3

LEMMA RunStarts == Init => RunInv
<1> SUFFICES ASSUME Init PROVE RunInv OBVIOUS
<1>1. ~Holds(<<>>, "failed") /\ <<>> \in Seq(Events) BY DEF Holds
<1>2. Shapes BY <1>1 DEF Init, Shapes, Gone
<1>3. TaskAgrees BY DEF Init, TaskAgrees
<1>4. OutputAgrees /\ ReturnAgrees BY DEF Init, OutputAgrees, ReturnAgrees
<1>5. HeardAgrees BY <1>1 DEF Init, HeardAgrees
<1> QED BY <1>2, <1>3, <1>4, <1>5 DEF RunInv

-----------------------------------------------------------------------------
(* The task *)

LEMMA TaskKeeps == RunInv /\ TaskNext => RunInv'
<1> SUFFICES ASSUME RunInv, TaskNext PROVE RunInv' OBVIOUS
<1> USE DEF RunInv, Shapes, Return, Outcomes, childVars, readVars
<1>1. CASE PrepareFails
    BY <1>1 DEF PrepareFails, TaskAgrees, OutputAgrees, HeardAgrees, ReturnAgrees, Alive, Gone
<1>2. CASE Prepares
    BY <1>2 DEF Prepares, TaskAgrees, OutputAgrees, HeardAgrees, ReturnAgrees, Alive, Gone
<1>3. CASE SpawnFails
    BY <1>3 DEF SpawnFails, TaskAgrees, OutputAgrees, HeardAgrees, ReturnAgrees, Alive, Gone
<1>4. CASE Spawns
  <2>1. child = "none" /\ child' = "started" /\ task' = "watching" BY <1>4 DEF Spawns, TaskAgrees
  <2>2. Shapes' BY <1>4, <2>1 DEF Spawns
  <2>3. TaskAgrees' BY <1>4, <2>1 DEF Spawns, TaskAgrees, Alive, Gone
  <2>4. OutputAgrees' BY <1>4, <2>1 DEF Spawns, OutputAgrees
  <2>5. reading /\ ~(last = "failed" \/ Holds(pipe, "failed"))
    BY <1>4, <2>1 DEF Spawns, TaskAgrees, HeardAgrees
  <2>6. HeardAgrees' BY <1>4, <2>1, <2>5 DEF Spawns, HeardAgrees
  <2>7. ReturnAgrees' BY <1>4, <2>1 DEF Spawns, ReturnAgrees, TaskAgrees
  <2> QED BY <2>2, <2>3, <2>4, <2>6, <2>7
<1>5. CASE SeesEnd
    BY <1>5 DEF SeesEnd, TaskAgrees, OutputAgrees, HeardAgrees, ReturnAgrees, Alive, Gone
<1>6. CASE TimesOut \/ SeesCancel
  <2>1. /\ task = "watching" /\ task' = "stopping" /\ stopping' \in {"timed_out", "cancelled"}
        /\ UNCHANGED <<specFile, outcome, child, temporary, output, pipe, readVars, asked>>
        /\ permit' \in BOOLEAN
    BY <1>6 DEF TimesOut, SeesCancel, Kill
  <2>2. permit' \/ stopping' = "cancelled" => asked
    BY <1>6 DEF TimesOut, SeesCancel, Kill, TaskAgrees
  <2>3. Shapes' BY <2>1
  <2>4. TaskAgrees' BY <2>1, <2>2 DEF TaskAgrees, Alive
  <2>5. OutputAgrees' /\ HeardAgrees' /\ ReturnAgrees'
    BY <2>1 DEF OutputAgrees, HeardAgrees, ReturnAgrees, TaskAgrees, Alive
  <2> QED BY <2>3, <2>4, <2>5
<1>7. CASE Stops
  <2>1. TaskAgrees' /\ OutputAgrees' /\ HeardAgrees'
    BY <1>7 DEF Stops, TaskAgrees, OutputAgrees, HeardAgrees, Alive, Gone
  <2>2. ReturnAgrees' BY <1>7 DEF Stops, TaskAgrees, ReturnAgrees
  <2>3. Shapes' BY <1>7 DEF Stops, TaskAgrees
  <2> QED BY <2>1, <2>2, <2>3
<1>8. CASE Collects
  <2>1. pipe = <<>> /\ ~Alive BY <1>8 DEF Collects, TaskAgrees, HeardAgrees
  <2>2. child = "succeeded" => last = "done"
    BY <2>1 DEF HeardAgrees, Holds
  <2>3. TaskAgrees' /\ OutputAgrees' /\ HeardAgrees'
    BY <1>8, <2>1 DEF Collects, TaskAgrees, OutputAgrees, HeardAgrees, Alive, Gone, Result
  <2>4. ReturnAgrees' BY <1>8, <2>2 DEF Collects, ReturnAgrees, Result
  <2> QED BY <1>8, <2>3, <2>4 DEF Collects, Result
<1> QED BY <1>1, <1>2, <1>3, <1>4, <1>5, <1>6, <1>7, <1>8 DEF TaskNext

-----------------------------------------------------------------------------
(* The reader *)

LEMMA ReaderKeeps == RunInv /\ (Reads \/ ReadsEnd) => RunInv'
<1> SUFFICES ASSUME RunInv, Reads \/ ReadsEnd PROVE RunInv' OBVIOUS
<1>1. CASE Reads
  <2>1. /\ UNCHANGED <<taskVars, child, temporary, output, reading, permit, asked>>
        /\ pipe # <<>> /\ pipe' = Tail(pipe) /\ pipe \in Seq(Events)
    BY <1>1 DEF Reads, RunInv, Shapes
  <2>2. /\ pipe' \in Seq(Events) /\ Head(pipe) \in Events
        /\ Holds(pipe', "failed") \/ Head(pipe) = "failed" <=> Holds(pipe, "failed")
        /\ Holds(pipe', "done") \/ Head(pipe) = "done" <=> Holds(pipe, "done")
    BY <2>1, Taken
  <2>3. last' = IF Head(pipe) \in {"done", "failed"} THEN Head(pipe) ELSE last
    BY <1>1, <2>2 DEF Reads, Events
  <2>4. Shapes' /\ TaskAgrees' /\ OutputAgrees' /\ ReturnAgrees'
    BY <2>1, <2>2 DEF RunInv, Shapes, TaskAgrees, OutputAgrees, ReturnAgrees, taskVars, Alive
  <2>5. reading BY <2>1 DEF RunInv, HeardAgrees, Shapes
  <2>6. HeardAgrees' BY <2>1, <2>2, <2>3, <2>5 DEF RunInv, HeardAgrees
  <2> QED BY <2>4, <2>6 DEF RunInv
<1>2. CASE ReadsEnd
    BY <1>2 DEF ReadsEnd, RunInv, Shapes, TaskAgrees, OutputAgrees, HeardAgrees, ReturnAgrees,
                taskVars, childVars, Alive, PipesClosed
<1> QED BY <1>1, <1>2

-----------------------------------------------------------------------------
(* The child *)

\* What the child may do between two of its events, or at its end.
LEMMA ChildKeeps == RunInv /\ (ChildNext \/ ToolEnds) => RunInv'
<1> SUFFICES ASSUME RunInv, ChildNext \/ ToolEnds PROVE RunInv' OBVIOUS
<1>20. UNCHANGED <<taskVars, readVars, permit, asked>>
    BY DEF ChildNext, ToolEnds, RestUnchanged, ChildSteps, ChildExports, ChildOpens, ChildWrites,
           ChildRenames, ChildSaysDone, ChildFails, ChildExits, ChildCrashes, ChildDies
<1>21. pipe \in Seq(Events) BY DEF RunInv, Shapes
<1>1. ASSUME NEW e \in Events, Emits(e), Alive,
             UNCHANGED output, temporary' \in BOOLEAN,
             child' \in {"started", "exporting", "said done", "said failed"},
             \/ child = "started" /\ e \notin {"done", "failed"} /\ child' \in {"started", "exporting"}
             \/ child = "in place" /\ e = "done" /\ child' = "said done" /\ UNCHANGED temporary
             \/ child \in {"started", "exporting", "written"} /\ e = "failed" /\ child' = "said failed"
      PROVE  RunInv'
  <2>1. /\ pipe' \in Seq(Events)
        /\ Holds(pipe', "failed") <=> Holds(pipe, "failed") \/ e = "failed"
        /\ Holds(pipe', "done") <=> Holds(pipe, "done") \/ e = "done"
    BY <1>1, <1>21, Appended DEF Emits
  <2>2. reading BY <1>1 DEF RunInv, HeardAgrees
  <2>3. Shapes' BY <1>1, <1>20, <2>1 DEF RunInv, Shapes, taskVars, readVars
  <2>4. TaskAgrees' BY <1>1, <1>20 DEF RunInv, TaskAgrees, taskVars, readVars, Alive, Gone
  <2>5. OutputAgrees' BY <1>1 DEF RunInv, OutputAgrees
  <2>6. HeardAgrees' BY <1>1, <1>20, <2>1, <2>2 DEF RunInv, HeardAgrees, OutputAgrees, readVars
  <2>7. ReturnAgrees' BY <1>1, <1>20 DEF RunInv, ReturnAgrees, TaskAgrees, taskVars
  <2> QED BY <2>3, <2>4, <2>5, <2>6, <2>7 DEF RunInv
<1>2. CASE ChildSteps BY <1>1, <1>2 DEF ChildSteps, Alive, Gone, Events, RunInv, Shapes
<1>3. CASE ChildExports BY <1>1, <1>3 DEF ChildExports, Alive, Gone, Events, RunInv, Shapes
<1>4. CASE ChildSaysDone BY <1>1, <1>4 DEF ChildSaysDone, Alive, Gone, Events, RunInv, Shapes
<1>5. CASE ChildFails BY <1>1, <1>5 DEF ChildFails, Alive, Gone, Events, RunInv, Shapes
<1>6. ASSUME UNCHANGED pipe, ChildOpens \/ ChildWrites \/ ChildRenames PROVE RunInv'
  <2>1. /\ child \in {"exporting", "written"} /\ child' \in {"exporting", "written", "in place"}
        /\ temporary' \in BOOLEAN /\ output' \in BOOLEAN
        /\ child' = "in place" => output' /\ ~temporary'
        /\ child' # "in place" => output' = output
    BY <1>6 DEF ChildOpens, ChildWrites, ChildRenames, RunInv, Shapes
  <2>2. reading BY <2>1 DEF RunInv, HeardAgrees, Alive, Gone
  <2>3. Shapes' BY <1>6, <1>20, <2>1 DEF RunInv, Shapes, taskVars, readVars
  <2>4. TaskAgrees' BY <1>20, <2>1 DEF RunInv, TaskAgrees, taskVars, readVars, Alive, Gone
  <2>5. OutputAgrees' BY <2>1 DEF RunInv, OutputAgrees
  <2>6. HeardAgrees' BY <1>6, <1>20, <2>1, <2>2 DEF RunInv, HeardAgrees, readVars
  <2>7. ReturnAgrees' BY <1>20, <2>1 DEF RunInv, ReturnAgrees, TaskAgrees, taskVars, Alive, Gone
  <2> QED BY <2>3, <2>4, <2>5, <2>6, <2>7 DEF RunInv
<1>7. CASE ChildExits \/ ChildCrashes \/ ChildDies
  <2>1. /\ Alive /\ child' \in Gone \ {"none"} /\ UNCHANGED <<pipe, output, temporary>>
        /\ child' = "succeeded" => child = "said done"
        /\ child' = "exited" => child = "said failed"
    BY <1>7 DEF ChildExits, ChildCrashes, ChildDies, Alive, Gone
  <2>2. reading BY <2>1 DEF RunInv, HeardAgrees
  <2>3. Shapes' BY <1>20, <2>1 DEF RunInv, Shapes, taskVars, readVars
  <2>4. TaskAgrees' BY <1>20, <2>1 DEF RunInv, TaskAgrees, taskVars, readVars, Alive, Gone
  <2>5. OutputAgrees' BY <2>1 DEF RunInv, OutputAgrees, Gone
  <2>6. HeardAgrees'
    <3>1. last = "failed" \/ Holds(pipe, "failed") => child' \in {"exited", "crashed", "killed"}
      BY <2>1 DEF RunInv, HeardAgrees, Gone
    <3>2. ~output \/ ~(last = "failed" \/ Holds(pipe, "failed")) BY DEF RunInv, HeardAgrees
    <3>3. child' \notin {"said done", "said failed"} BY <2>1 DEF Gone
    <3>4. child' = "succeeded" => last = "done" \/ Holds(pipe, "done")
      BY <2>1 DEF RunInv, HeardAgrees
    <3>5. reading' /\ last' = last /\ pipe' = pipe /\ output' = output
      BY <1>20, <2>1, <2>2 DEF readVars
    <3> QED BY <3>1, <3>2, <3>3, <3>4, <3>5 DEF HeardAgrees
  <2>7. ReturnAgrees' BY <1>20, <2>1 DEF RunInv, ReturnAgrees, TaskAgrees, taskVars
  <2> QED BY <2>3, <2>4, <2>5, <2>6, <2>7 DEF RunInv
<1>8. CASE ToolEnds
    BY <1>8, <1>20 DEF ToolEnds, RunInv, Shapes, TaskAgrees, OutputAgrees, HeardAgrees, ReturnAgrees,
                      taskVars, readVars, Alive
<1> QED
    BY <1>2, <1>3, <1>4, <1>5, <1>6, <1>7, <1>8
    DEF ChildNext, ChildOpens, ChildWrites, ChildRenames

-----------------------------------------------------------------------------

LEMMA RunKeeps == RunInv /\ [Next]_vars => RunInv'
<1> SUFFICES ASSUME RunInv, [Next]_vars PROVE RunInv' OBVIOUS
<1>1. CASE Cancel
    BY <1>1 DEF Cancel, RunInv, Shapes, TaskAgrees, OutputAgrees, HeardAgrees, ReturnAgrees,
                taskVars, childVars, readVars, Alive
<1>2. CASE UNCHANGED vars
    BY <1>2 DEF vars, RunInv, Shapes, TaskAgrees, OutputAgrees, HeardAgrees, ReturnAgrees,
                taskVars, childVars, readVars, Alive
<1> QED BY <1>1, <1>2, TaskKeeps, ReaderKeeps, ChildKeeps DEF Next

\* What a run tells the queue is true (ProcessingQueue::run, job.rs): done is of
\* an output in place and a child that ended well, a child that failed wrote
\* nothing, one that said it was done is believed unless it was being stopped,
\* and the slot is given back when the child is gone and its spec removed.
THEOREM ResultIsAlwaysTrue == Spec => []ResultIsTrue
<1>1. RunInv => ResultIsTrue
    BY DEF RunInv, ResultIsTrue, TaskAgrees, OutputAgrees, HeardAgrees, ReturnAgrees
<1> QED BY <1>1, RunStarts, RunKeeps, PTL DEF Spec

\* Every step of a run is one its promise allows, or none of its business: it
\* returns once, when nothing can write any more, done only with the output in
\* place and cancelled only when asked.
THEOREM RunAlwaysKeepsItsPromise == Spec => RunKeepsItsPromise
<1>1. Init => Promise!Init BY DEF Init, Promise!Init, Alive, Gone
<1>2. RunInv /\ [Next]_vars => [Promise!Next]_(Promise!promised)
  <2> SUFFICES ASSUME RunInv, [Next]_vars
               PROVE  Promise!Next \/ UNCHANGED <<Alive, output, asked, outcome>>
    BY DEF Promise!promised
  <2> USE DEF RunInv, TaskAgrees
  <2>1. ASSUME NEW o \in Outcomes, Return(o), UNCHANGED <<child, output, asked>>, task # "returned",
               ~Alive, o = "done" => output, o = "cancelled" => asked
        PROVE  Promise!Next
    <3>1. Promise!Return(o) BY <2>1 DEF Promise!Return, Return, Alive
    <3> QED BY <3>1 DEF Promise!Next
  <2>2. CASE PrepareFails \/ SpawnFails
    BY <2>1, <2>2 DEF PrepareFails, SpawnFails, childVars, Outcomes, Alive, Gone
  <2>3. CASE Prepares \/ SeesEnd \/ TimesOut \/ SeesCancel
    BY <2>3 DEF Prepares, SeesEnd, TimesOut, SeesCancel, Kill, childVars, Alive
  <2>4. CASE Spawns
    BY <2>4 DEF Spawns, Promise!Next, Promise!Start, Alive, Gone
  <2>5. CASE Stops
    <3>1. stopping \in {"timed_out", "cancelled"} BY <2>5 DEF Stops, Shapes
    <3> QED BY <2>1, <2>5, <3>1 DEF Stops, childVars, Outcomes
  <2>6. CASE Collects
    <3>1. Result = "done" => output BY DEF Result, OutputAgrees
    <3> QED BY <2>1, <2>6, <3>1 DEF Collects, childVars, Outcomes, Result, PipesClosed
  <2>7. CASE Reads \/ ReadsEnd
    BY <2>7 DEF Reads, ReadsEnd, taskVars, childVars, Alive
  <2>8. CASE Cancel BY <2>8 DEF Cancel, Promise!Next, Promise!Ask, taskVars, childVars, Alive
  <2>9. CASE ChildRenames
    BY <2>9 DEF ChildRenames, RestUnchanged, taskVars, Promise!Next, Promise!Produce, Alive, Gone
  <2>10. CASE ChildExits \/ ChildCrashes \/ ChildDies
    BY <2>10 DEF ChildExits, ChildCrashes, ChildDies, RestUnchanged, taskVars, Promise!Next,
                 Promise!End, Alive, Gone
  <2>11. CASE ChildSteps \/ ChildExports \/ ChildOpens \/ ChildWrites \/ ChildSaysDone \/ ChildFails
              \/ ToolEnds
    BY <2>11 DEF ChildSteps, ChildExports, ChildOpens, ChildWrites, ChildSaysDone, ChildFails,
                 ToolEnds, RestUnchanged, taskVars, Alive, Gone
  <2>12. CASE UNCHANGED vars BY <2>12 DEF vars, taskVars, childVars, Alive
  <2> QED
    BY <2>2, <2>3, <2>4, <2>5, <2>6, <2>7, <2>8, <2>9, <2>10, <2>11, <2>12
    DEF Next, TaskNext, ChildNext
<1> QED BY <1>1, <1>2, RunStarts, RunKeeps, PTL DEF Spec, RunKeepsItsPromise, Promise!Spec
=============================================================================
