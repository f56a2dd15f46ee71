--------------------------- MODULE ProcessingQueue ---------------------------
(***************************************************************************)
(* The site-wide processing queue (src/src/server/processing.rs).          *)
(*                                                                         *)
(* Every operation of the queue runs under one mutex, and the model has    *)
(* one action per critical section. What the code does between two of them *)
(* is visible here: a submission and a finished run each release the mutex *)
(* before they take it again to dispatch (owed), and a run that has        *)
(* returned has not recorded its end yet (returned), so a cancel, another  *)
(* submission or another job's end may come in between.                    *)
(*                                                                         *)
(* A job's run is one child process; here it only returns an outcome.      *)
(* JobRun models what happens while it runs.                               *)
(***************************************************************************)
EXTENDS Naturals, FiniteSets

CONSTANTS
    Requests,        \* the job requests that may be submitted
    Unset,           \* a project that asks for no limit of its own
    JobsAtOnce,      \* --processing-jobs
    MemoryBytes,     \* --processing-memory-mb
    MaxPerUser,      \* --max-queued-per-user
    MaxPerProject,   \* --max-queued-per-project
    MaxSubmissions   \* bound: how many jobs a behaviour queues

Priorities == {"draft", "batch"}

ASSUME RequestsAssumption ==
    \A r \in Requests :
        /\ r.priority \in Priorities
        /\ r.estimate \in Nat
        /\ r.projectLimit \in Nat \cup {Unset}
ASSUME RequestsNonEmpty == Requests # {}
ASSUME UnsetAssumption == Unset \notin Nat
ASSUME LimitsAssumption ==
    /\ JobsAtOnce \in Nat
    /\ MemoryBytes \in Nat
    /\ MaxPerUser \in Nat
    /\ MaxPerProject \in Nat
    /\ MaxSubmissions \in Nat

Ids == 1 .. MaxSubmissions

EndStates == {"done", "failed", "timed_out", "cancelled"}
JobStates == {"absent", "queued", "running", "forgotten"} \cup EndStates

VARIABLES
    nextId,      \* Inner::next_id
    request,     \* what each job was submitted with
    state,       \* JobState, or absent before a submission and forgotten after it
    cancelled,   \* the jobs cancelled while they ran
    returned,    \* what a job's run returned, until finish records it
    finished,    \* FinishedCounts since the heartbeat last took them
    reported,    \* how many ends the heartbeats have reported
    owed         \* how many calls of dispatch are due

vars == <<nextId, request, state, cancelled, returned, finished, reported,
          owed>>

-----------------------------------------------------------------------------

InState(s)       == {id \in Ids : state[id] = s}
Running          == InState("running")

\* Seeded fault: a job cancelled in the queue is still in it.
WaitingWithCancelled == InState("queued") \cup InState("cancelled")

Waiting          == InState("queued")
Unfinished       == {id \in Ids : state[id] \in {"queued", "running"}}
Ended            == {id \in Ids : state[id] \in EndStates}
UnfinishedOf(o)  == {id \in Unfinished : request[id].owner = o}
UnfinishedIn(p)  == {id \in Unfinished : request[id].project = p}

\* The bytes the jobs of S are expected to use, each byte a pair of its job
\* and its number: their sum is how many there are.
BytesOf(S) == UNION {{id} \X (1 .. request[id].estimate) : id \in S}

AtLeastOne(n) == IF n = 0 THEN 1 ELSE n

\* A project's own limit counts only below the site's, and neither is zero.
ProjectCap(r) ==
    AtLeastOne(IF r.projectLimit = Unset \/ r.projectLimit > MaxPerProject
               THEN MaxPerProject
               ELSE r.projectLimit)

\* Seeded fault: only a job that has not started can be joined.
SameKeyQueued(r) == {id \in Waiting : request[id].key = r.key}

\* The unfinished jobs a request would join instead of queueing its own.
SameKey(r) == {id \in Unfinished : request[id].key = r.key}

Admissible(r) ==
    /\ r.estimate <= MemoryBytes
    /\ Cardinality(UnfinishedOf(r.owner)) < MaxPerUser
    /\ Cardinality(UnfinishedIn(r.project)) < ProjectCap(r)

\* Seeded fault: oldest first, whatever its priority.
BeforeByAge(a, b) == a < b

\* The order of the queue: drafts first, then by age.
Before(a, b) ==
    \/ request[a].priority = "draft" /\ request[b].priority = "batch"
    \/ request[a].priority = request[b].priority /\ a < b

\* Seeded faults: the estimates of what runs are not added up; a job that
\* needs the whole budget does not fit.
FitsAlone(R, id) ==
    /\ Cardinality(R) < AtLeastOne(JobsAtOnce)
    /\ request[id].estimate <= MemoryBytes
FitsBelow(R, id) ==
    /\ Cardinality(R) < AtLeastOne(JobsAtOnce)
    /\ Cardinality(BytesOf(R)) + request[id].estimate < MemoryBytes

\* Whether dispatch would start job id while the jobs of R run. One job
\* always may, so an estimate never keeps the queue from moving.
Fits(R, id) ==
    /\ Cardinality(R) < AtLeastOne(JobsAtOnce)
    /\ R # {} =>
         Cardinality(BytesOf(R)) + request[id].estimate <= MemoryBytes

\* What the loop of dispatch starts: jobs in order, up to the first that
\* does not fit.
Started(S) ==
    /\ S \subseteq Waiting
    /\ \A id \in S, other \in Waiting : Before(other, id) => other \in S
    /\ \A id \in S : Fits(Running \cup {x \in S : Before(x, id)}, id)
    /\ \A id \in Waiting \ S :
          (\A other \in Waiting : Before(other, id) => other \in S)
             => ~Fits(Running \cup S, id)

-----------------------------------------------------------------------------

Init ==
    /\ nextId = 0
    /\ request = [id \in Ids |-> CHOOSE r \in Requests : TRUE]
    /\ state = [id \in Ids |-> "absent"]
    /\ cancelled = {}
    /\ returned = [id \in Ids |-> "nothing"]
    /\ finished = [s \in EndStates |-> 0]
    /\ reported = 0
    /\ owed = 0

\* submit, when it queues a new job. A request that joins an unfinished job
\* or is refused changes nothing.
Submit(r) ==
    /\ nextId < MaxSubmissions
    /\ SameKey(r) = {}
    /\ Admissible(r)
    /\ LET id == nextId + 1 IN
         /\ nextId' = id
         /\ request' = [request EXCEPT ![id] = r]
         /\ state' = [state EXCEPT ![id] = "queued"]
         /\ owed' = owed + 1
    /\ UNCHANGED <<cancelled, returned, finished, reported>>

\* dispatch: forgets ended jobs older than keep_finished (any of them may
\* be: the clock is not modelled) and starts what fits.
Dispatch ==
    /\ owed > 0
    /\ owed' = owed - 1
    /\ \E old \in SUBSET Ended, S \in SUBSET Waiting :
         /\ Started(S)
         /\ state' = [id \in Ids |->
                        IF id \in S THEN "running"
                        ELSE IF id \in old THEN "forgotten"
                        ELSE state[id]]
    /\ UNCHANGED <<nextId, request, cancelled, returned, finished, reported>>

\* cancel, on a job that has not started.
CancelQueued(id) ==
    /\ state[id] = "queued"
    /\ state' = [state EXCEPT ![id] = "cancelled"]
    /\ finished' = [finished EXCEPT !["cancelled"] = @ + 1]
    /\ UNCHANGED <<nextId, request, cancelled, returned, reported, owed>>

\* cancel, on a running job: its run is told, and ends it when it listens.
CancelRunning(id) ==
    /\ state[id] = "running"
    /\ cancelled' = cancelled \cup {id}
    /\ UNCHANGED <<nextId, request, state, returned, finished, reported, owed>>

\* run, seen from the queue: the child ended, or was killed at its timeout
\* or because somebody cancelled it.
RunReturns(id, outcome) ==
    /\ state[id] = "running"
    /\ returned[id] = "nothing"
    /\ outcome = "cancelled" => id \in cancelled
    /\ returned' = [returned EXCEPT ![id] = outcome]
    /\ UNCHANGED <<nextId, request, state, cancelled, finished, reported, owed>>

\* A job cancelled while it ran is cancelled however its run ended.
EndOf(id) == IF id \in cancelled THEN "cancelled" ELSE returned[id]

\* finish: records how a run ended, in the job and in the counts.
Finish(id) ==
    /\ returned[id] # "nothing"
    /\ state' = [state EXCEPT ![id] = EndOf(id)]
    /\ finished' = [finished EXCEPT ![EndOf(id)] = @ + 1]
    /\ returned' = [returned EXCEPT ![id] = "nothing"]
    /\ owed' = owed + 1
    /\ UNCHANGED <<nextId, request, cancelled, reported>>

\* Seeded fault: what was reported is counted again.
TakeWithoutReset ==
    /\ \E s \in EndStates : finished[s] # 0
    /\ reported' = reported + finished["done"] + finished["failed"]
                     + finished["timed_out"] + finished["cancelled"]
    /\ UNCHANGED <<nextId, request, state, cancelled, returned, owed,
                   finished>>

\* take_finished: the heartbeat reports how jobs ended and starts again.
TakeFinished ==
    /\ \E s \in EndStates : finished[s] # 0
    /\ reported' = reported + finished["done"] + finished["failed"]
                     + finished["timed_out"] + finished["cancelled"]
    /\ finished' = [s \in EndStates |-> 0]
    /\ UNCHANGED <<nextId, request, state, cancelled, returned, owed>>

Next ==
    \/ \E r \in Requests : Submit(r)
    \/ Dispatch
    \/ \E id \in Ids : CancelQueued(id)
    \/ \E id \in Ids : CancelRunning(id)
    \/ \E id \in Ids, outcome \in EndStates : RunReturns(id, outcome)
    \/ \E id \in Ids : Finish(id)
    \/ TakeFinished

Spec == Init /\ [][Next]_vars

-----------------------------------------------------------------------------
(***************************************************************************)
(* Properties                                                              *)
(***************************************************************************)

\* Types; only a running job has a return value that finish has yet to read.
TypeOK ==
    /\ nextId \in 0 .. MaxSubmissions
    /\ request \in [Ids -> Requests]
    /\ state \in [Ids -> JobStates]
    /\ cancelled \in SUBSET Ids
    /\ returned \in [Ids -> EndStates \cup {"nothing"}]
    /\ finished \in [EndStates -> Nat]
    /\ reported \in Nat
    /\ owed \in Nat
    /\ \A id \in Ids : returned[id] # "nothing" => state[id] = "running"

\* What keeps a server from being overwhelmed (module documentation): never
\* more children than --processing-jobs, and never more memory expected of
\* them together than --processing-memory-mb.
WithinBudget ==
    /\ Cardinality(Running) <= AtLeastOne(JobsAtOnce)
    /\ Cardinality(BytesOf(Running)) <= MemoryBytes

\* Two requests with one key are one job: no interleaving of submissions,
\* cancels and ends has two unfinished jobs that would produce one revision.
OneJobPerKey ==
    \A a, b \in Unfinished : request[a].key = request[b].key => a = b

\* Nobody, and no project, ever has more unfinished jobs than allowed.
SharesHeld ==
    /\ \A id \in Unfinished :
          Cardinality(UnfinishedOf(request[id].owner)) <= MaxPerUser
    /\ \A id \in Unfinished :
          Cardinality(UnfinishedIn(request[id].project))
             <= AtLeastOne(MaxPerProject)

\* What the queue is for: neither what runs nor what one person or project
\* has on the queue exceeds its limit, at any moment between two critical
\* sections and whatever the limits, estimates and requests are.
LimitsHeld == WithinBudget /\ SharesHeld

\* There is no scheduler loop, so a wakeup must not be lost: when no dispatch
\* is due and nothing runs, nothing waits, for nothing would ever start it.
NoLostWakeup == owed = 0 /\ Running = {} => Waiting = {}

\* Every job that ended is counted for the heartbeat once: not twice when a
\* cancel meets its end, and not lost when it never started.
EveryEndCountedOnce ==
    Cardinality({id \in Ids : state[id] \in EndStates \cup {"forgotten"}})
      = reported + finished["done"] + finished["failed"]
          + finished["timed_out"] + finished["cancelled"]

\* How a job ended is final: no late cancel, finish or dispatch changes it,
\* and it is only ever forgotten. And it ends as it was told to: a cancel
\* answered with true is kept even when the child had already finished.
EndsAreFinal ==
    [][/\ \A id \in Ended : state'[id] \in {state[id], "forgotten"}
       /\ \A id \in cancelled :
            state[id] = "running" /\ state'[id] # "running"
               => state'[id] = "cancelled"]_vars

\* A job that starts overtakes nobody: no draft, and nothing of its own
\* priority that is older, is left waiting, however small the job is.
NoOvertaking ==
    [][\A a, b \in InState("queued") :
         state'[a] = "queued" /\ state'[b] = "running" =>
           /\ request[a].priority = "draft" => request[b].priority = "draft"
           /\ request[a].priority = request[b].priority => b < a]_vars

=============================================================================
