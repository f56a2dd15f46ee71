-------------------------------- MODULE Drafts --------------------------------
(***************************************************************************)
(* Drafts and batch items on the processing queue                          *)
(* (src/src/server/draft_routes.rs, src/src/server/batch_routes.rs).       *)
(*                                                                         *)
(* Both prepare a job alike: raw files laid out in a directory of the      *)
(* call's own, an output path of its own, and the key of what is asked.    *)
(* The call then submits the job and, in a step of its own, remembers it:  *)
(* a draft in the map of drafts, an item in its batch. The queue may have  *)
(* joined the call to another call's job in between.                       *)
(*                                                                         *)
(* A request is one call: a POST of a draft or one item of a batch. Its    *)
(* paths are its own, so the request stands for them. The items of one     *)
(* person are one batch, which one task drives.                            *)
(***************************************************************************)
EXTENDS ProcessingQueue

CONSTANTS
    InFlight,  \* IN_FLIGHT: how many jobs of a batch are on the queue at once
    NoDraft    \* no entry in the map of drafts

ASSUME InFlightAssumption == InFlight \in Nat
ASSUME NoDraftAssumption == NoDraft \notin Requests

DraftCalls == {r \in Requests : r.priority = "draft"}
ItemCalls  == {r \in Requests : r.priority = "batch"}

VARIABLES
    phase,     \* how far each call has come
    job,       \* the job each call was given, 0 before
    drafts,    \* Drafts::inner: the call whose paths a job's draft has
    deleting,  \* drafts whose DELETE has cancelled the job, not yet removed it
    laidOut,   \* calls whose raw files are laid out
    outputs    \* calls whose processed file is at their output path

queueVars == vars
callVars  == <<phase, job, drafts, deleting, laidOut, outputs>>
allVars   == <<queueVars, callVars>>

ItemEnds == {"committed", "failed", "skipped", "interrupted"}
Phases == {"new", "laid out", "submitted", "registered", "refused",
           "processing"} \cup ItemEnds

\* The task of an item's batch is not in the middle of submitting another.
DriveIdle(r) ==
    \A other \in ItemCalls :
       other.owner = r.owner => phase[other] \notin {"laid out", "submitted"}

InFlightOf(r) ==
    {other \in ItemCalls :
       other.owner = r.owner /\ phase[other] = "processing"}

\* The job's entry in the map of drafts was made by another call than the one
\* the job was made of: what joined the job registered before it did, or the
\* job is a batch item's.
Taken(id) == drafts[id] \notin {NoDraft, request[id]}

\* What the queue says of a job, forgotten ones included: is_none_or.
IsFinished(id) == id \notin Unfinished

-----------------------------------------------------------------------------

InitDrafts ==
    /\ Init
    /\ phase = [r \in Requests |-> "new"]
    /\ job = [r \in Requests |-> 0]
    /\ drafts = [id \in Ids |-> NoDraft]
    /\ deleting = {}
    /\ laidOut = {}
    /\ outputs = {}

(* A call *)

\* What prepare checks fails, or a batch gives the item up before that: a
\* newer version of its profile supersedes it, or it left the profile.
Drop(r) ==
    /\ phase[r] = "new"
    /\ \/ r \in DraftCalls /\ phase' = [phase EXCEPT ![r] = "refused"]
       \/ /\ r \in ItemCalls /\ DriveIdle(r)
          /\ \E end \in {"failed", "skipped"} :
                phase' = [phase EXCEPT ![r] = end]
    /\ UNCHANGED <<queueVars, job, drafts, deleting, laidOut, outputs>>

\* prepare: the raw files are laid out for the call.
LayOut(r) ==
    /\ phase[r] = "new"
    /\ r \in ItemCalls => DriveIdle(r) /\ Cardinality(InFlightOf(r)) < InFlight
    /\ phase' = [phase EXCEPT ![r] = "laid out"]
    /\ laidOut' = laidOut \cup {r}
    /\ UNCHANGED <<queueVars, job, drafts, deleting, outputs>>

\* queue.submit, when it makes a job of its own of the call.
SubmitNew(r) ==
    /\ phase[r] = "laid out"
    /\ Submit(r)
    /\ job' = [job EXCEPT ![r] = nextId + 1]
    /\ phase' = [phase EXCEPT ![r] = "submitted"]
    /\ UNCHANGED <<drafts, deleting, laidOut, outputs>>

\* queue.submit, when it joins the call to an unfinished job with its key.
SubmitJoins(r) ==
    /\ phase[r] = "laid out"
    /\ \E id \in SameKey(r) : job' = [job EXCEPT ![r] = id]
    /\ phase' = [phase EXCEPT ![r] = "submitted"]
    /\ UNCHANGED <<queueVars, drafts, deleting, laidOut, outputs>>

\* Seeded fault: an item that only has to wait is given up.
RefusedForGood(r) ==
    /\ phase[r] = "laid out"
    /\ SameKey(r) = {} /\ ~Admissible(r)
    /\ phase' = [phase EXCEPT ![r] = "refused"]
    /\ laidOut' = laidOut \ {r}
    /\ UNCHANGED <<queueVars, job, drafts, deleting, outputs>>

\* queue.submit, refused: a draft's call is answered with the error as it
\* is; an item that only has to wait is tried again at the next tick.
SubmitRefused(r) ==
    /\ phase[r] = "laid out"
    /\ SameKey(r) = {} /\ ~Admissible(r)
    /\ \/ /\ r \in DraftCalls
          /\ phase' = [phase EXCEPT ![r] = "refused"]
          /\ UNCHANGED laidOut
       \/ /\ r \in ItemCalls
          /\ phase' = [phase EXCEPT
                 ![r] = IF r.estimate > MemoryBytes THEN "failed" ELSE "new"]
          /\ laidOut' = laidOut \ {r}
    /\ UNCHANGED <<queueVars, job, drafts, deleting, outputs>>

\* Seeded fault: the raw files go whoever had the draft first.
RegisterDroppingWork(r) ==
    /\ r \in DraftCalls /\ phase[r] = "submitted"
    /\ phase' = [phase EXCEPT ![r] = "registered"]
    /\ drafts' = [drafts EXCEPT ![job[r]] = IF @ = NoDraft THEN r ELSE @]
    /\ laidOut' = laidOut \ {r}
    /\ UNCHANGED <<queueVars, job, deleting, outputs>>

\* create_draft, once it has its job: the entry is made unless there is one,
\* and then the call's own raw files go.
Register(r) ==
    /\ r \in DraftCalls /\ phase[r] = "submitted"
    /\ phase' = [phase EXCEPT ![r] = "registered"]
    /\ IF drafts[job[r]] = NoDraft
       THEN drafts' = [drafts EXCEPT ![job[r]] = r] /\ UNCHANGED laidOut
       ELSE laidOut' = laidOut \ {r} /\ UNCHANGED drafts
    /\ UNCHANGED <<queueVars, job, deleting, outputs>>

\* drive, once it has a job: the item is being processed.
RegisterItem(r) ==
    /\ r \in ItemCalls /\ phase[r] = "submitted"
    /\ phase' = [phase EXCEPT ![r] = "processing"]
    /\ UNCHANGED <<queueVars, job, drafts, deleting, laidOut, outputs>>

\* drive, at a tick: the job of an item has ended. Committing reads the
\* item's own output, and may be refused.
ItemFinishes(r) ==
    /\ phase[r] = "processing" /\ IsFinished(job[r]) /\ DriveIdle(r)
    /\ \E end \in ItemEnds :
         /\ end = "interrupted" => state[job[r]] = "forgotten"
         /\ end = "committed" => state[job[r]] = "done" /\ r \in outputs
         /\ end = "skipped" => state[job[r]] \in {"done", "cancelled"}
         /\ end = "failed" => state[job[r]] \in {"done", "failed", "timed_out"}
         /\ phase' = [phase EXCEPT ![r] = end]
    /\ laidOut' = laidOut \ {r}
    /\ outputs' = outputs \ {r}
    /\ UNCHANGED <<queueVars, job, drafts, deleting>>

(* What people do with a draft *)

Finished == {id \in Ids : drafts[id] # NoDraft /\ IsFinished(id)}

\* Seeded fault: a finished draft loses its processed file with its raw ones.
TidyTakingOutputs ==
    /\ Finished # {}
    /\ \E old \in SUBSET Finished :
         drafts' = [id \in Ids |-> IF id \in old THEN NoDraft ELSE drafts[id]]
    /\ outputs' = outputs \ {drafts[id] : id \in Finished}
    /\ laidOut' = laidOut \ {drafts[id] : id \in Finished}
    /\ UNCHANGED <<queueVars, phase, job, deleting>>

\* tidy: the raw files of finished drafts go, and with them the drafts that
\* are too old or too many (any of them may be: to_forget).
Tidy ==
    /\ Finished # {}
    /\ \E old \in SUBSET Finished :
         /\ drafts' = [id \in Ids |-> IF id \in old THEN NoDraft ELSE drafts[id]]
         /\ outputs' = outputs \ {drafts[id] : id \in old}
    /\ laidOut' = laidOut \ {drafts[id] : id \in Finished}
    /\ UNCHANGED <<queueVars, phase, job, deleting>>

\* delete_draft: the job is cancelled (an ended one cannot be), ...
DeleteCancels(id) ==
    /\ drafts[id] # NoDraft /\ id \notin deleting
    /\ CancelQueued(id) \/ CancelRunning(id)
         \/ (IsFinished(id) /\ UNCHANGED queueVars)
    /\ deleting' = deleting \cup {id}
    /\ UNCHANGED <<phase, job, drafts, laidOut, outputs>>

\* ... and then the entry is removed with its files.
DeleteRemoves(id) ==
    /\ id \in deleting
    /\ deleting' = deleting \ {id}
    /\ drafts' = [drafts EXCEPT ![id] = NoDraft]
    /\ laidOut' = laidOut \ {drafts[id]}
    /\ outputs' = outputs \ {drafts[id]}
    /\ UNCHANGED <<queueVars, phase, job>>

\* A job's run ends (JobRun): a done one wrote its own request's output, any
\* other may have got that far.
JobReturns(id, result) ==
    /\ RunReturns(id, result)
    /\ \/ outputs' = outputs \cup {request[id]}
       \/ result # "done" /\ UNCHANGED outputs
    /\ UNCHANGED <<phase, job, drafts, deleting, laidOut>>

QueueNext ==
    /\ Dispatch \/ \E id \in Ids : Finish(id)
    /\ UNCHANGED callVars

CallNext(r) ==
    \/ Drop(r) \/ LayOut(r) \/ SubmitNew(r) \/ SubmitJoins(r) \/ SubmitRefused(r)
    \/ Register(r) \/ RegisterItem(r) \/ ItemFinishes(r)

NextDrafts ==
    \/ \E r \in Requests : CallNext(r)
    \/ Tidy
    \/ \E id \in Ids : DeleteCancels(id) \/ DeleteRemoves(id)
    \/ \E id \in Ids, result \in EndStates : JobReturns(id, result)
    \/ QueueNext

SpecDrafts == InitDrafts /\ [][NextDrafts]_allVars

\* A batch's task ticks and tries its items again; jobs run and end, and the
\* queue dispatches. Nobody has to ask for a draft or delete one.
FairnessDrafts ==
    /\ \A r \in ItemCalls :
          /\ WF_allVars(LayOut(r))
          /\ WF_allVars(SubmitNew(r) \/ SubmitJoins(r))
          /\ WF_allVars(SubmitRefused(r))
          /\ WF_allVars(RegisterItem(r))
          /\ WF_allVars(ItemFinishes(r))
    /\ WF_allVars(Dispatch /\ UNCHANGED callVars)
    /\ \A id \in Ids :
          /\ WF_allVars(Finish(id) /\ UNCHANGED callVars)
          /\ WF_allVars(\E result \in EndStates : JobReturns(id, result))

FairSpecDrafts == SpecDrafts /\ FairnessDrafts

-----------------------------------------------------------------------------
(***************************************************************************)
(* Properties                                                              *)
(***************************************************************************)

DraftsTypeOK ==
    /\ phase \in [Requests -> Phases]
    /\ job \in [Requests -> Ids \cup {0}]
    /\ drafts \in [Ids -> DraftCalls \cup {NoDraft}]
    /\ deleting \in SUBSET Ids
    /\ laidOut \in SUBSET Requests
    /\ outputs \in SUBSET Requests

\* "Where its raw files are laid out; remove it when the job is done"
\* (Prepared, draft_routes.rs). Not before: a job that nobody cancelled finds
\* its raw files for as long as it may read them. And they are not left
\* behind: what is laid out belongs to a call that has not been answered, to
\* a draft somebody can still throw away, or to an item its batch still
\* drives. (A refused draft's are left: SubmitRefused.) The code breaks the
\* first half in one case, which is excepted: a call that joined the job
\* registered before the call it was made of, which then takes its own raw
\* files, the job's, for those of a repeated request (JobsFindTheirFiles).
LaidOutWhileNeeded ==
    /\ \A id \in Unfinished \ cancelled :
          \/ request[id] \in laidOut
          \/ phase[request[id]] = "registered" /\ Taken(id)
    /\ \A r \in laidOut :
          \/ phase[r] \in {"laid out", "submitted", "processing", "refused"}
          \/ phase[r] = "registered" /\ drafts[job[r]] = r

\* The same with no exception: every job finds its raw files.
JobsFindTheirFiles == \A id \in Unfinished \ cancelled : request[id] \in laidOut

\* A draft and its job go together. A draft the queue calls done can be
\* shown, downloaded and committed: its file is at the path its entry has,
\* unless the entry has another call's paths than the job. And throwing a
\* draft away stops its work: once it is gone, its job is over or about to be.
DraftAgreesWithJob ==
    /\ \A id \in Ids :
          drafts[id] # NoDraft /\ ~Taken(id) /\ state[id] = "done"
            => drafts[id] \in outputs
    /\ \A r \in DraftCalls :
          phase[r] = "registered" /\ drafts[job[r]] = NoDraft
            => IsFinished(job[r]) \/ job[r] \in cancelled

\* Every item of a batch ends, one that its owner's drafts keep out of the
\* queue for a while included. (An item that finds the bound on submissions
\* used up cannot go on in the model.)
EveryItemEnds ==
    \A r \in ItemCalls :
       <>(phase[r] \in ItemEnds \/ (job[r] = 0 /\ nextId = MaxSubmissions))
===============================================================================
