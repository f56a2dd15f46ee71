-------------------------- MODULE ProjectDocuments --------------------------
(* Requests that read a project's shared documents, change them and write     *)
(* them back: processing profiles and the assignments of radargrams to them   *)
(* (src/src/project/processing.rs), and the layer vocabulary                  *)
(* (src/src/project/layers.rs). Each step here is one call of the document    *)
(* store, which is the register of DocumentRegister; nothing holds from one   *)
(* call to the next. A document's version is its content, so the version a    *)
(* client or a handler holds is modelled by the content it read. A call may    *)
(* fail and the request with it, also after its write took effect.            *)
EXTENDS Integers, Sequences, SequencesExt, FiniteSets

CONSTANTS
    Requests,       \* the requests, each made once
    Profiles,       \* profile ids
    Radargrams,
    LayerNames,
    LayerIds,
    MayAsk,         \* the calls a request may make
    Attempts,       \* bound: how often `assign` reads the assignments (3)
    Nothing         \* no document, no assignment, no layer, nothing held

(* The versions of a profile: what it does, and the request that added it.     *)
AllSteps == {0} \union {c.steps : c \in {c \in MayAsk : c.op = "put"}}
Versions == [steps : AllSteps, by : Requests \union {Nothing}]

ASSUME DocumentsAssumption ==
    /\ Nothing \notin Requests \union Profiles \union LayerIds \union Seq(Versions)
    /\ Attempts \in Nat \ {0}
    /\ \A c \in MayAsk :
           /\ c.op \in {"put", "delete", "assign", "unassign", "layers"}
           /\ c.op \in {"put", "delete", "assign"} => c.profile \in Profiles
           /\ c.op \in {"assign", "unassign"} => c.radargram \in Radargrams
           /\ c.expects \in {"any", "absent", "version"}

VARIABLES
    profiles,       \* each profile's versions, oldest first, or Nothing
    assignments,    \* each radargram's profile, or Nothing
    layers,         \* each layer name's id, or Nothing
    stage,             \* where each request is
    call,           \* what it asks
    held,           \* the document its write must find: as the client read it, or none
    seen,           \* what the handler read last
    tries,          \* how often it has read the assignments
    done            \* the requests whose writes took effect, in order

documentVars == <<profiles, assignments, layers, stage, call, held, seen, tries, done>>

NoCall == [op |-> "none"]

(* The document the call writes, as it is.                                    *)
Target(c) ==
    CASE c.op \in {"put", "delete"} -> profiles[c.profile]
      [] c.op \in {"assign", "unassign"} -> assignments
      [] OTHER -> layers

DocumentsInit ==
    /\ profiles \in [Profiles -> {Nothing, <<[steps |-> 0, by |-> Nothing]>>}]
    /\ assignments \in [Radargrams -> Profiles \union {Nothing}]
    /\ \A r \in Radargrams :
           assignments[r] # Nothing => profiles[assignments[r]] # Nothing
    /\ layers \in [LayerNames -> LayerIds \union {Nothing}]
    /\ \A m, n \in LayerNames : layers[m] = layers[n] /\ layers[m] # Nothing => m = n
    /\ stage = [q \in Requests |-> "before"]
    /\ call = [q \in Requests |-> NoCall]
    /\ held = [q \in Requests |-> Nothing]
    /\ seen = [q \in Requests |-> Nothing]
    /\ tries = [q \in Requests |-> 0]
    /\ done = <<>>

----------------------------------------------------------------------------
Go(q, from, to) ==
    /\ stage[q] = from
    /\ stage' = [stage EXCEPT ![q] = to]

(* The client reads the document, if its call is conditional on what it read   *)
(* (If-Match), and sends the request; or it asks that there is no document yet *)
(* (If-None-Match), or nothing.                                               *)
Send(q, c) ==
    /\ Go(q, "before", "looking")
    /\ call' = [call EXCEPT ![q] = c]
    /\ held' = [held EXCEPT ![q] = IF c.expects = "version" THEN Target(c) ELSE Nothing]
    /\ c.expects = "version" => Target(c) # Nothing
    /\ UNCHANGED <<profiles, assignments, layers, seen, tries, done>>

(* save_profile reads the profile, to add a version to the ones it has.       *)
LookPut(q) ==
    /\ call[q].op = "put"
    /\ Go(q, "looking", "writing")
    /\ seen' = [seen EXCEPT ![q] = profiles[call[q].profile]]
    /\ UNCHANGED <<profiles, assignments, layers, call, held, tries, done>>

(* delete_profile refuses a profile with members.                             *)
LookDelete(q) ==
    /\ call[q].op = "delete"
    /\ Go(q, "looking",
          IF \E r \in Radargrams : assignments[r] = call[q].profile
          THEN "refused" ELSE "writing")
    /\ UNCHANGED <<profiles, assignments, layers, call, held, seen, tries, done>>

(* assign refuses a profile that is not there.                                *)
LookAssign(q) ==
    /\ call[q].op \in {"assign", "unassign"}
    /\ Go(q, "looking",
          IF call[q].op = "assign" /\ profiles[call[q].profile] = Nothing
          THEN "refused" ELSE "loading")
    /\ UNCHANGED <<profiles, assignments, layers, call, held, seen, tries, done>>

LoadAssignments(q) ==
    /\ Go(q, "loading", "writing")
    /\ seen' = [seen EXCEPT ![q] = assignments]
    /\ tries' = [tries EXCEPT ![q] = @ + 1]
    /\ UNCHANGED <<profiles, assignments, layers, call, held, done>>

(* layers::write refuses to change the id of a layer the document has.        *)
LookLayers(q) ==
    /\ call[q].op = "layers"
    /\ Go(q, "looking",
          IF \A n \in LayerNames :
                 layers[n] # Nothing /\ call[q].to[n] # Nothing
                 => call[q].to[n] = layers[n]
          THEN "writing" ELSE "refused")
    /\ UNCHANGED <<profiles, assignments, layers, call, held, seen, tries, done>>

----------------------------------------------------------------------------
(* The store's compare: the document the client read, or none, or any.        *)
AsHeld(q) == call[q].expects # "any" => Target(call[q]) = held[q]

(* The write takes effect. The request is answered that it did, or with the     *)
(* error of a write that could not be read back: nothing it does depends on    *)
(* which, so both are the one stage.                                          *)
TookEffect(q) ==
    /\ Go(q, "writing", "landed")
    /\ done' = Append(done, q)
    /\ UNCHANGED <<call, held, seen, tries>>

Refuse(q) ==
    /\ Go(q, "writing", "refused")
    /\ UNCHANGED <<profiles, assignments, layers, call, held, seen, tries, done>>

(* A version is added when the steps differ from the last one's.              *)
WithVersion(versions, q) ==
    LET now == IF versions = Nothing THEN <<>> ELSE versions
    IN  IF now # <<>> /\ Last(now).steps = call[q].steps
        THEN now ELSE Append(now, [steps |-> call[q].steps, by |-> q])

WritePut(q) ==
    /\ call[q].op = "put"
    /\ AsHeld(q)
    /\ TookEffect(q)
    /\ profiles' = [profiles EXCEPT ![call[q].profile] = WithVersion(seen[q], q)]
    /\ UNCHANGED <<assignments, layers>>

RemoveProfile(q) ==
    /\ call[q].op = "delete"
    /\ AsHeld(q)
    /\ profiles[call[q].profile] # Nothing
    /\ TookEffect(q)
    /\ profiles' = [profiles EXCEPT ![call[q].profile] = Nothing]
    /\ UNCHANGED <<assignments, layers>>

(* Seeded fault: the assignments are written whatever is there.               *)
AsSeenBlind(q) == seen[q] # Nothing

(* Written over what was read, or read again: at most Attempts times.         *)
AsSeen(q) == assignments = seen[q]

WriteAssignments(q) ==
    /\ call[q].op \in {"assign", "unassign"}
    /\ AsSeen(q)
    /\ TookEffect(q)
    /\ assignments' =
           [seen[q] EXCEPT ![call[q].radargram] =
               IF call[q].op = "assign" THEN call[q].profile ELSE Nothing]
    /\ UNCHANGED <<profiles, layers>>

ReadAgain(q) ==
    /\ call[q].op \in {"assign", "unassign"}
    /\ ~AsSeen(q)
    /\ tries[q] < Attempts
    /\ Go(q, "writing", "loading")
    /\ UNCHANGED <<profiles, assignments, layers, call, held, seen, tries, done>>

WriteLayers(q) ==
    /\ call[q].op = "layers"
    /\ AsHeld(q)
    /\ TookEffect(q)
    /\ layers' = call[q].to
    /\ UNCHANGED <<profiles, assignments>>

(* The document is not the one expected: 412, or 404 for one not there.       *)
Conflict(q) ==
    /\ \/ call[q].op \in {"put", "layers"} /\ ~AsHeld(q)
       \/ call[q].op = "delete" /\ (~AsHeld(q) \/ profiles[call[q].profile] = Nothing)
       \/ call[q].op \in {"assign", "unassign"} /\ ~AsSeen(q) /\ tries[q] >= Attempts
    /\ Refuse(q)

(* An error of the store, before anything is written.                         *)
StoreFails(q) ==
    /\ \E from \in {"looking", "loading", "writing"} : Go(q, from, "refused")
    /\ UNCHANGED <<profiles, assignments, layers, call, held, seen, tries, done>>

DocumentsStep(q) ==
    \/ \E c \in MayAsk : Send(q, c)
    \/ LookPut(q) \/ LookDelete(q) \/ LookAssign(q) \/ LookLayers(q)
    \/ LoadAssignments(q)
    \/ WritePut(q) \/ RemoveProfile(q) \/ WriteAssignments(q) \/ ReadAgain(q)
    \/ WriteLayers(q) \/ Conflict(q) \/ StoreFails(q)

DocumentsNext == \E q \in Requests : DocumentsStep(q)

DocumentsSpec == DocumentsInit /\ [][DocumentsNext]_documentVars

----------------------------------------------------------------------------
(* What a call that took effect left behind.                                  *)
Effect(c) ==
    CASE c.op = "put" ->
           /\ profiles[c.profile] # Nothing
           /\ \E i \in DOMAIN profiles[c.profile] : profiles[c.profile][i].steps = c.steps
      [] c.op = "delete" -> profiles[c.profile] = Nothing
      [] c.op = "assign" -> assignments[c.radargram] = c.profile
      [] c.op = "unassign" -> assignments[c.radargram] = Nothing
      [] OTHER -> layers = c.to

(* Whether a later call `d` is meant to take back what `c` did. A later        *)
(* version of a profile takes nothing back: every version is kept.            *)
TakesBack(d, c) ==
    CASE c.op = "put" -> d.op = "delete" /\ d.profile = c.profile
      [] c.op = "delete" -> d.op = "put" /\ d.profile = c.profile
      [] c.op \in {"assign", "unassign"} ->
           d.op \in {"assign", "unassign"} /\ d.radargram = c.radargram
      [] OTHER -> d.op = "layers"

(* The profiles that were created by a request that had read the versions of   *)
(* one with the same id, deleted since: save_profile writes those back with    *)
(* its own, so what a later save finds may be what it read long before.        *)
Revived ==
    {call[q].profile : q \in {r \in Requests :
        /\ stage[r] = "landed" /\ call[r].op = "put"
        /\ call[r].expects = "absent" /\ seen[r] # Nothing}}

(* Nothing that was acknowledged is lost: the profile version, assignment or   *)
(* vocabulary a request was told it had saved is there until a later request   *)
(* for the same thing takes it back, be it one that was answered with an error *)
(* and had its effect; two people assigning different            *)
(* radargrams at once are both right, and every version of a profile is kept,  *)
(* but of one that was revived.                                               *)
AcknowledgedStays ==
    \A i \in DOMAIN done :
        \/ Effect(call[done[i]])
        \/ \E j \in DOMAIN done : j > i /\ TakesBack(call[done[j]], call[done[i]])
        \/ call[done[i]].op = "put" /\ call[done[i]].profile \in Revived

=============================================================================
