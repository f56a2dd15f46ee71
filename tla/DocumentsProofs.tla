------------------------- MODULE DocumentsProofs -------------------------
(* What is proved about the documents of a project: the store itself, profiles  *)
(* and settings in it, derived expressions, picks and axes while radargrams     *)
(* change their ids, the order of derived items, and the axis trace times come  *)
(* to. A section for each, with the invariant that is inductive.                *)
EXTENDS DocumentStore, ProjectDocuments, ProjectSettings, DerivedExpressions, DerivedItems,
        Tiepoints, IdChange, SequenceTheorems, FiniteSetTheorems, WellFoundedInduction, TLAPS

----------------------------------------------------------------------------
(* The document store implements the register it promises, for every number of *)
(* threads, documents and texts: THEOREM StoreKeepsPromise. The argument is     *)
(* the store's lock. A thread between its comparison and its rename or unlink   *)
(* holds the lock, so the document it is about to install over is the one it    *)
(* compared (Placed); the rename and the unlink are then the instants at which  *)
(* the calls take effect.                                                      *)

(* What is known of a thread from where it is.                                *)
Placed(t) ==
    /\ at[t] = "idle" <=> asked[t] = Promise!Idle
    /\ at[t] \in {"compared", "made", "writing", "written", "renamed"} => asked[t].op = "write"
    /\ at[t] = "unlinking" => asked[t].op = "remove"
    /\ at[t] = "answered" <=> answer[t] # Promise!Pending
    /\ answer[t] # Promise!Installed
    /\ at[t] = "renamed" => file[asked[t].doc] = asked[t].text
    /\ at[t] \in Critical => lock = t
    /\ at[t] \in Critical \ {"renamed"} =>
           Promise!Satisfied(asked[t].expected, file[asked[t].doc])

AnswersAreOfThreads == answer = [t \in Threads |-> answer[t]]

StoreInv == StoreTypeOK /\ AnswersAreOfThreads /\ \A t \in Threads : Placed(t)

(* Every call names a document, and a write a text.                           *)
LEMMA CallShape ==
    ASSUME NEW c \in Promise!Calls
    PROVE  /\ c.doc \in Docs
           /\ c.op \in {"read", "write", "remove"}
           /\ c.op = "write" => c.text \in Texts
           /\ c # Promise!Idle
BY DEF Promise!Calls, Promise!Idle

(* No answer is the pending one, or that of a write yet to be answered.        *)
LEMMA AnswersAreNotPending ==
    ASSUME NEW x
    PROVE  /\ Promise!Found(x) \notin {Promise!Pending, Promise!Installed}
           /\ Promise!Written(x) \notin {Promise!Pending, Promise!Installed}
           /\ Promise!Removed(x) \notin {Promise!Pending, Promise!Installed}
           /\ Promise!Conflict(x) \notin {Promise!Pending, Promise!Installed}
           /\ Promise!Failed \notin {Promise!Pending, Promise!Installed}
           /\ Promise!Installed # Promise!Pending
BY DEF Promise!Found, Promise!Written, Promise!Removed, Promise!Conflict,
       Promise!Failed, Promise!Pending, Promise!Installed

LEMMA InitPlaced == StoreInit => StoreInv
<1> SUFFICES ASSUME StoreInit PROVE StoreInv
  OBVIOUS
<1>1. StoreTypeOK
  <2>1. /\ file \in [Docs -> Texts \union {Absent}]
        /\ directory \in BOOLEAN /\ left \in BOOLEAN
        /\ lock \in Threads \union {Free}
    BY DEF StoreInit
  <2>2. at \in [Threads -> Places] /\ temp \in [Threads -> {"none", "part", "whole"}]
    BY DEF StoreInit, Places
  <2>3. asked \in [Threads -> Promise!Calls \union {Promise!Idle}]
    <3> HIDE DEF Promise!Idle
    <3> QED
      BY DEF StoreInit
  <2>4. crashes \in 0..MaxCrashes
    BY StoreAssumption DEF StoreInit
  <2> QED
    BY <2>1, <2>2, <2>3, <2>4 DEF StoreTypeOK
<1>2. AnswersAreOfThreads
  BY DEF StoreInit, AnswersAreOfThreads
<1>3. ASSUME NEW t \in Threads PROVE Placed(t)
  <2>1. /\ at[t] = "idle"
        /\ asked[t] = Promise!Idle
        /\ answer[t] = Promise!Pending
    BY DEF StoreInit
  <2> QED
    BY <2>1, AnswersAreNotPending DEF Placed, Critical
<1> QED
  BY <1>1, <1>2, <1>3 DEF StoreInv

(* Every step of a thread keeps the types: the lock and the file, and where    *)
(* each thread is.                                                            *)
LEMMA StepTypes ==
    ASSUME StoreInv, NEW t \in Threads, StoreStep(t)
    PROVE  StoreTypeOK' /\ AnswersAreOfThreads'
<1> USE StoreAssumption, CallShape
    DEF StoreInv, StoreTypeOK, AnswersAreOfThreads, Placed, Step, Answered, Places, Critical
<1>1. ASSUME NEW asking \in Promise!Calls, CallStore(t, asking)
       PROVE  StoreTypeOK' /\ AnswersAreOfThreads'
  BY <1>1 DEF CallStore
<1>2. CASE Read(t)
  BY <1>2 DEF Read
<1>3. CASE Compare(t)
  BY <1>3 DEF Compare
<1>4. CASE MakeDirectory(t)
  BY <1>4 DEF MakeDirectory
<1>5. CASE CreateTemp(t)
  BY <1>5 DEF CreateTemp
<1>6. CASE FillTemp(t)
  BY <1>6 DEF FillTemp
<1>7. CASE WriteFails(t)
  BY <1>7 DEF WriteFails
<1>8. CASE Rename(t)
  <2>1. asked[t] \in Promise!Calls /\ asked[t].op = "write"
    BY <1>8 DEF Rename
  <2>2. asked[t].doc \in Docs /\ asked[t].text \in Texts
    BY <2>1
  <2> QED
    BY <1>8, <2>2 DEF Rename
<1>9. CASE ReadBack(t)
  BY <1>9 DEF ReadBack
<1>13. CASE CallFails(t)
  BY <1>13 DEF CallFails
<1>10. CASE Unlink(t)
  BY <1>10 DEF Unlink
<1>11. CASE UnlinkFails(t)
  BY <1>11 DEF UnlinkFails
<1>12. CASE ReturnStore(t)
  BY <1>12 DEF ReturnStore
<1> QED
  BY <1>1, <1>2, <1>3, <1>4, <1>5, <1>6, <1>7, <1>8, <1>9, <1>10, <1>11, <1>12, <1>13
     DEF StoreStep

(* A step of one thread leaves what is known of every thread true. Another     *)
(* thread inside the critical section rules the step out, if it takes the      *)
(* lock or writes the file.                                                   *)
LEMMA StepPlaced ==
    ASSUME StoreInv, NEW t \in Threads, StoreStep(t), NEW u \in Threads
    PROVE  Placed(u)'
<1> USE StoreAssumption, CallShape, AnswersAreNotPending
    DEF StoreInv, StoreTypeOK, AnswersAreOfThreads, Placed, Step, Answered, Critical
<1>1. ASSUME NEW asking \in Promise!Calls, CallStore(t, asking) PROVE Placed(u)'
  BY <1>1 DEF CallStore
<1>2. CASE Read(t)
  BY <1>2 DEF Read
<1>3. CASE Compare(t)
  BY <1>3 DEF Compare
<1>4. CASE MakeDirectory(t)
  BY <1>4 DEF MakeDirectory
<1>5. CASE CreateTemp(t)
  BY <1>5 DEF CreateTemp
<1>6. CASE FillTemp(t)
  BY <1>6 DEF FillTemp
<1>7. CASE WriteFails(t)
  BY <1>7 DEF WriteFails
<1>8. CASE Rename(t)
  <2>1. asked[t] \in Promise!Calls /\ asked[t].op = "write"
    BY <1>8 DEF Rename
  <2>2. asked[t].doc \in Docs /\ asked[t].text \in Texts
    BY <2>1
  <2> QED
    BY <1>8, <2>2 DEF Rename
<1>9. CASE ReadBack(t)
  BY <1>9 DEF ReadBack
<1>13. CASE CallFails(t)
  BY <1>13 DEF CallFails
<1>10. CASE Unlink(t)
  BY <1>10 DEF Unlink
<1>11. CASE UnlinkFails(t)
  BY <1>11 DEF UnlinkFails
<1>12. CASE ReturnStore(t)
  BY <1>12 DEF ReturnStore
<1> QED
  BY <1>1, <1>2, <1>3, <1>4, <1>5, <1>6, <1>7, <1>8, <1>9, <1>10, <1>11, <1>12, <1>13
     DEF StoreStep

LEMMA NextPlaced == StoreInv /\ [StoreNext]_storeVars => StoreInv'
<1> SUFFICES ASSUME StoreInv, [StoreNext]_storeVars PROVE StoreInv'
  OBVIOUS
<1>1. ASSUME NEW t \in Threads, StoreStep(t) PROVE StoreInv'
  BY <1>1, StepTypes, StepPlaced DEF StoreInv
<1>2. CASE Tidy
  BY <1>2 DEF Tidy, StoreInv, StoreTypeOK, AnswersAreOfThreads, Placed
<1>3. CASE Crash
  BY <1>3, StoreAssumption, AnswersAreNotPending
     DEF Crash, StoreInv, StoreTypeOK, AnswersAreOfThreads, Placed, Places, Critical
<1>4. CASE UNCHANGED storeVars
  BY <1>4 DEF storeVars, StoreInv, StoreTypeOK, AnswersAreOfThreads, Placed
<1> QED
  BY <1>1, <1>2, <1>3, <1>4 DEF StoreNext

(* Who is between comparing and installing holds the lock, over the document   *)
(* it compared.                                                               *)
THEOREM WriterHolds == StoreSpec => []WriterHoldsLock
<1>1. StoreInv => WriterHoldsLock
  BY DEF StoreInv, Placed, WriterHoldsLock
<1> QED
  BY <1>1, InitPlaced, NextPlaced, PTL DEF StoreSpec

----------------------------------------------------------------------------
(* A step of a thread is the register's Ask, Do, Tell, Fail or Return, or       *)
(* nothing to it: the read, the refused comparison, the rename and the unlink   *)
(* are Do, and the reading back is Tell.                                       *)
LEMMA StepRefines ==
    ASSUME StoreInv, StoreInv', NEW t \in Threads, StoreStep(t)
    PROVE  [Promise!Next]_(Promise!vars)
<1> USE DEF StoreInv, StoreTypeOK, AnswersAreOfThreads, Placed, Step, Answered, Critical
<1>0. /\ asked[t] \in Promise!Calls \/ asked[t] = Promise!Idle
      /\ Settled = [u \in Threads |-> IF at[u] = "renamed"
                                     THEN Promise!Installed ELSE answer[u]]
      /\ Settled' = [u \in Threads |-> IF at'[u] = "renamed"
                                      THEN Promise!Installed ELSE answer'[u]]
  BY DEF Settled, Promise!Installed
<1> HIDE DEF StoreInv
<1>ask. ASSUME NEW asking \in Promise!Calls, CallStore(t, asking) PROVE Promise!Ask(t)
  <2>1. Settled' = Settled
    BY <1>ask, <1>0 DEF CallStore, StoreInv
  <2> QED
    BY <1>ask, <2>1 DEF CallStore, Promise!Ask, StoreInv
<1>stutter. ASSUME UNCHANGED <<file, asked, Settled>> PROVE UNCHANGED Promise!vars
  BY <1>stutter DEF Promise!vars
<1>2. CASE Read(t)
  <2>1. Settled' = [Settled EXCEPT ![t] = Promise!Found(file[asked[t].doc])]
    BY <1>2, <1>0 DEF Read, StoreInv
  <2>2. Settled[t] = Promise!Pending /\ asked[t] # Promise!Idle
    BY <1>2, <1>0 DEF Read, StoreInv
  <2>3. asked[t] \in Promise!Calls /\ asked[t].op = "read"
    BY <1>2, <2>2 DEF Read, StoreInv
  <2>4. file' = [file EXCEPT ![asked[t].doc] = Promise!After(asked[t], @)]
    BY <1>2, <2>3, CallShape DEF Read, Promise!After, StoreInv
  <2>5. Promise!Outcome(asked[t], file[asked[t].doc]) = Promise!Found(file[asked[t].doc])
    BY <2>3 DEF Promise!Outcome
  <2>6. Promise!Do(t)
    BY <1>2, <2>1, <2>2, <2>4, <2>5 DEF Promise!Do, Read
  <2> QED
    BY <2>6 DEF Promise!Next
<1>3. CASE Compare(t)
  <2>1. asked[t] \in Promise!Calls /\ asked[t] # Promise!Idle
    BY <1>3, <1>0 DEF Compare, StoreInv
  <2>2. CASE Promise!Satisfied(asked[t].expected, file[asked[t].doc])
    <3>1. Settled' = Settled
      BY <1>3, <2>2, <1>0 DEF Compare, StoreInv
    <3> QED
      BY <1>3, <3>1, <1>stutter DEF Compare
  <2>3. CASE ~Promise!Satisfied(asked[t].expected, file[asked[t].doc])
    <3>1. Settled' = [Settled EXCEPT ![t] = Promise!Conflict(file[asked[t].doc])]
      BY <1>3, <2>3, <1>0 DEF Compare, StoreInv
    <3>2. Settled[t] = Promise!Pending
      BY <1>3, <1>0 DEF Compare, StoreInv
    <3>3. asked[t].op \in {"write", "remove"}
      BY <1>3 DEF Compare
    <3>4. file' = [file EXCEPT ![asked[t].doc] = Promise!After(asked[t], @)]
      BY <1>3, <2>1, <2>3, <3>3, CallShape DEF Compare, Promise!After, StoreInv
    <3>5. Promise!Outcome(asked[t], file[asked[t].doc])
          = Promise!Conflict(file[asked[t].doc])
      BY <2>3, <3>3 DEF Promise!Outcome
    <3>6. Promise!Do(t)
      BY <1>3, <2>1, <3>1, <3>2, <3>4, <3>5 DEF Promise!Do, Compare
    <3> QED
      BY <3>6 DEF Promise!Next
  <2> QED
    BY <2>2, <2>3
<1>4. CASE MakeDirectory(t)
  <2>1. Settled' = Settled
    BY <1>4, <1>0 DEF MakeDirectory, StoreInv
  <2> QED
    BY <1>4, <2>1, <1>stutter DEF MakeDirectory
<1>5. CASE CreateTemp(t)
  <2>1. Settled' = Settled
    BY <1>5, <1>0 DEF CreateTemp, StoreInv
  <2> QED
    BY <1>5, <2>1, <1>stutter DEF CreateTemp
<1>6. CASE FillTemp(t)
  <2>1. Settled' = Settled
    BY <1>6, <1>0 DEF FillTemp, StoreInv
  <2> QED
    BY <1>6, <2>1, <1>stutter DEF FillTemp
<1>fail. ASSUME at[t] \in {"called"} \union (Critical \ {"renamed"}),
                at' = [at EXCEPT ![t] = "answered"],
                answer' = [answer EXCEPT ![t] = Promise!Failed],
                UNCHANGED <<file, asked>>
         PROVE  [Promise!Next]_(Promise!vars)
  <2>1. Settled' = [Settled EXCEPT ![t] = Promise!Failed]
    BY <1>fail, <1>0 DEF StoreInv
  <2>2. Settled[t] = Promise!Pending /\ asked[t] # Promise!Idle
    BY <1>fail, <1>0 DEF StoreInv
  <2>3. Promise!Fail(t)
    BY <1>fail, <2>1, <2>2 DEF Promise!Fail
  <2> QED
    BY <2>3 DEF Promise!Next
<1>7. CASE WriteFails(t)
  BY <1>7, <1>fail DEF WriteFails
<1>8. CASE Rename(t)
  <2>1. /\ asked[t] \in Promise!Calls
        /\ asked[t] # Promise!Idle
        /\ asked[t].op = "write"
        /\ Promise!Satisfied(asked[t].expected, file[asked[t].doc])
    BY <1>8, <1>0 DEF Rename, StoreInv
  <2>2. Settled' = [Settled EXCEPT ![t] = Promise!Installed]
    BY <1>8, <1>0 DEF Rename, StoreInv
  <2>3. Settled[t] = Promise!Pending
    BY <1>8, <1>0 DEF Rename, StoreInv
  <2>4. file' = [file EXCEPT ![asked[t].doc] = Promise!After(asked[t], @)]
    BY <1>8, <2>1, CallShape DEF Rename, Promise!After, StoreInv
  <2>5. Promise!Outcome(asked[t], file[asked[t].doc]) = Promise!Installed
    BY <2>1 DEF Promise!Outcome
  <2>6. Promise!Do(t)
    BY <1>8, <2>1, <2>2, <2>3, <2>4, <2>5 DEF Promise!Do, Rename
  <2> QED
    BY <2>6 DEF Promise!Next
<1>9. CASE ReadBack(t)
  <2>1. asked[t] \in Promise!Calls /\ asked[t].op = "write"
    BY <1>9, <1>0 DEF ReadBack, StoreInv
  <2>2. file[asked[t].doc] = asked[t].text /\ Settled[t] = Promise!Installed
    BY <1>9, <2>1, <1>0 DEF ReadBack, StoreInv
  <2>3. PICK it \in {Promise!Written(asked[t].text), Promise!Failed} :
          answer' = [answer EXCEPT ![t] = it]
    BY <1>9, <2>2 DEF ReadBack
  <2>4. Settled' = [Settled EXCEPT ![t] = it]
    BY <1>9, <1>0, <2>3 DEF ReadBack, StoreInv
  <2>5. Promise!Tell(t)
    BY <1>9, <2>2, <2>3, <2>4 DEF ReadBack, Promise!Tell
  <2> QED
    BY <2>5 DEF Promise!Next
<1>13. CASE CallFails(t)
  BY <1>13, <1>fail DEF CallFails
<1>10. CASE Unlink(t)
  <2>1. /\ asked[t] \in Promise!Calls
        /\ asked[t] # Promise!Idle
        /\ asked[t].op = "remove"
        /\ Promise!Satisfied(asked[t].expected, file[asked[t].doc])
    BY <1>10, <1>0 DEF Unlink, StoreInv
  <2>2. Settled' = [Settled EXCEPT ![t] = Promise!Removed(file[asked[t].doc])]
    BY <1>10, <1>0 DEF Unlink, StoreInv
  <2>3. Settled[t] = Promise!Pending
    BY <1>10, <1>0 DEF Unlink, StoreInv
  <2>4. file' = [file EXCEPT ![asked[t].doc] = Promise!After(asked[t], @)]
    BY <1>10, <2>1, CallShape DEF Unlink, Promise!After, StoreInv
  <2>5. Promise!Outcome(asked[t], file[asked[t].doc])
        = Promise!Removed(file[asked[t].doc])
    BY <2>1 DEF Promise!Outcome
  <2>6. Promise!Do(t)
    BY <1>10, <2>1, <2>2, <2>3, <2>4, <2>5 DEF Promise!Do, Unlink
  <2> QED
    BY <2>6 DEF Promise!Next
<1>11. CASE UnlinkFails(t)
  BY <1>11, <1>fail DEF UnlinkFails
<1>12. CASE ReturnStore(t)
  <2>1. Settled' = [Settled EXCEPT ![t] = Promise!Pending]
    BY <1>12, <1>0 DEF ReturnStore, StoreInv
  <2>2. Settled[t] \notin {Promise!Pending, Promise!Installed}
    BY <1>12, <1>0 DEF ReturnStore, StoreInv
  <2>3. Promise!Return(t)
    BY <1>12, <2>1, <2>2 DEF ReturnStore, Promise!Return
  <2> QED
    BY <2>3 DEF Promise!Next
<1> QED
  BY <1>ask, <1>2, <1>3, <1>4, <1>5, <1>6, <1>7, <1>8, <1>9, <1>10, <1>11, <1>12, <1>13
     DEF StoreStep, Promise!Next

LEMMA NextRefines ==
    StoreInv /\ StoreInv' /\ [StoreNext]_storeVars => [Promise!Next]_(Promise!vars)
<1> SUFFICES ASSUME StoreInv, StoreInv', [StoreNext]_storeVars
             PROVE  [Promise!Next]_(Promise!vars)
  OBVIOUS
<1>1. ASSUME NEW t \in Threads, StoreStep(t) PROVE [Promise!Next]_(Promise!vars)
  BY <1>1, StepRefines
<1>2. CASE Tidy
  BY <1>2 DEF Tidy, Settled, Promise!vars
<1>3. CASE Crash
  <2>1. Settled' = [t \in Threads |-> Promise!Pending]
    BY <1>3 DEF Crash, Settled
  <2>2. Promise!Crash
    BY <1>3, <2>1 DEF Crash, Promise!Crash
  <2> QED
    BY <2>2 DEF Promise!Next
<1>4. CASE UNCHANGED storeVars
  BY <1>4 DEF storeVars, Settled, Promise!vars
<1> QED
  BY <1>1, <1>2, <1>3, <1>4 DEF StoreNext

(* Every behaviour of the store is one of the register it promises, whatever   *)
(* the numbers of threads, documents, texts and crashes.                      *)
THEOREM StoreKeepsPromise == StoreSpec => StoreIsRegister
<1>1. StoreInit => Promise!Init
  BY DEF StoreInit, Promise!Init, Settled
<1> QED
  BY <1>1, InitPlaced, NextPlaced, NextRefines, PTL
     DEF StoreSpec, StoreIsRegister, Promise!Spec

----------------------------------------------------------------------------
(* Nothing acknowledged is lost (ProjectDocuments). The store compares what a  *)
(* save expects with what is there, but the versions the save adds to are      *)
(* those the handler read, a call earlier. What is inductive is that the two    *)
(* are the same when the comparison succeeds (PutsAddToWhatIsThere), but of a   *)
(* profile that was deleted while somebody was creating it. It rests on every  *)
(* version naming the request that added it, and no request adding one before  *)
(* it took effect: a profile that changed never becomes again what somebody    *)
(* read, unless it is revived.                                                 *)
Profile == Seq(Versions) \union {Nothing}
Stages == {"before", "looking", "loading", "writing", "landed", "refused"}

DocumentsTyped ==
    /\ profiles \in [Profiles -> Profile]
    /\ assignments \in [Radargrams -> Profiles \union {Nothing}]
    /\ stage \in [Requests -> Stages]
    /\ call = [q \in Requests |-> call[q]]
    /\ held = [q \in Requests |-> held[q]]
    /\ seen = [q \in Requests |-> seen[q]]
    /\ done \in Seq(Requests)

AskedFor(q) ==
    /\ stage[q] # "before" => call[q] \in MayAsk
    /\ stage[q] = "loading" => call[q].op # "put"
PutsOf(q) == stage[q] # "before" /\ call[q].op = "put"

(* Every version is by a request that took effect, or was there at the start.  *)
ByDone(versions) ==
    versions # Nothing =>
        \A i \in 1..Len(versions) : versions[i].by # Nothing => stage[versions[i].by] = "landed"

PutsHold(q) ==
    PutsOf(q) =>
        /\ held[q] \in Profile /\ ByDone(held[q])
        /\ call[q].expects = "version" => held[q] # Nothing

PutsAddToWhatIsThere(q) ==
    PutsOf(q) /\ stage[q] = "writing" =>
        /\ seen[q] \in Profile /\ ByDone(seen[q])
        /\ profiles[call[q].profile] = held[q] =>
               seen[q] = held[q] \/ held[q] = Nothing \/ call[q].profile \in Revived

DocumentsInv ==
    /\ DocumentsTyped
    /\ \A i \in 1..Len(done) : stage[done[i]] = "landed"
    /\ \A p \in Profiles : ByDone(profiles[p])
    /\ \A q \in Requests : AskedFor(q) /\ PutsHold(q) /\ PutsAddToWhatIsThere(q)
    /\ AcknowledgedStays

(* The pages save a profile over the version they read, or a new one where     *)
(* there is none.                                                              *)
PutsAreConditional == \A c \in MayAsk : c.op = "put" => c.expects # "any"

(* What was revived stays so.                                                  *)
LEMMA RevivedStay ==
    ASSUME \A r \in Requests : stage[r] = "landed" =>
               stage'[r] = "landed" /\ call'[r] = call[r] /\ seen'[r] = seen[r]
    PROVE  Revived \subseteq Revived'
<1> SUFFICES ASSUME NEW p \in Revived PROVE p \in Revived'
  OBVIOUS
<1>1. PICK r \in Requests : /\ stage[r] = "landed" /\ call[r].op = "put"
                            /\ call[r].expects = "absent" /\ seen[r] # Nothing
                            /\ call[r].profile = p
  BY DEF Revived
<1> QED
  BY <1>1 DEF Revived

(* A version added is at the end, and the others stay as they were.            *)
LEMMA VersionsAreAdded ==
    ASSUME NEW q \in Requests, call[q] \in MayAsk, call[q].op = "put",
           NEW versions \in Profile
    PROVE  /\ WithVersion(versions, q) \in Seq(Versions)
           /\ WithVersion(versions, q) # Nothing
           /\ \E i \in 1..Len(WithVersion(versions, q)) :
                  WithVersion(versions, q)[i].steps = call[q].steps
           /\ versions # Nothing =>
                  /\ Len(versions) <= Len(WithVersion(versions, q))
                  /\ \A i \in 1..Len(versions) : WithVersion(versions, q)[i] = versions[i]
           /\ \A i \in 1..Len(WithVersion(versions, q)) :
                  \/ WithVersion(versions, q)[i].by = q
                  \/ versions # Nothing /\ i \in 1..Len(versions)
           /\ \/ WithVersion(versions, q) = versions
              \/ /\ Len(WithVersion(versions, q)) > 0
                 /\ WithVersion(versions, q)[Len(WithVersion(versions, q))].by = q
<1> DEFINE now == IF versions = Nothing THEN <<>> ELSE versions
           new == [steps |-> call[q].steps, by |-> q]
<1>1. call[q].steps \in AllSteps
  BY DEF AllSteps
<1>2. new \in Versions /\ new.by = q /\ new.steps = call[q].steps
  BY <1>1 DEF Versions
<1>3. Nothing \notin Seq(Versions)
  BY DocumentsAssumption
<1>4. now \in Seq(Versions)
  BY DEF Profile
<1>5. CASE now # <<>> /\ Last(now).steps = call[q].steps
  <2>1. WithVersion(versions, q) = now
    BY <1>5 DEF WithVersion
  <2>2. now = versions
    BY <1>5
  <2>3. Len(now) \in 1..Len(now) /\ now[Len(now)].steps = call[q].steps
    BY <1>4, <1>5 DEF Last
  <2> HIDE DEF now, new
  <2> QED
    BY <1>3, <1>4, <2>1, <2>2, <2>3
<1>6. CASE ~(now # <<>> /\ Last(now).steps = call[q].steps)
  <2>1. WithVersion(versions, q) = Append(now, new)
    BY <1>6 DEF WithVersion
  <2>2. versions # Nothing => now = versions
    OBVIOUS
  <2>0. versions = Nothing => now = <<>>
    OBVIOUS
  <2> HIDE DEF now
  <2>3. /\ Append(now, new) \in Seq(Versions)
        /\ Len(Append(now, new)) = Len(now) + 1
        /\ Len(now) \in Nat
        /\ \A i \in 1..Len(now) : Append(now, new)[i] = now[i]
        /\ Append(now, new)[Len(now) + 1] = new
    BY <1>2, <1>4
  <2> HIDE DEF new
  <2>4. \A i \in 1..Len(Append(now, new)) : i \in 1..Len(now) \/ i = Len(now) + 1
    BY <2>3
  <2>5. Len(now) + 1 \in 1..Len(Append(now, new))
    BY <2>3
  <2>6. versions = Nothing => Len(now) = 0
    BY <2>0
  <2>7. \A i \in 1..Len(now) : versions # Nothing /\ i \in 1..Len(versions)
    BY <2>2, <2>6, <2>3
  <2> QED
    BY <1>2, <1>3, <2>1, <2>2, <2>3, <2>4, <2>5, <2>7
<1> QED
  BY <1>5, <1>6

LEMMA DocumentsInitHolds == DocumentsInit => DocumentsInv
<1> SUFFICES ASSUME DocumentsInit PROVE DocumentsInv
  OBVIOUS
<1>1. [steps |-> 0, by |-> Nothing] \in Versions
  BY DEF Versions, AllSteps
<1>2. <<[steps |-> 0, by |-> Nothing]>> \in Seq(Versions)
  BY <1>1
<1>3. DocumentsTyped
  <2>1. profiles \in [Profiles -> Profile]
    BY <1>2 DEF DocumentsInit, Profile
  <2>2. stage \in [Requests -> Stages] /\ done \in Seq(Requests)
    BY DEF DocumentsInit, Stages
  <2>3. /\ call = [q \in Requests |-> call[q]]
        /\ held = [q \in Requests |-> held[q]]
        /\ seen = [q \in Requests |-> seen[q]]
    BY DEF DocumentsInit
  <2> QED
    BY <2>1, <2>2, <2>3 DEF DocumentsInit, DocumentsTyped
<1>4. ASSUME NEW p \in Profiles PROVE ByDone(profiles[p])
  <2>1. profiles[p] \in {Nothing, <<[steps |-> 0, by |-> Nothing]>>}
    BY DEF DocumentsInit
  <2> QED
    BY <2>1 DEF ByDone
<1>5. \A q \in Requests : stage[q] = "before"
  BY DEF DocumentsInit
<1>6. done = <<>>
  BY DEF DocumentsInit
<1>7. AcknowledgedStays
  BY <1>6 DEF AcknowledgedStays
<1> QED
  BY <1>3, <1>4, <1>5, <1>6, <1>7 DEF DocumentsInv, AskedFor, PutsHold, PutsAddToWhatIsThere, PutsOf

(* What each call leaves behind, and takes back, without the cases.           *)
LEMMA EffectByCases ==
    ASSUME NEW c \in MayAsk
    PROVE  /\ c.op = "put" =>
                  (Effect(c) <=>
                       /\ profiles[c.profile] # Nothing
                       /\ \E i \in DOMAIN profiles[c.profile] :
                              profiles[c.profile][i].steps = c.steps)
           /\ c.op = "delete" => (Effect(c) <=> profiles[c.profile] = Nothing)
           /\ c.op = "assign" => (Effect(c) <=> assignments[c.radargram] = c.profile)
           /\ c.op = "unassign" => (Effect(c) <=> assignments[c.radargram] = Nothing)
           /\ c.op = "layers" => (Effect(c) <=> layers = c.to)
<1>1. CASE c.op = "put"
  BY <1>1, Zenon DEF Effect
<1>2. CASE c.op = "delete"
  BY <1>2 DEF Effect
<1>3. CASE c.op = "assign"
  BY <1>3 DEF Effect
<1>4. CASE c.op = "unassign"
  BY <1>4 DEF Effect
<1>5. CASE c.op = "layers"
  BY <1>5 DEF Effect
<1> QED
  BY <1>1, <1>2, <1>3, <1>4, <1>5, DocumentsAssumption

(* A step that leaves every document and the acknowledgements as they are, and  *)
(* the requests of the acknowledged calls, takes nothing back.                 *)
LEMMA QuietKeepsAcknowledged ==
    ASSUME DocumentsInv, UNCHANGED <<profiles, assignments, layers, done>>,
           \A q \in Requests : stage[q] = "landed" =>
               stage'[q] = "landed" /\ call'[q] = call[q] /\ seen'[q] = seen[q]
    PROVE  AcknowledgedStays'
<1>0. Revived \subseteq Revived'
  BY RevivedStay
<1>1. DOMAIN done = 1..Len(done) /\ \A i \in DOMAIN done : done[i] \in Requests
  BY DEF DocumentsInv, DocumentsTyped
<1>2. \A i \in DOMAIN done : call[done[i]] \in MayAsk /\ call'[done[i]] = call[done[i]]
  BY <1>1 DEF DocumentsInv, AskedFor
<1>3. ASSUME NEW c \in MayAsk PROVE Effect(c) => Effect(c)'
  BY <1>3, EffectByCases, DocumentsAssumption, Zenon DEF Effect
<1> SUFFICES ASSUME NEW i \in DOMAIN done
             PROVE  \/ Effect(call[done[i]])'
                    \/ \E j \in DOMAIN done : j > i /\ TakesBack(call[done[j]], call[done[i]])
                    \/ call[done[i]].op = "put" /\ call[done[i]].profile \in Revived'
  <2>1. \A i \in DOMAIN done :
            \/ Effect(call[done[i]])'
            \/ \E j \in DOMAIN done : j > i /\ TakesBack(call[done[j]], call[done[i]])'
            \/ call'[done[i]].op = "put" /\ call'[done[i]].profile \in Revived'
    BY <1>2 DEF TakesBack
  <2> QED
    BY <2>1 DEF AcknowledgedStays
<1>4. \/ Effect(call[done[i]])
      \/ \E j \in DOMAIN done : j > i /\ TakesBack(call[done[j]], call[done[i]])
      \/ call[done[i]].op = "put" /\ call[done[i]].profile \in Revived
  BY DEF DocumentsInv, AcknowledgedStays
<1> QED
  BY <1>0, <1>2, <1>3, <1>4

(* A call that takes effect takes back what it is meant to, and nothing else.  *)
LEMMA EffectKeepsAcknowledged ==
    ASSUME DocumentsInv, NEW q \in Requests, call[q] \in MayAsk,
           done' = Append(done, q), call' = call,
           Effect(call[q])', Revived \subseteq Revived',
           \A c \in MayAsk : Effect(c) =>
               Effect(c)' \/ TakesBack(call[q], c) \/ (c.op = "put" /\ c.profile \in Revived')
    PROVE  AcknowledgedStays'
<1>1. /\ DOMAIN done = 1..Len(done) /\ Len(done) \in Nat
      /\ \A i \in DOMAIN done : done[i] \in Requests
  BY DEF DocumentsInv, DocumentsTyped
<1>2. /\ DOMAIN done' = 1..(Len(done) + 1)
      /\ \A i \in DOMAIN done : done'[i] = done[i]
      /\ done'[Len(done) + 1] = q
  BY <1>1 DEF DocumentsInv, DocumentsTyped
<1>3. \A i \in DOMAIN done : call[done[i]] \in MayAsk
  BY <1>1 DEF DocumentsInv, AskedFor
<1>4. ASSUME NEW i \in DOMAIN done'
      PROVE  \/ Effect(call[done[i]])'
             \/ \E j \in DOMAIN done' : j > i /\ TakesBack(call'[done'[j]], call'[done'[i]])
             \/ call'[done'[i]].op = "put" /\ call'[done'[i]].profile \in Revived'
  <2>1. CASE i = Len(done) + 1
    <3>1. call[done[i]]' = call[q]
      BY <1>2, <2>1
    <3> QED
      BY <3>1
  <2>2. CASE i # Len(done) + 1
    <3>1. i \in DOMAIN done
      BY <1>1, <1>2, <2>2
    <3>2. call'[done'[i]] = call[done[i]] /\ call[done[i]] \in MayAsk
      BY <1>2, <1>3, <3>1
    <3>3. CASE \E j \in DOMAIN done : j > i /\ TakesBack(call[done[j]], call[done[i]])
      <4>1. PICK j \in DOMAIN done : j > i /\ TakesBack(call[done[j]], call[done[i]])
        BY <3>3
      <4>2. j \in DOMAIN done' /\ call'[done'[j]] = call[done[j]]
        BY <1>1, <1>2
      <4> QED
        BY <3>2, <4>1, <4>2
    <3>4. CASE Effect(call[done[i]])
      <4>1. CASE Effect(call[done[i]])'
        BY <4>1
      <4>2. CASE TakesBack(call[q], call[done[i]])
        <5>1. Len(done) + 1 \in DOMAIN done' /\ Len(done) + 1 > i
          BY <1>1, <1>2, <3>1
        <5>2. call'[done'[Len(done) + 1]] = call[q]
          BY <1>2
        <5> QED
          BY <3>2, <4>2, <5>1, <5>2
      <4>3. CASE call[done[i]].op = "put" /\ call[done[i]].profile \in Revived'
        BY <3>2, <4>3
      <4>4. \/ Effect(call[done[i]])' \/ TakesBack(call[q], call[done[i]])
            \/ call[done[i]].op = "put" /\ call[done[i]].profile \in Revived'
        <5>1. call[done[i]]' = call[done[i]]
          BY <3>2
        <5> QED
          BY <3>2, <3>4, <5>1
      <4> QED
        BY <4>1, <4>2, <4>3, <4>4
    <3>5. CASE call[done[i]].op = "put" /\ call[done[i]].profile \in Revived
      BY <3>2, <3>5
    <3>6. \/ Effect(call[done[i]])
          \/ \E j \in DOMAIN done : j > i /\ TakesBack(call[done[j]], call[done[i]])
          \/ call[done[i]].op = "put" /\ call[done[i]].profile \in Revived
      BY <3>1 DEF DocumentsInv, AcknowledgedStays
    <3> QED
      BY <3>3, <3>4, <3>5, <3>6
  <2> QED
    BY <2>1, <2>2
<1> QED
  BY <1>4 DEF AcknowledgedStays, TakesBack

(* A version was there at the start, or a request added it.                    *)
LEMMA VersionsAreBySomebody ==
    ASSUME NEW versions \in Profile, versions # Nothing, NEW i \in 1..Len(versions)
    PROVE  versions[i].by \in Requests \union {Nothing}
<1>1. versions \in Seq(Versions)
  BY DEF Profile
<1>2. versions[i] \in Versions
  BY <1>1
<1> QED
  BY <1>2 DEF Versions

(* What a request knows is still so after a step of another, if the step left  *)
(* the profile it saves as it was, made it one it does not expect or revived   *)
(* it, or if it expects none.                                                 *)
LEMMA OthersKnowTheSame ==
    ASSUME DocumentsInv, NEW q \in Requests, NEW o \in Requests, o # q,
           \A r \in Requests : stage[r] = "landed" => stage'[r] = "landed",
           stage'[o] = stage[o], call'[o] = call[o], held'[o] = held[o], seen'[o] = seen[o],
           Revived \subseteq Revived',
           PutsOf(o) =>
               \/ profiles'[call[o].profile] = profiles[call[o].profile]
               \/ profiles'[call[o].profile] # held[o]
               \/ held[o] = Nothing \/ call[o].profile \in Revived'
    PROVE  AskedFor(o)' /\ PutsHold(o)' /\ PutsAddToWhatIsThere(o)'
<1>1. AskedFor(o) /\ PutsHold(o) /\ PutsAddToWhatIsThere(o)
  BY DEF DocumentsInv
<1>2. \A versions \in Profile : \A i \in 1..Len(versions) :
          versions # Nothing /\ versions[i].by # Nothing => versions[i].by \in Requests
  BY VersionsAreBySomebody
<1>3. AskedFor(o)'
  BY <1>1 DEF AskedFor
<1>4. PutsHold(o)'
  BY <1>1, <1>2 DEF PutsHold, PutsOf, ByDone
<1>5. PutsAddToWhatIsThere(o)'
  BY <1>1, <1>2 DEF PutsAddToWhatIsThere, PutsOf, ByDone
<1> QED
  BY <1>3, <1>4, <1>5

(* A step that writes nothing: what is there stays by requests that took       *)
(* effect, and the others know what they knew.                                 *)
LEMMA QuietKeeps ==
    ASSUME DocumentsInv, NEW q \in Requests,
           UNCHANGED <<profiles, assignments, layers, done>>, DocumentsTyped',
           stage[q] # "landed",
           \A o \in Requests : o # q =>
               /\ stage'[o] = stage[o] /\ call'[o] = call[o]
               /\ held'[o] = held[o] /\ seen'[o] = seen[o],
           AskedFor(q)', PutsHold(q)', PutsAddToWhatIsThere(q)'
    PROVE  DocumentsInv'
<1>1. \A r \in Requests : stage[r] = "landed" =>
          stage'[r] = "landed" /\ call'[r] = call[r] /\ seen'[r] = seen[r]
  OBVIOUS
<1>2. AcknowledgedStays' /\ Revived \subseteq Revived'
  BY <1>1, QuietKeepsAcknowledged, RevivedStay
<1>3. \A i \in 1..Len(done) : done[i] \in Requests /\ stage[done[i]] = "landed"
  BY DEF DocumentsInv, DocumentsTyped
<1>4. (\A i \in 1..Len(done) : stage[done[i]] = "landed")'
  BY <1>1, <1>3
<1>5. \A versions \in Profile : \A i \in 1..Len(versions) :
          versions # Nothing /\ versions[i].by # Nothing => versions[i].by \in Requests
  BY VersionsAreBySomebody
<1>6. \A p \in Profiles : profiles[p] \in Profile /\ ByDone(profiles[p])
  BY DEF DocumentsInv, DocumentsTyped
<1>7. (\A p \in Profiles : ByDone(profiles[p]))'
  BY <1>1, <1>5, <1>6 DEF ByDone
<1>8. ASSUME NEW o \in Requests, o # q
      PROVE  AskedFor(o)' /\ PutsHold(o)' /\ PutsAddToWhatIsThere(o)'
  BY <1>1, <1>2, <1>8, OthersKnowTheSame
<1> QED
  BY <1>2, <1>4, <1>7, <1>8 DEF DocumentsInv

(* The steps up to the write.                                                  *)
LEMMA LooksKeep ==
    ASSUME DocumentsInv, NEW q \in Requests,
           \/ \E c \in MayAsk : Send(q, c)
           \/ LookPut(q) \/ LookDelete(q) \/ LookAssign(q) \/ LookLayers(q)
           \/ LoadAssignments(q) \/ ReadAgain(q) \/ Conflict(q) \/ StoreFails(q)
    PROVE  DocumentsInv'
<1>1. DocumentsTyped /\ AskedFor(q) /\ PutsHold(q) /\ PutsAddToWhatIsThere(q)
  BY DEF DocumentsInv
<1>2. ASSUME NEW c \in MayAsk, Send(q, c) PROVE DocumentsInv'
  <2>1. DocumentsTyped'
    BY <1>1, <1>2 DEF Send, Go, DocumentsTyped, Stages
  <2>2. /\ stage'[q] = "looking" /\ call'[q] = c
        /\ held'[q] = IF c.expects = "version" THEN Target(c) ELSE Nothing
        /\ c.expects = "version" => Target(c) # Nothing
    BY <1>1, <1>2 DEF Send, Go, DocumentsTyped
  <2>3. AskedFor(q)' /\ PutsAddToWhatIsThere(q)'
    BY <2>2 DEF AskedFor, PutsAddToWhatIsThere
  <2>4. PutsHold(q)'
    <3>1. CASE c.op = "put"
      <4>1. c.profile \in Profiles /\ Target(c) = profiles[c.profile]
        BY <3>1, DocumentsAssumption DEF Target
      <4>2. held'[q] \in Profile /\ (c.expects = "version" => held'[q] # Nothing)
        BY <1>1, <2>2, <4>1 DEF DocumentsTyped, Profile
      <4>3. held'[q] # Nothing => ByDone(profiles[c.profile]) /\ held'[q] = profiles[c.profile]
        BY <2>2, <4>1 DEF DocumentsInv
      <4>4. \A r \in Requests : stage[r] = "landed" => stage'[r] = "landed"
        BY <1>1, <1>2 DEF Send, Go, DocumentsTyped
      <4>5. \A versions \in Profile : \A i \in 1..Len(versions) :
                versions # Nothing /\ versions[i].by # Nothing => versions[i].by \in Requests
        BY VersionsAreBySomebody
      <4>6. ByDone(held[q])'
        BY <4>2, <4>3, <4>4, <4>5 DEF ByDone
      <4> QED
        BY <2>2, <4>2, <4>6 DEF PutsHold
    <3>2. CASE c.op # "put"
      BY <2>2, <3>2 DEF PutsHold, PutsOf
    <3> QED
      BY <3>1, <3>2
  <2> QED
    BY <1>1, <1>2, <2>1, <2>3, <2>4, QuietKeeps DEF Send, Go, DocumentsTyped
<1>3. CASE LookPut(q)
  <2>1. DocumentsTyped'
    BY <1>1, <1>3 DEF LookPut, Go, DocumentsTyped, Stages
  <2>2. /\ stage[q] = "looking" /\ stage'[q] = "writing"
        /\ call'[q] = call[q] /\ held'[q] = held[q] /\ profiles' = profiles
        /\ call[q].op = "put" /\ seen'[q] = profiles[call[q].profile]
        /\ \A r \in Requests : stage[r] = "landed" => stage'[r] = "landed"
    BY <1>1, <1>3 DEF LookPut, Go, DocumentsTyped
  <2>3. call[q] \in MayAsk /\ call[q].profile \in Profiles
    BY <1>1, <2>2, DocumentsAssumption DEF AskedFor
  <2>4. \A versions \in Profile : \A i \in 1..Len(versions) :
            versions # Nothing /\ versions[i].by # Nothing => versions[i].by \in Requests
    BY VersionsAreBySomebody
  <2>5. AskedFor(q)' /\ PutsHold(q)'
    BY <1>1, <2>2, <2>3, <2>4 DEF AskedFor, PutsHold, PutsOf, ByDone
  <2>6. seen'[q] \in Profile /\ ByDone(profiles[call[q].profile])
    BY <1>1, <2>2, <2>3 DEF DocumentsTyped, DocumentsInv
  <2>7. ByDone(seen[q])'
    BY <2>2, <2>4, <2>6 DEF ByDone
  <2>8. PutsAddToWhatIsThere(q)'
    BY <2>2, <2>6, <2>7 DEF PutsAddToWhatIsThere
  <2> QED
    BY <1>1, <1>3, <2>1, <2>5, <2>8, QuietKeeps DEF LookPut, Go, DocumentsTyped
<1>4. CASE LookDelete(q) \/ LookAssign(q) \/ LookLayers(q) \/ LoadAssignments(q) \/ ReadAgain(q)
           \/ Conflict(q) \/ StoreFails(q)
  <2>1. /\ UNCHANGED <<profiles, assignments, layers, call, held, done>>
        /\ stage' = [stage EXCEPT ![q] = stage'[q]]
        /\ stage'[q] \in Stages
        /\ stage[q] \in {"looking", "loading", "writing"}
        /\ seen' = [seen EXCEPT ![q] = seen'[q]]
        /\ seen' # seen => stage[q] = "loading"
        /\ stage'[q] \in {"loading", "writing"} => call[q].op # "put"
    <3>1. CASE LookDelete(q)
      BY <1>1, <3>1 DEF LookDelete, Go, DocumentsTyped, Stages
    <3>2. CASE LookAssign(q)
      BY <1>1, <3>2 DEF LookAssign, Go, DocumentsTyped, Stages
    <3>3. CASE LookLayers(q)
      BY <1>1, <3>3 DEF LookLayers, Go, DocumentsTyped, Stages
    <3>4. CASE LoadAssignments(q)
      BY <1>1, <3>4 DEF LoadAssignments, Go, DocumentsTyped, Stages, AskedFor
    <3>5. CASE ReadAgain(q)
      BY <1>1, <3>5 DEF ReadAgain, Go, DocumentsTyped, Stages
    <3>6. CASE Conflict(q)
      BY <1>1, <3>6 DEF Conflict, Refuse, Go, DocumentsTyped, Stages
    <3>7. CASE StoreFails(q)
      BY <1>1, <3>7 DEF StoreFails, Go, DocumentsTyped, Stages
    <3> QED
      BY <1>4, <3>1, <3>2, <3>3, <3>4, <3>5, <3>6, <3>7
  <2>2. /\ stage[q] # "before" /\ call[q] \in MayAsk
        /\ \A r \in Requests : stage[r] = "landed" => stage'[r] = "landed"
    BY <1>1, <2>1 DEF DocumentsTyped, AskedFor
  <2>3. DocumentsTyped'
    BY <1>1, <2>1 DEF DocumentsTyped
  <2>4. \A versions \in Profile : \A i \in 1..Len(versions) :
            versions # Nothing /\ versions[i].by # Nothing => versions[i].by \in Requests
    BY VersionsAreBySomebody
  <2>5. AskedFor(q)'
    BY <1>1, <2>1, <2>2 DEF AskedFor
  <2>6. PutsHold(q)'
    BY <1>1, <2>1, <2>2, <2>4 DEF PutsHold, PutsOf, ByDone
  <2>7. PutsAddToWhatIsThere(q)'
    BY <2>1 DEF PutsAddToWhatIsThere, PutsOf
  <2> QED
    BY <1>1, <2>1, <2>3, <2>5, <2>6, <2>7, QuietKeeps DEF DocumentsTyped
<1> QED
  BY <1>2, <1>3, <1>4

(* Saving a profile: the versions it adds to are those that are there, or it   *)
(* revives the profile, and no other request knows of the version it adds.     *)
LEMMA PutKeeps ==
    ASSUME DocumentsInv, PutsAreConditional, NEW q \in Requests, WritePut(q)
    PROVE  DocumentsInv'
<1> DEFINE c == call[q]
           was == profiles[c.profile]
           base == seen[q]
           new == WithVersion(seen[q], q)
<1>1. /\ DocumentsTyped /\ AskedFor(q) /\ PutsHold(q) /\ PutsAddToWhatIsThere(q)
      /\ \A p \in Profiles : profiles[p] \in Profile /\ ByDone(profiles[p])
  BY DEF DocumentsInv, DocumentsTyped
<1>2. /\ stage[q] = "writing" /\ stage' = [stage EXCEPT ![q] = "landed"]
      /\ done' = Append(done, q)
      /\ UNCHANGED <<call, held, seen, assignments, layers>>
      /\ profiles' = [profiles EXCEPT ![c.profile] = new]
      /\ c.op = "put" /\ AsHeld(q)
  BY DEF WritePut, TookEffect, Go
<1>3. c \in MayAsk /\ c.profile \in Profiles /\ Target(c) = was
  BY <1>1, <1>2, DocumentsAssumption DEF AskedFor, Target
<1>4. was = held[q] /\ base \in Profile /\ was \in Profile /\ ByDone(base)
  BY <1>1, <1>2, <1>3 DEF AsHeld, PutsAreConditional, PutsAddToWhatIsThere, PutsOf
<1>5. /\ new \in Seq(Versions) /\ new # Nothing
      /\ \E i \in 1..Len(new) : new[i].steps = c.steps
      /\ base # Nothing =>
             Len(base) <= Len(new) /\ \A i \in 1..Len(base) : new[i] = base[i]
      /\ \A i \in 1..Len(new) : new[i].by = q \/ (base # Nothing /\ i \in 1..Len(base))
      /\ new = base \/ (Len(new) > 0 /\ new[Len(new)].by = q)
  BY <1>2, <1>3, <1>4, VersionsAreAdded
<1>6. profiles'[c.profile] = new /\ \A p \in Profiles : p # c.profile => profiles'[p] = profiles[p]
  BY <1>1, <1>2, <1>3 DEF DocumentsTyped
<1>7. \A r \in Requests : /\ stage[r] = "landed" => stage'[r] = "landed"
                          /\ r # q => stage'[r] = stage[r]
  BY <1>1, <1>2 DEF DocumentsTyped
<1>8. stage'[q] = "landed"
  BY <1>1, <1>2 DEF DocumentsTyped
<1>a. Revived \subseteq Revived'
  BY <1>2, <1>7, RevivedStay
<1>b. base = was \/ c.profile \in Revived'
  <2>1. CASE c.expects = "version"
    BY <1>1, <1>2, <1>4, <1>a, <2>1 DEF PutsHold, PutsAddToWhatIsThere, PutsOf
  <2>2. CASE c.expects = "absent" /\ base # Nothing
    BY <1>2, <1>8, <2>2 DEF Revived
  <2>3. CASE c.expects = "absent" /\ base = Nothing
    BY <1>1, <1>2, <1>4, <1>a, <2>3 DEF PutsAddToWhatIsThere, PutsOf
  <2> QED
    BY <1>2, <1>3, <2>1, <2>2, <2>3, DocumentsAssumption DEF PutsAreConditional
<1> HIDE DEF new, base
<1>9. DocumentsTyped'
  <2>1. profiles' \in [Profiles -> Profile]
    BY <1>1, <1>2, <1>3, <1>5 DEF DocumentsTyped, Profile
  <2> QED
    BY <1>1, <1>2, <2>1 DEF DocumentsTyped, Stages
<1>10. (\A i \in 1..Len(done) : stage[done[i]] = "landed")'
  <2>1. /\ Len(done) \in Nat /\ Len(done') = Len(done) + 1 /\ done'[Len(done) + 1] = q
        /\ \A i \in 1..Len(done) : done'[i] = done[i] /\ done[i] \in Requests
    BY <1>1, <1>2 DEF DocumentsTyped
  <2>2. \A i \in 1..Len(done) : stage[done[i]] = "landed"
    BY DEF DocumentsInv
  <2> QED
    BY <1>7, <1>8, <2>1, <2>2
<1>11. (\A p \in Profiles : ByDone(profiles[p]))'
  <2>1. \A versions \in Profile : \A i \in 1..Len(versions) :
            versions # Nothing /\ versions[i].by # Nothing => versions[i].by \in Requests
    BY VersionsAreBySomebody
  <2>2. ASSUME NEW p \in Profiles, p # c.profile PROVE ByDone(profiles[p])'
    BY <1>1, <1>6, <1>7, <2>1, <2>2 DEF ByDone
  <2>3. ByDone(profiles[c.profile])'
    <3>1. \A i \in 1..Len(new) : new[i].by # Nothing => stage'[new[i].by] = "landed"
      BY <1>1, <1>3, <1>4, <1>5, <1>7, <1>8, <2>1 DEF ByDone
    <3> QED
      BY <1>2, <1>6, <3>1 DEF ByDone
  <2> QED
    BY <2>2, <2>3, <1>2
<1>12. ASSUME NEW o \in Requests, o # q
       PROVE  AskedFor(o)' /\ PutsHold(o)' /\ PutsAddToWhatIsThere(o)'
  <2>1. ASSUME PutsOf(o), call[o].profile = c.profile, new # base
        PROVE  new # held[o]
    <3>1. held[o] \in Profile /\ ByDone(held[o])
      BY <2>1 DEF DocumentsInv, PutsHold
    <3>2. Len(new) \in 1..Len(new) /\ new[Len(new)].by = q
      BY <1>5, <2>1
    <3>3. stage[q] # "landed" /\ q # Nothing
      BY <1>2, DocumentsAssumption
    <3> QED
      BY <1>5, <3>1, <3>2, <3>3 DEF ByDone
  <2>2. ASSUME PutsOf(o)
        PROVE  \/ profiles'[call[o].profile] = profiles[call[o].profile]
               \/ profiles'[call[o].profile] # held[o]
               \/ call[o].profile \in Revived'
    <3>1. call[o].profile \in Profiles
      BY <2>2, DocumentsAssumption DEF PutsOf, DocumentsInv, AskedFor
    <3> QED
      BY <1>6, <1>b, <2>1, <2>2, <3>1
  <2> QED
    BY <1>2, <1>7, <1>a, <1>12, <2>2, OthersKnowTheSame
<1>13. AskedFor(q)' /\ PutsHold(q)' /\ PutsAddToWhatIsThere(q)'
  <2>1. held[q] \in Profile /\ (c.expects = "version" => held[q] # Nothing)
    BY <1>1, <1>2 DEF PutsHold, PutsOf
  <2>2. ByDone(held[q])'
    <3>1. ByDone(was)
      BY <1>1, <1>3
    <3>2. \A i \in 1..Len(was) : was # Nothing /\ was[i].by # Nothing => was[i].by \in Requests
      BY <1>4, VersionsAreBySomebody
    <3> QED
      BY <1>2, <1>4, <1>7, <3>1, <3>2 DEF ByDone
  <2> QED
    BY <1>2, <1>3, <1>8, <2>1, <2>2 DEF AskedFor, PutsHold, PutsAddToWhatIsThere
<1>14. AcknowledgedStays'
  <2>1. Effect(c)'
    <3>1. profiles'[c.profile] # Nothing /\ \E i \in DOMAIN profiles'[c.profile] :
              profiles'[c.profile][i].steps = c.steps
      BY <1>5, <1>6
    <3> QED
      BY <1>2, <1>3, <3>1 DEF Effect
  <2>2. ASSUME NEW d \in MayAsk, Effect(d)
        PROVE  Effect(d)' \/ TakesBack(c, d) \/ (d.op = "put" /\ d.profile \in Revived')
    <3>0. CASE d.op = "put" /\ d.profile = c.profile /\ base # was
      BY <1>b, <3>0
    <3>1. CASE d.op = "put" /\ d.profile = c.profile /\ base = was
      <4>1. was # Nothing /\ \E i \in DOMAIN was : was[i].steps = d.steps
        BY <2>2, <3>1, EffectByCases
      <4>2. DOMAIN was = 1..Len(was) /\ DOMAIN new = 1..Len(new)
            /\ Len(was) \in Nat /\ Len(new) \in Nat
        BY <1>4, <1>5, <4>1 DEF Profile
      <4>3. \E i \in DOMAIN new : new[i].steps = d.steps
        BY <1>5, <3>1, <4>1, <4>2
      <4> QED
        BY <1>5, <1>6, <3>1, <4>3 DEF Effect
    <3>2. CASE d.op = "put" /\ d.profile # c.profile
      <4>1. d.profile \in Profiles
        BY <3>2, DocumentsAssumption
      <4>2. profiles'[d.profile] = profiles[d.profile]
        BY <1>6, <3>2, <4>1
      <4> QED
        BY <2>2, <3>2, <4>2 DEF Effect
    <3>3. CASE d.op = "delete" /\ d.profile = c.profile
      BY <1>2, <3>3 DEF TakesBack
    <3>4. CASE d.op = "delete" /\ d.profile # c.profile
      <4>1. d.profile \in Profiles
        BY <3>4, DocumentsAssumption
      <4>2. profiles'[d.profile] = profiles[d.profile]
        BY <1>6, <3>4, <4>1
      <4> QED
        BY <2>2, <3>4, <4>2 DEF Effect
    <3>5. CASE d.op \in {"assign", "unassign", "layers"}
      BY <1>2, <2>2, <3>5 DEF Effect
    <3> QED
      BY <3>0, <3>1, <3>2, <3>3, <3>4, <3>5, DocumentsAssumption
  <2>3. call' = call
    BY <1>2
  <2> QED
    BY <1>2, <1>3, <1>a, <2>1, <2>2, <2>3, EffectKeepsAcknowledged
<1> QED
  BY <1>9, <1>10, <1>11, <1>12, <1>13, <1>14 DEF DocumentsInv

(* The other calls that take effect leave a profile as it is or remove it.     *)
LEMMA EffectKeeps ==
    ASSUME DocumentsInv, NEW q \in Requests, TookEffect(q), call[q].op # "put",
           profiles' \in [Profiles -> Profile],
           assignments' \in [Radargrams -> Profiles \union {Nothing}],
           \A p \in Profiles : profiles'[p] = profiles[p] \/ profiles'[p] = Nothing,
           \A o \in Requests : PutsOf(o) =>
               \/ profiles'[call[o].profile] = profiles[call[o].profile]
               \/ profiles'[call[o].profile] # held[o]
               \/ held[o] = Nothing,
           AcknowledgedStays'
    PROVE  DocumentsInv'
<1>1. /\ DocumentsTyped /\ AskedFor(q)
      /\ \A p \in Profiles : profiles[p] \in Profile /\ ByDone(profiles[p])
  BY DEF DocumentsInv, DocumentsTyped
<1>2. /\ stage[q] = "writing" /\ stage' = [stage EXCEPT ![q] = "landed"]
      /\ done' = Append(done, q)
      /\ UNCHANGED <<call, held, seen>>
  BY DEF TookEffect, Go
<1>3. /\ stage'[q] = "landed"
      /\ \A r \in Requests : (stage[r] = "landed" => stage'[r] = "landed")
                             /\ (r # q => stage'[r] = stage[r])
  BY <1>1, <1>2 DEF DocumentsTyped
<1>4. DocumentsTyped'
  BY <1>1, <1>2 DEF DocumentsTyped, Stages
<1>5. (\A i \in 1..Len(done) : stage[done[i]] = "landed")'
  <2>1. /\ Len(done) \in Nat /\ Len(done') = Len(done) + 1 /\ done'[Len(done) + 1] = q
        /\ \A i \in 1..Len(done) : done'[i] = done[i] /\ done[i] \in Requests
    BY <1>1, <1>2 DEF DocumentsTyped
  <2>2. \A i \in 1..Len(done) : stage[done[i]] = "landed"
    BY DEF DocumentsInv
  <2> QED
    BY <1>3, <2>1, <2>2
<1>6. (\A p \in Profiles : ByDone(profiles[p]))'
  <2>1. \A versions \in Profile : \A i \in 1..Len(versions) :
            versions # Nothing /\ versions[i].by # Nothing => versions[i].by \in Requests
    BY VersionsAreBySomebody
  <2>2. ASSUME NEW p \in Profiles PROVE ByDone(profiles[p])'
    BY <1>1, <1>3, <2>1 DEF ByDone
  <2> QED
    BY <2>2
<1>7. ASSUME NEW o \in Requests, o # q
      PROVE  AskedFor(o)' /\ PutsHold(o)' /\ PutsAddToWhatIsThere(o)'
  <2>1. Revived \subseteq Revived'
    BY <1>2, <1>3, RevivedStay
  <2> QED
    BY <1>2, <1>3, <1>7, <2>1, OthersKnowTheSame
<1>8. AskedFor(q)' /\ PutsHold(q)' /\ PutsAddToWhatIsThere(q)'
  BY <1>1, <1>2, <1>3 DEF AskedFor, PutsHold, PutsAddToWhatIsThere, PutsOf
<1> QED
  BY <1>4, <1>5, <1>6, <1>7, <1>8 DEF DocumentsInv

(* Deleting a profile. A save that is under way expects a version of it, or     *)
(* expects none, and may revive it.                                           *)
LEMMA RemoveKeeps ==
    ASSUME DocumentsInv, NEW q \in Requests, RemoveProfile(q)
    PROVE  DocumentsInv'
<1> DEFINE c == call[q]
<1>1. DocumentsTyped /\ AskedFor(q)
  BY DEF DocumentsInv
<1>2. /\ TookEffect(q) /\ c.op = "delete"
      /\ stage[q] = "writing" /\ done' = Append(done, q)
      /\ UNCHANGED <<call, held, seen, assignments, layers>>
      /\ profiles' = [profiles EXCEPT ![c.profile] = Nothing]
  BY DEF RemoveProfile, TookEffect, Go
<1>3. c \in MayAsk /\ c.profile \in Profiles
  BY <1>1, <1>2, DocumentsAssumption DEF AskedFor
<1>4. /\ profiles' \in [Profiles -> Profile]
      /\ profiles'[c.profile] = Nothing
      /\ \A p \in Profiles : p # c.profile => profiles'[p] = profiles[p]
  BY <1>1, <1>2, <1>3 DEF DocumentsTyped, Profile
<1>5. ASSUME NEW o \in Requests, PutsOf(o)
      PROVE  \/ profiles'[call[o].profile] = profiles[call[o].profile]
             \/ profiles'[call[o].profile] # held[o]
             \/ held[o] = Nothing
  <2>1. call[o].profile \in Profiles
    BY <1>5, DocumentsAssumption DEF PutsOf, AskedFor, DocumentsInv
  <2> QED
    BY <1>4, <2>1
<1>6. AcknowledgedStays'
  <2>1. Effect(c)'
    BY <1>2, <1>4 DEF Effect
  <2>2. ASSUME NEW d \in MayAsk, Effect(d) PROVE Effect(d)' \/ TakesBack(c, d)
    <3>1. CASE d.op = "put" /\ d.profile = c.profile
      BY <1>2, <3>1 DEF TakesBack
    <3>2. CASE d.op \in {"put", "delete"} /\ d.profile # c.profile
      <4>1. d.profile \in Profiles
        BY <3>2, DocumentsAssumption
      <4>2. profiles'[d.profile] = profiles[d.profile]
        BY <1>4, <3>2, <4>1
      <4> QED
        BY <2>2, <3>2, <4>2 DEF Effect
    <3>3. CASE d.op = "delete" /\ d.profile = c.profile
      BY <1>4, <3>3 DEF Effect
    <3>4. CASE d.op \in {"assign", "unassign", "layers"}
      BY <1>2, <2>2, <3>4 DEF Effect
    <3> QED
      BY <3>1, <3>2, <3>3, <3>4, DocumentsAssumption
  <2>3. call' = call
    BY <1>2
  <2>4. Revived \subseteq Revived'
    BY <1>1, <1>2, RevivedStay DEF DocumentsTyped, TookEffect, Go
  <2> QED
    BY <1>2, <1>3, <2>1, <2>2, <2>3, <2>4, EffectKeepsAcknowledged
<1>7. \A p \in Profiles : profiles'[p] = profiles[p] \/ profiles'[p] = Nothing
  BY <1>4
<1>8. assignments' \in [Radargrams -> Profiles \union {Nothing}]
  BY <1>1, <1>2 DEF DocumentsTyped
<1> QED
  BY <1>2, <1>4, <1>5, <1>6, <1>7, <1>8, EffectKeeps

(* Assigning writes over the assignments as they are, and changes one.         *)
LEMMA AssignKeeps ==
    ASSUME DocumentsInv, NEW q \in Requests, WriteAssignments(q)
    PROVE  DocumentsInv'
<1> DEFINE c == call[q]
           assigned == IF c.op = "assign" THEN c.profile ELSE Nothing
<1>1. DocumentsTyped /\ AskedFor(q)
  BY DEF DocumentsInv
<1>2. /\ TookEffect(q) /\ c.op \in {"assign", "unassign"}
      /\ stage[q] = "writing" /\ done' = Append(done, q)
      /\ UNCHANGED <<call, held, seen, profiles, layers>>
      /\ assignments' = [assignments EXCEPT ![c.radargram] = assigned]
  BY DEF WriteAssignments, AsSeen, TookEffect, Go
<1>3. c \in MayAsk /\ c.radargram \in Radargrams /\ assigned \in Profiles \union {Nothing}
  BY <1>1, <1>2, DocumentsAssumption DEF AskedFor
<1> HIDE DEF assigned
<1>4. /\ assignments' \in [Radargrams -> Profiles \union {Nothing}]
      /\ assignments'[c.radargram] = assigned
      /\ \A r \in Radargrams : r # c.radargram => assignments'[r] = assignments[r]
  BY <1>1, <1>2, <1>3 DEF DocumentsTyped
<1>5. AcknowledgedStays'
  <2>1. Effect(c)'
    <3>1. CASE c.op = "assign"
      BY <1>2, <1>4, <3>1 DEF Effect, assigned
    <3>2. CASE c.op = "unassign"
      BY <1>2, <1>4, <3>2 DEF Effect, assigned
    <3> QED
      BY <1>2, <3>1, <3>2
  <2>2. ASSUME NEW d \in MayAsk, Effect(d) PROVE Effect(d)' \/ TakesBack(c, d)
    <3>1. CASE d.op \in {"assign", "unassign"} /\ d.radargram = c.radargram
      BY <1>2, <3>1 DEF TakesBack
    <3>2. CASE d.op \in {"assign", "unassign"} /\ d.radargram # c.radargram
      <4>1. d.radargram \in Radargrams
        BY <3>2, DocumentsAssumption
      <4>2. assignments'[d.radargram] = assignments[d.radargram]
        BY <1>4, <3>2, <4>1
      <4> QED
        BY <2>2, <3>2, <4>2 DEF Effect
    <3>3. CASE d.op \in {"put", "delete", "layers"}
      <4>1. CASE d.op = "put"
        BY <1>2, <2>2, <4>1, EffectByCases, Zenon DEF Effect
      <4>2. CASE d.op # "put"
        BY <1>2, <2>2, <3>3, <4>2 DEF Effect
      <4> QED
        BY <4>1, <4>2
    <3> QED
      BY <3>1, <3>2, <3>3, DocumentsAssumption
  <2>3. call' = call
    BY <1>2
  <2>4. Revived \subseteq Revived'
    BY <1>1, <1>2, RevivedStay DEF DocumentsTyped, TookEffect, Go
  <2> QED
    BY <1>2, <1>3, <2>1, <2>2, <2>3, <2>4, EffectKeepsAcknowledged
<1>6. profiles' \in [Profiles -> Profile] /\ \A p \in Profiles : profiles'[p] = profiles[p]
  BY <1>1, <1>2 DEF DocumentsTyped
<1>7. c.op # "put"
  BY <1>2
<1>8. \A o \in Requests : PutsOf(o) =>
          \/ profiles'[call[o].profile] = profiles[call[o].profile]
          \/ profiles'[call[o].profile] # held[o]
  BY <1>2
<1> QED
  BY <1>2, <1>4, <1>5, <1>6, <1>7, <1>8, EffectKeeps

LEMMA LayersKeep ==
    ASSUME DocumentsInv, NEW q \in Requests, WriteLayers(q)
    PROVE  DocumentsInv'
<1> DEFINE c == call[q]
<1>1. DocumentsTyped /\ AskedFor(q)
  BY DEF DocumentsInv
<1>2. /\ TookEffect(q) /\ c.op = "layers"
      /\ stage[q] = "writing" /\ done' = Append(done, q)
      /\ UNCHANGED <<call, held, seen, profiles, assignments>>
      /\ layers' = c.to
  BY DEF WriteLayers, TookEffect, Go
<1>3. c \in MayAsk
  BY <1>1, <1>2 DEF AskedFor
<1>4. AcknowledgedStays'
  <2>1. Effect(c)'
    BY <1>2 DEF Effect
  <2>2. ASSUME NEW d \in MayAsk, Effect(d) PROVE Effect(d)' \/ TakesBack(c, d)
    <3>1. CASE d.op = "put"
      BY <1>2, <2>2, <3>1, EffectByCases, Zenon DEF Effect
    <3>2. CASE d.op \in {"delete", "assign", "unassign"}
      BY <1>2, <2>2, <3>2 DEF Effect
    <3>3. CASE d.op = "layers"
      BY <1>2, <3>3 DEF TakesBack
    <3> QED
      BY <3>1, <3>2, <3>3, DocumentsAssumption
  <2>3. call' = call
    BY <1>2
  <2>4. Revived \subseteq Revived'
    BY <1>1, <1>2, RevivedStay DEF DocumentsTyped, TookEffect, Go
  <2> QED
    BY <1>2, <1>3, <2>1, <2>2, <2>3, <2>4, EffectKeepsAcknowledged
<1>5. /\ profiles' \in [Profiles -> Profile] /\ \A p \in Profiles : profiles'[p] = profiles[p]
      /\ assignments' \in [Radargrams -> Profiles \union {Nothing}]
  BY <1>1, <1>2 DEF DocumentsTyped
<1>6. c.op # "put"
  BY <1>2
<1>7. \A o \in Requests : PutsOf(o) =>
          \/ profiles'[call[o].profile] = profiles[call[o].profile]
          \/ profiles'[call[o].profile] # held[o]
  BY <1>2
<1> QED
  BY <1>2, <1>4, <1>5, <1>6, <1>7, EffectKeeps

LEMMA DocumentsStepKeeps ==
    ASSUME PutsAreConditional
    PROVE  DocumentsInv /\ [DocumentsNext]_documentVars => DocumentsInv'
<1> SUFFICES ASSUME DocumentsInv, [DocumentsNext]_documentVars PROVE DocumentsInv'
  OBVIOUS
<1>1. CASE UNCHANGED documentVars
  <2>1. DocumentsTyped'
    BY <1>1 DEF DocumentsInv, DocumentsTyped, documentVars
  <2>2. \A p \in Profiles : ByDone(profiles[p])'
    BY <1>1 DEF DocumentsInv, ByDone, documentVars
  <2>3. \A q \in Requests : AskedFor(q)' /\ PutsHold(q)' /\ PutsAddToWhatIsThere(q)'
    <3>1. Revived' = Revived
      BY <1>1 DEF Revived, documentVars
    <3> QED
      BY <1>1, <3>1 DEF DocumentsInv, AskedFor, PutsHold, PutsAddToWhatIsThere, PutsOf, ByDone,
                        documentVars
  <2>4. AcknowledgedStays'
    BY <1>1, QuietKeepsAcknowledged DEF documentVars
  <2>5. (\A i \in 1..Len(done) : stage[done[i]] = "landed")'
    BY <1>1 DEF DocumentsInv, documentVars
  <2> QED
    BY <1>1, <2>1, <2>2, <2>3, <2>4, <2>5 DEF DocumentsInv, documentVars
<1>2. ASSUME NEW q \in Requests, DocumentsStep(q) PROVE DocumentsInv'
  <2>1. CASE \/ \E c \in MayAsk : Send(q, c)
             \/ LookPut(q) \/ LookDelete(q) \/ LookAssign(q) \/ LookLayers(q)
             \/ LoadAssignments(q) \/ ReadAgain(q) \/ Conflict(q) \/ StoreFails(q)
    BY <2>1, LooksKeep
  <2>2. CASE WritePut(q)
    BY <2>2, PutKeeps
  <2>3. CASE RemoveProfile(q)
    BY <2>3, RemoveKeeps
  <2>4. CASE WriteAssignments(q)
    BY <2>4, AssignKeeps
  <2>5. CASE WriteLayers(q)
    BY <2>5, LayersKeep
  <2> QED
    BY <1>2, <2>1, <2>2, <2>3, <2>4, <2>5 DEF DocumentsStep
<1> QED
  BY <1>1, <1>2 DEF DocumentsNext

(* What a request was told it had saved stays until a later one takes it back, *)
(* for every number of requests, profiles, radargrams and layers, if saves of  *)
(* a profile are conditional, as the pages make them: but for the versions of  *)
(* a profile that was deleted while somebody was creating it, and revived.     *)
THEOREM AcknowledgedIsKept ==
    ASSUME PutsAreConditional
    PROVE  DocumentsSpec => []AcknowledgedStays
<1>1. DocumentsInit => DocumentsInv
  BY DocumentsInitHolds
<1>2. DocumentsInv /\ [DocumentsNext]_documentVars => DocumentsInv'
  BY DocumentsStepKeeps
<1>3. DocumentsInv => AcknowledgedStays
  BY DEF DocumentsInv
<1> QED
  BY <1>1, <1>2, <1>3, PTL DEF DocumentsSpec

----------------------------------------------------------------------------
(* The settings file never holds a default that cannot be used (ProjectSettings). *)
(* What is inductive is about the saves on their way to the file: each holds   *)
(* all the keys of one section, with values that are allowed together          *)
(* (PlannedIsAllowed), whenever each of them was read. The file is written only *)
(* over the version read, so the other sections in it are those that were       *)
(* there.                                                                      *)
Saving == {"reading", "writing", "publishing"}

PlannedIsAllowed(s) ==
    where[s] \in Saving => DOMAIN plan[s] \in Sections /\ Allowed(plan[s])

SettingsInv ==
    /\ where = [s \in Savers |-> where[s]]
    /\ plan = [s \in Savers |-> plan[s]]
    /\ DefaultIsOffered
    /\ \A s \in Savers : PlannedIsAllowed(s)

LEMMA SettingsInitHolds == SettingsInit => SettingsInv
<1> SUFFICES ASSUME SettingsInit PROVE SettingsInv
  OBVIOUS
<1>1. /\ {"profile", "hidden", "basemap", "basemaps"} \subseteq Keys
      /\ marker["profile"] = Unset /\ marker["hidden"] = {}
      /\ marker["basemap"] = Unset /\ marker["basemaps"] = {}
  BY DEF SettingsInit, Fresh, Keys, Defaults, Maps
<1> QED
  BY <1>1 DEF SettingsInit, SettingsInv, DefaultIsOffered, PlannedIsAllowed, Saving

(* A section written over the file as it was read leaves it with defaults that  *)
(* are offered.                                                                *)
LEMMA WritingKeepsOffered ==
    ASSUME SettingsInv, NEW s \in Savers, WriteMarker(s) \/ WriteUnconfirmed(s)
    PROVE  DefaultIsOffered'
<1> DEFINE section == DOMAIN plan[s]
<1>1. where[s] = "writing" /\ marker = read[s] /\ marker' = Merged(s)
  BY DEF WriteMarker, WriteUnconfirmed, Unmoved, Move
<1>2. section \in Sections /\ Allowed(plan[s])
  BY <1>1 DEF SettingsInv, PlannedIsAllowed, Saving
<1>3. \A key \in Keys : marker'[key] = IF key \in section THEN plan[s][key] ELSE marker[key]
  BY <1>1 DEF Merged
<1>4. {"profile", "hidden", "basemap", "basemaps"} \subseteq Keys
  BY DEF Keys, Defaults, Maps
<1>5. DefaultIsOffered
  BY DEF SettingsInv
<1> HIDE DEF section
<1>6. CASE section = Defaults
  <2>1. /\ "profile" \in section /\ "hidden" \in section
        /\ "basemap" \notin section /\ "basemaps" \notin section
    BY <1>6 DEF Defaults
  <2>2. Effective(plan[s]["profile"]) \notin plan[s]["hidden"]
    BY <1>2, <2>1 DEF Allowed, section
  <2> QED
    BY <1>3, <1>4, <1>5, <2>1, <2>2 DEF DefaultIsOffered
<1>7. CASE section = Maps
  <2>1. /\ "profile" \notin section /\ "hidden" \notin section
        /\ "basemap" \in section /\ "basemaps" \in section
    BY <1>7 DEF Maps
  <2>2. plan[s]["basemap"] \in plan[s]["basemaps"] \union {Unset}
    BY <1>2, <1>7 DEF Allowed, section
  <2> QED
    BY <1>3, <1>4, <1>5, <2>1, <2>2 DEF DefaultIsOffered
<1>8. CASE section = Descriptions
  <2>1. \A key \in {"profile", "hidden", "basemap", "basemaps"} : key \notin section
    BY <1>8 DEF Descriptions
  <2> QED
    BY <1>3, <1>4, <1>5, <2>1 DEF DefaultIsOffered
<1> QED
  BY <1>2, <1>6, <1>7, <1>8 DEF Sections

LEMMA SettingsStepKeeps == SettingsInv /\ [SettingsNext]_settingsVars => SettingsInv'
<1> SUFFICES ASSUME SettingsInv, [SettingsNext]_settingsVars PROVE SettingsInv'
  OBVIOUS
<1>1. CASE UNCHANGED settingsVars
  BY <1>1 DEF SettingsInv, DefaultIsOffered, PlannedIsAllowed, Allowed, settingsVars
<1>2. ASSUME NEW s \in Savers, SettingsStep(s) PROVE SettingsInv'
  <2> USE DEF Move
  <2>1. ASSUME NEW values \in Forms, SendSettings(s, values) PROVE SettingsInv'
    BY <2>1 DEF SendSettings, SettingsInv, DefaultIsOffered, PlannedIsAllowed, Allowed, Saving
  <2>2. ASSUME NEW key \in Keys, PlanKey(s, key) PROVE SettingsInv'
    <3>1. /\ where[s] = "planning" /\ where' = where
          /\ marker' = marker
          /\ \A o \in Savers : o # s => plan'[o] = plan[o]
          /\ plan' = [o \in Savers |-> plan'[o]]
      BY <2>2 DEF PlanKey, SettingsInv
    <3>2. ASSUME NEW o \in Savers PROVE PlannedIsAllowed(o)'
      BY <3>1 DEF SettingsInv, PlannedIsAllowed, Allowed, Saving
    <3> QED
      BY <3>1, <3>2 DEF SettingsInv, DefaultIsOffered
  <2>9. CASE SectionPlanned(s)
    <3>1. /\ DOMAIN plan[s] \in Sections /\ Allowed(plan[s])
          /\ where' = [where EXCEPT ![s] = "reading"]
          /\ UNCHANGED <<marker, plan>>
      BY <2>9 DEF SectionPlanned, NextSection, Sections
    <3>2. ASSUME NEW o \in Savers PROVE PlannedIsAllowed(o)'
      BY <3>1 DEF SettingsInv, PlannedIsAllowed, Allowed
    <3> QED
      BY <3>1, <3>2 DEF SettingsInv, DefaultIsOffered
  <2>3. CASE RefuseSection(s)
    BY <2>3 DEF RefuseSection, SettingsInv, DefaultIsOffered, PlannedIsAllowed, Allowed, Saving
  <2>4. CASE ReadMarker(s)
    BY <2>4 DEF ReadMarker, SettingsInv, DefaultIsOffered, PlannedIsAllowed, Allowed, Saving
  <2>5. CASE WriteMarker(s) \/ WriteUnconfirmed(s)
    <3>1. DefaultIsOffered'
      BY <2>5, WritingKeepsOffered
    <3> QED
      BY <2>5, <3>1 DEF WriteMarker, WriteUnconfirmed, SettingsInv, PlannedIsAllowed, Allowed,
                        Saving
  <2>10. CASE MarkerFails(s)
    BY <2>10 DEF MarkerFails, SettingsInv, DefaultIsOffered, PlannedIsAllowed, Allowed, Saving
  <2>6. CASE MarkerMoved(s)
    BY <2>6 DEF MarkerMoved, SettingsInv, DefaultIsOffered, PlannedIsAllowed, Allowed, Saving
  <2>7. CASE Publish(s)
    BY <2>7 DEF Publish, SettingsInv, DefaultIsOffered, PlannedIsAllowed, Allowed, Saving
  <2>8. CASE AnswerSettings(s)
    BY <2>8 DEF AnswerSettings, SettingsInv, DefaultIsOffered, PlannedIsAllowed, Allowed, Saving
  <2> QED
    BY <1>2, <2>1, <2>2, <2>3, <2>4, <2>5, <2>6, <2>7, <2>8, <2>9, <2>10
       DEF SettingsStep
<1> QED
  BY <1>1, <1>2 DEF SettingsNext

(* Whatever is saved together, in whatever order and by however many requests, *)
(* the default profile in the file, or the fallback where none is set, is not   *)
(* hidden, and the default basemap is one that is offered.                    *)
THEOREM DefaultIsAlwaysOffered == SettingsSpec => []DefaultIsOffered
<1>1. SettingsInv => DefaultIsOffered
  BY DEF SettingsInv
<1> QED
  BY <1>1, SettingsInitHolds, SettingsStepKeeps, PTL DEF SettingsSpec

(* A save writes no key of a section it is not saving: the file may have been  *)
(* changed by another save or an editor since memory was, and the comparison    *)
(* before the write is what keeps their sections.                             *)
THEOREM SectionsStayApart == SettingsSpec => SectionsApart
<1> DEFINE Apart == marker' # marker =>
                        \E s \in Savers : \A key \in Keys :
                            marker'[key] # marker[key] => key \in DOMAIN plan[s]
<1>1. ASSUME [SettingsNext]_settingsVars PROVE [Apart]_settingsVars
  <2>1. ASSUME NEW s \in Savers, WriteMarker(s) \/ WriteUnconfirmed(s) PROVE Apart
    <3>1. marker = read[s] /\ marker' = Merged(s)
      BY <2>1 DEF WriteMarker, WriteUnconfirmed, Unmoved
    <3>2. \A key \in Keys : marker'[key] # marker[key] => key \in DOMAIN plan[s]
      BY <3>1 DEF Merged
    <3> QED
      BY <3>2
  <2>2. ASSUME NEW s \in Savers, SettingsStep(s), ~WriteMarker(s), ~WriteUnconfirmed(s)
        PROVE  marker' = marker
    BY <2>2 DEF SettingsStep, SendSettings, PlanKey, SectionPlanned, RefuseSection, ReadMarker,
                MarkerFails, MarkerMoved, Publish, AnswerSettings
  <2> QED
    BY <1>1, <2>1, <2>2 DEF SettingsNext
<1>2. [][SettingsNext]_settingsVars => [][Apart]_settingsVars
  BY <1>1, PTL
<1> QED
  BY <1>2 DEF SettingsSpec, SectionsApart

----------------------------------------------------------------------------
(***************************************************************************)
(* Every expression, however long and however deep, that saving accepts    *)
(* within the forms both tables have, can be read.  What is inductive is   *)
(* about every operand, also the ones a finished expression may not be: an *)
(* operand that is neither loose nor refused has the same shape to both    *)
(* sides.  Each function keeps that of its arguments.                      *)
(***************************************************************************)
Sound(o) == ~o.loose /\ o.inferred # Refused => Alike(o)

AllSound == \A i \in DOMAIN pending : Sound(pending[i])

\* What one operand can be, by cases the provers can take.
LEMMA InferableForms ==
    ASSUME NEW t \in Inferables
    PROVE  /\ t.kind \in Kinds
           /\ \/ t = PerUser(t.kind) /\ t.form = "perUser"
              \/ t = Single(t.kind) /\ t.form = "single"
              \/ t = Number /\ t.form = "number"
              \/ t = Truth /\ t.form = "truth"
              \/ t = Refused /\ t.form = "refused"
BY DEF Inferables, PerUser, Single, Number, Truth, Refused, Kinds

\* A function of one argument keeps soundness.
LEMMA UnarySound ==
    ASSUME NEW a \in Operands, Sound(a), NEW o \in Unary(a)
    PROVE  o \in Operands /\ Sound(o)
<1>1. a.inferred \in Inferables /\ a.read \in Readables /\ a.loose \in BOOLEAN
  BY DEF Operands
<1>3. CASE \E keeps \in BOOLEAN :
             o = Operand(InferredReduction(keeps, a.inferred), ReadReduction(a.read),
                         a.loose \/ SingleReduced(a))
  <2>1. PICK keeps \in BOOLEAN :
          o = Operand(InferredReduction(keeps, a.inferred), ReadReduction(a.read),
                      a.loose \/ SingleReduced(a))
    BY <1>3
  <2>2. InferredReduction(keeps, a.inferred) \in {Single("layer"), Single("attribute"), Refused}
    BY <1>1, InferableForms DEF InferredReduction, Kinds
  <2>3. ~Kinded(a.inferred) => InferredReduction(keeps, a.inferred) = Refused
    BY DEF InferredReduction
  <2>4. /\ o.inferred = InferredReduction(keeps, a.inferred)
        /\ o.read = ReadReduction(a.read)
        /\ o.loose = (a.loose \/ SingleReduced(a))
    BY <2>1 DEF Operand
  <2>5. o \in Operands
    <3>1. InferredReduction(keeps, a.inferred) \in Inferables
      BY <2>2 DEF Inferables, Kinds
    <3>2. ReadReduction(a.read) \in Readables /\ SingleReduced(a) \in BOOLEAN
      BY DEF ReadReduction, Readables, SingleReduced
    <3>. QED BY <1>1, <2>1, <3>1, <3>2 DEF Operand, Operands
  <2>6. ASSUME ~o.loose, o.inferred # Refused
        PROVE  Alike(o)
    <3>1. a.inferred.form = "perUser"
      BY <1>1, <2>3, <2>4, <2>6 DEF Kinded, SingleReduced
    <3>2. a.inferred # Refused
      BY <3>1 DEF Refused
    <3>3. a.read = "perUser"
      BY <1>1, <2>4, <2>6, <3>1, <3>2 DEF Sound, Alike
    <3>. QED BY <2>2, <2>4, <2>6, <3>3 DEF Alike, ReadReduction, Single
  <2>. QED BY <2>5, <2>6 DEF Sound
<1>4. CASE o = Operand(InferredAbs(a.inferred), ReadAbs(a.read), a.loose)
  BY <1>1, <1>4, InferableForms
  DEF Sound, Alike, Operand, Operands, Inferables, Readables, InferredAbs, ReadAbs,
      Valued, Kinded, Kinds, PerUser, Single, Number, Truth, Refused
<1>5. CASE o = Operand(InferredIsNan(a.inferred), ReadIsNan(a.read), a.loose)
  BY <1>1, <1>5, InferableForms
  DEF Sound, Alike, Operand, Operands, Inferables, Readables, InferredIsNan, ReadIsNan,
      Valued, Kinded, Kinds, PerUser, Single, Number, Truth, Refused
<1>6. CASE o = Operand(InferredOnly(a.inferred), ReadOnly(a.read), a.loose)
  BY <1>1, <1>6, InferableForms
  DEF Sound, Alike, Operand, Operands, Inferables, Readables, InferredOnly, ReadOnly,
      Kinds, PerUser, Single, Number, Truth, Refused
<1>7. QED
  BY <1>3, <1>4, <1>5, <1>6 DEF Unary

\* The functions whose reading is element by element infer the shape it has.
LEMMA ElementwiseSound ==
    ASSUME NEW a \in Operands, Sound(a), NEW b \in Operands, Sound(b),
           NEW inferred \in {InferredShallowest(a.inferred, b.inferred),
                             InferredSum(a.inferred, b.inferred),
                             InferredDifference(a.inferred, b.inferred),
                             InferredProduct(a.inferred, b.inferred)},
           NEW o, o = Operand(inferred, ReadElementwise(a.read, b.read), a.loose \/ b.loose)
    PROVE  o \in Operands /\ Sound(o)
<1>1. /\ a.inferred \in Inferables /\ a.read \in Readables /\ a.loose \in BOOLEAN
      /\ b.inferred \in Inferables /\ b.read \in Readables /\ b.loose \in BOOLEAN
  BY DEF Operands
<1>2. /\ inferred \in Inferables
      /\ \/ inferred = Refused
         \/ /\ a.inferred = Number /\ b.inferred = Number /\ inferred = Number
         \/ /\ {a.inferred.form, b.inferred.form} \subseteq {"perUser", "single", "number"}
            /\ "perUser" \in {a.inferred.form, b.inferred.form} => inferred.form = "perUser"
            /\ "perUser" \notin {a.inferred.form, b.inferred.form} => inferred.form = "single"
  <2>1. CASE inferred = InferredShallowest(a.inferred, b.inferred)
    BY <1>1, <2>1, InferableForms
    DEF InferredShallowest, KindedOf, Spread, Valued, Kinded, Inferables, Kinds,
        PerUser, Single, Number, Truth, Refused
  <2>2. CASE inferred = InferredSum(a.inferred, b.inferred)
    BY <1>1, <2>2, InferableForms
    DEF InferredSum, KindedOf, Spread, Valued, Kinded, Inferables, Kinds,
        PerUser, Single, Number, Truth, Refused
  <2>3. CASE inferred = InferredDifference(a.inferred, b.inferred)
    BY <1>1, <2>2, <2>3, InferableForms
    DEF InferredDifference, InferredSum, KindedOf, Spread, Valued, Kinded, Inferables, Kinds,
        PerUser, Single, Number, Truth, Refused
  <2>4. CASE inferred = InferredProduct(a.inferred, b.inferred)
    BY <1>1, <2>4, InferableForms
    DEF InferredProduct, KindedOf, Spread, Valued, Kinded, Inferables, Kinds,
        PerUser, Single, Number, Truth, Refused
  <2>. QED BY <2>1, <2>2, <2>3, <2>4
<1>3. ReadElementwise(a.read, b.read) \in Readables
  BY DEF ReadElementwise, Readables
<1>4. o \in Operands /\ o.inferred = inferred /\ o.read = ReadElementwise(a.read, b.read)
        /\ o.loose = (a.loose \/ b.loose)
  BY <1>1, <1>2, <1>3 DEF Operand, Operands
<1>. QED
  BY <1>1, <1>2, <1>4, InferableForms
  DEF Sound, Alike, ReadElementwise, Number, Refused

\* A function of two arguments keeps soundness.
LEMMA BinarySound ==
    ASSUME NEW a \in Operands, Sound(a), NEW b \in Operands, Sound(b), NEW o \in Binary(a, b)
    PROVE  o \in Operands /\ Sound(o)
<1>1. /\ a.inferred \in Inferables /\ a.read \in Readables /\ a.loose \in BOOLEAN
      /\ b.inferred \in Inferables /\ b.read \in Readables /\ b.loose \in BOOLEAN
  BY DEF Operands
<1>2. CASE o = Operand(InferredPercentile(a.inferred, b.inferred),
                       ReadPercentile(a.read, b.read), a.loose \/ b.loose \/ SingleReduced(a))
  <2>1. /\ o.inferred = InferredPercentile(a.inferred, b.inferred)
        /\ o.read = ReadPercentile(a.read, b.read)
        /\ o.loose = (a.loose \/ b.loose \/ SingleReduced(a))
    BY <1>2 DEF Operand
  <2>2. o.inferred \in {Single(a.inferred.kind), Refused} /\ a.inferred.kind \in Kinds
    BY <1>1, <2>1, InferableForms DEF InferredPercentile
  <2>3. o \in Operands
    <3>1. o.inferred \in Inferables /\ o.read \in Readables /\ o.loose \in BOOLEAN
      BY <1>1, <2>1, <2>2 DEF ReadPercentile, SingleReduced, Inferables, Readables, Kinds
    <3>. QED BY <1>2, <2>1, <3>1 DEF Operand, Operands
  <2>4. ASSUME ~o.loose, o.inferred # Refused
        PROVE  Alike(o)
    <3>1. a.inferred.form = "perUser" /\ b.inferred = Number
      BY <2>1, <2>4 DEF InferredPercentile, SingleReduced, Kinded
    <3>2. a.read = "perUser" /\ b.read = "number"
      BY <1>1, <2>1, <2>4, <3>1 DEF Sound, Alike, Number, Refused
    <3>. QED BY <2>1, <2>2, <2>4, <3>2 DEF Alike, ReadPercentile, Single
  <2>. QED BY <2>3, <2>4 DEF Sound
<1>3. CASE o = Operand(InferredConcatenate(a.inferred, b.inferred),
                       ReadConcatenate(a.read, b.read), a.loose \/ b.loose \/ SingleJoined(a, b))
  <2>1. /\ o.inferred = InferredConcatenate(a.inferred, b.inferred)
        /\ o.read = ReadConcatenate(a.read, b.read)
        /\ o.loose = (a.loose \/ b.loose \/ SingleJoined(a, b))
    BY <1>3 DEF Operand
  <2>2. o.inferred \in {PerUser(a.inferred.kind), Refused} /\ a.inferred.kind \in Kinds
    BY <1>1, <2>1, InferableForms DEF InferredConcatenate
  <2>3. o \in Operands
    <3>1. o.inferred \in Inferables /\ o.read \in Readables /\ o.loose \in BOOLEAN
      BY <1>1, <2>1, <2>2 DEF ReadConcatenate, SingleJoined, Inferables, Readables, Kinds
    <3>. QED BY <1>3, <2>1, <3>1 DEF Operand, Operands
  <2>4. ASSUME ~o.loose, o.inferred # Refused
        PROVE  Alike(o)
    <3>1. a.inferred.form = "perUser" /\ b.inferred.form = "perUser" /\ ~a.loose /\ ~b.loose
      BY <2>1, <2>4 DEF SingleJoined
    <3>2. a.inferred # Refused /\ b.inferred # Refused
      BY <3>1 DEF Refused
    <3>3. a.read = "perUser" /\ b.read = "perUser"
      BY <1>1, <3>1, <3>2 DEF Sound, Alike
    <3>4. o.read = "perUser" /\ o.inferred.form = "perUser"
      BY <2>1, <2>2, <2>4, <3>3 DEF ReadConcatenate, PerUser
    <3>. QED BY <3>4 DEF Alike
  <2>. QED BY <2>3, <2>4 DEF Sound
<1>4. CASE o = Operand(InferredLeast(a.inferred, b.inferred),
                       ReadLeast(a.read, b.read), a.loose \/ b.loose)
  BY <1>1, <1>4, InferableForms
  DEF Sound, Alike, Operand, Operands, Inferables, Readables, InferredLeast, ReadLeast,
      Spread, Valued, Kinded, Kinds, PerUser, Single, Number, Truth, Refused
<1>5. CASE o = Operand(InferredComparison(a.inferred, b.inferred),
                       ReadComparison(a.read, b.read), a.loose \/ b.loose)
  BY <1>1, <1>5, InferableForms
  DEF Sound, Alike, Operand, Operands, Inferables, Readables, InferredComparison,
      ReadComparison, Spread, Valued, Kinded, Kinds, PerUser, Single, Number, Truth, Refused
<1>6. CASE \E inferred \in {InferredShallowest(a.inferred, b.inferred),
                            InferredSum(a.inferred, b.inferred),
                            InferredDifference(a.inferred, b.inferred),
                            InferredProduct(a.inferred, b.inferred)} :
             o = Operand(inferred, ReadElementwise(a.read, b.read), a.loose \/ b.loose)
  BY <1>6, ElementwiseSound
<1>. QED
  BY <1>2, <1>3, <1>4, <1>5, <1>6 DEF Binary

\* So does a function of three.
LEMMA TernarySound ==
    ASSUME NEW a \in Operands, Sound(a), NEW b \in Operands, Sound(b),
           NEW c \in Operands, Sound(c), NEW o \in Ternary(a, b, c)
    PROVE  o \in Operands /\ Sound(o)
<1>1. /\ a.inferred \in Inferables /\ a.read \in Readables /\ a.loose \in BOOLEAN
      /\ b.inferred \in Inferables /\ b.read \in Readables /\ b.loose \in BOOLEAN
      /\ c.inferred \in Inferables /\ c.read \in Readables /\ c.loose \in BOOLEAN
  BY DEF Operands
<1>2. CASE \E saving, reading \in BOOLEAN :
             o = Operand(InferredClamp(a.inferred, b.inferred, c.inferred, saving),
                         ReadClamp(a.read, b.read, c.read, reading),
                         a.loose \/ b.loose \/ c.loose \/ ~reading)
  <2>1. PICK saving \in BOOLEAN, reading \in BOOLEAN :
          o = Operand(InferredClamp(a.inferred, b.inferred, c.inferred, saving),
                      ReadClamp(a.read, b.read, c.read, reading),
                      a.loose \/ b.loose \/ c.loose \/ ~reading)
    BY <1>2
  <2>2. /\ o.inferred = InferredClamp(a.inferred, b.inferred, c.inferred, saving)
        /\ o.read = ReadClamp(a.read, b.read, c.read, reading)
        /\ o.loose = (a.loose \/ b.loose \/ c.loose \/ ~reading)
    BY <2>1 DEF Operand
  <2>3. o.inferred \in {a.inferred, Number, Refused}
    BY <2>2 DEF InferredClamp
  <2>4. o \in Operands
    <3>1. o.inferred \in Inferables /\ o.read \in Readables /\ o.loose \in BOOLEAN
      BY <1>1, <2>2, <2>3 DEF ReadClamp, Inferables, Readables
    <3>. QED BY <2>1, <2>2, <3>1 DEF Operand, Operands
  <2>5. ASSUME ~o.loose, o.inferred # Refused
        PROVE  Alike(o)
    <3>1. reading /\ ~a.loose /\ ~b.loose /\ ~c.loose
      BY <1>1, <2>2, <2>5
    <3>2. CASE a.inferred = Number /\ b.inferred = Number /\ c.inferred = Number
      <4>1. o.inferred = Number
        BY <2>2, <2>5, <3>2 DEF InferredClamp
      <4>2. a.read = "number" /\ b.read = "number" /\ c.read = "number"
        BY <3>1, <3>2 DEF Sound, Alike, Number, Refused
      <4>. QED BY <2>2, <3>1, <4>1, <4>2 DEF ReadClamp, Alike, Number
    <3>3. CASE ~(a.inferred = Number /\ b.inferred = Number /\ c.inferred = Number)
      <4>1. /\ o.inferred = a.inferred /\ Kinded(a.inferred)
            /\ \A bound \in {b.inferred, c.inferred} : Valued(bound) /\ bound.form # "perUser"
        BY <2>2, <2>5, <3>3 DEF InferredClamp
      <4>2. b.read = "number" /\ c.read = "number"
        BY <3>1, <4>1 DEF Sound, Alike, Valued, Kinded, Number, Refused
      <4>3. \/ a.inferred.form = "perUser" /\ a.read = "perUser"
            \/ a.inferred.form = "single" /\ a.read = "number"
        BY <3>1, <4>1 DEF Sound, Alike, Kinded, Refused
      <4>. QED BY <2>2, <3>1, <4>1, <4>2, <4>3 DEF ReadClamp, Alike
    <3>. QED BY <3>2, <3>3
  <2>. QED BY <2>4, <2>5 DEF Sound
<1>3. CASE o = Operand(InferredWhere(a.inferred, b.inferred, c.inferred),
                       ReadWhere(a.read, b.read, c.read), a.loose \/ b.loose \/ c.loose)
  BY <1>1, <1>3, InferableForms
  DEF Sound, Alike, Operand, Operands, Inferables, Readables, InferredWhere, ReadWhere,
      ReadElementwise, KindedOf, Spread, Valued, Kinded, Kinds, PerUser, Single, Number,
      Truth, Refused
<1>. QED BY <1>2, <1>3 DEF Ternary

\* And so does an if, whichever branch each side runs.
LEMMA BranchingSound ==
    ASSUME NEW c \in Operands, Sound(c), NEW a \in Operands, Sound(a),
           NEW b \in Operands, Sound(b), NEW o \in Branching(c, a, b)
    PROVE  o \in Operands /\ Sound(o)
<1>1. /\ a.inferred \in Inferables /\ a.read \in Readables /\ a.loose \in BOOLEAN
      /\ b.inferred \in Inferables /\ b.read \in Readables /\ b.loose \in BOOLEAN
      /\ c.inferred \in Inferables /\ c.read \in Readables /\ c.loose \in BOOLEAN
  BY DEF Operands
<1>2. PICK c1 \in {a, b}, c2 \in {a, b} :
        o = Operand(IF c.inferred = Truth THEN c1.inferred ELSE Refused,
                    IF c.read = "truth" THEN c2.read ELSE "refused",
                    c.loose \/ a.loose \/ b.loose \/ ~Alike(a) \/ ~Alike(b) \/ a.read # b.read)
  BY DEF Branching
<1>3. /\ o.inferred = IF c.inferred = Truth THEN c1.inferred ELSE Refused
      /\ o.read = IF c.read = "truth" THEN c2.read ELSE "refused"
      /\ o.loose = (c.loose \/ a.loose \/ b.loose \/ ~Alike(a) \/ ~Alike(b) \/ a.read # b.read)
  BY <1>2 DEF Operand
<1>4. o \in Operands
  BY <1>1, <1>2 DEF Operand, Operands, Inferables, Readables, Alike
<1>5. ASSUME ~o.loose, o.inferred # Refused
      PROVE  Alike(o)
  <2>1. c.inferred = Truth /\ c.read = "truth"
    BY <1>1, <1>3, <1>5 DEF Sound, Alike, Truth, Refused
  <2>2. Alike(c1) /\ c2.read = c1.read
    BY <1>2, <1>3, <1>5
  <2>. QED BY <1>3, <2>1, <2>2 DEF Alike
<1>. QED BY <1>4, <1>5 DEF Sound

\* Of every expression: the operands keep their types, and are sound.
THEOREM OperandsAreSound == ExpressionSpec => [](ExpressionTypeOK /\ AllSound)
<1>1. ExpressionInit => ExpressionTypeOK /\ AllSound
  BY DEF ExpressionInit, ExpressionTypeOK, AllSound
<1>2. ASSUME ExpressionTypeOK, AllSound, [ExpressionNext]_pending
      PROVE  ExpressionTypeOK' /\ AllSound'
  <2>. USE <1>2
  <2>1. ASSUME NEW n \in 0..Len(pending), NEW o \in Operands, Sound(o),
               pending' = Append(Below(n), o)
        PROVE  ExpressionTypeOK' /\ AllSound'
    <3>1. /\ Below(n) \in Seq(Operands)
          /\ \A i \in DOMAIN Below(n) : Sound(Below(n)[i])
      BY DEF Below, ExpressionTypeOK, AllSound
    <3>. QED BY <2>1, <3>1 DEF ExpressionTypeOK, AllSound
  <2>2. CASE Push
    <3>1. PICK leaf \in Leaves : pending' = Append(pending, leaf)
      BY <2>2 DEF Push
    <3>2. leaf \in Operands /\ Sound(leaf)
      <4>1. leaf.read \in Readables /\ leaf.loose = FALSE /\ leaf.inferred \in Inferables
        BY <3>1 DEF Leaves, Operand, Inferables, Readables, Kinds
      <4>2. leaf = Operand(leaf.inferred, leaf.read, leaf.loose)
        BY <3>1 DEF Leaves, Operand
      <4>3. Alike(leaf)
        BY <3>1 DEF Leaves, Operand, Alike, PerUser, Single, Number, Truth
      <4>. QED BY <4>1, <4>2, <4>3 DEF Operand, Operands, Sound
    <3>3. Below(0) = pending
      BY DEF Below, ExpressionTypeOK
    <3>. QED BY <2>1, <3>1, <3>2, <3>3 DEF ExpressionTypeOK
  <2>3. CASE Apply
    <3>1. \A k \in 0..2 : Len(pending) > k => Top(k) \in Operands /\ Sound(Top(k))
      BY DEF Top, ExpressionTypeOK, AllSound
    <3>2. CASE Len(pending) >= 1 /\ \E o \in Unary(Top(0)) : pending' = Append(Below(1), o)
      BY <2>1, <3>1, <3>2, UnarySound DEF ExpressionTypeOK
    <3>3. CASE Len(pending) >= 2 /\ \E o \in Binary(Top(1), Top(0)) :
                                      pending' = Append(Below(2), o)
      BY <2>1, <3>1, <3>3, BinarySound DEF ExpressionTypeOK
    <3>4. CASE Len(pending) >= 3 /\ \E o \in Ternary(Top(2), Top(1), Top(0)) :
                                      pending' = Append(Below(3), o)
      BY <2>1, <3>1, <3>4, TernarySound DEF ExpressionTypeOK
    <3>5. CASE Len(pending) >= 3 /\ \E o \in Branching(Top(2), Top(1), Top(0)) :
                                      pending' = Append(Below(3), o)
      BY <2>1, <3>1, <3>5, BranchingSound DEF ExpressionTypeOK
    <3>. QED BY <2>3, <3>2, <3>3, <3>4, <3>5 DEF Apply
  <2>4. CASE UNCHANGED pending
    BY <2>4 DEF ExpressionTypeOK, AllSound
  <2>. QED BY <2>2, <2>3, <2>4 DEF ExpressionNext
<1>. QED BY <1>1, <1>2, PTL DEF ExpressionSpec

\* Whatever is saved as a value by an expression of the forms both tables
\* have is read as a number, where its clamps have bounds in order.
THEOREM SavedIsReadableHolds == ExpressionSpec => []SavedIsReadable
<1>1. ExpressionTypeOK /\ AllSound => SavedIsReadable
  <2>. SUFFICES ASSUME ExpressionTypeOK, AllSound, NEW i \in DOMAIN pending,
                       ~pending[i].loose, Infers(pending[i]), pending[i].inferred # Truth
                PROVE  Evaluates(pending[i])
    BY DEF SavedIsReadable
  <2>1. pending[i] \in Operands /\ Alike(pending[i])
    BY DEF ExpressionTypeOK, AllSound, Sound, Infers, Refused
  <2>2. pending[i].inferred.form # "truth"
    BY <2>1, InferableForms DEF Operands
  <2>. QED BY <2>1, <2>2 DEF Infers, Evaluates, Alike
<1>. QED BY <1>1, OperandsAreSound, PTL

----------------------------------------------------------------------------
(***************************************************************************)
(* That picks stay on the axes they were drawn on while radargrams change  *)
(* their ids, for any radargrams, people, files and axes.                  *)
(*                                                                         *)
(* PlacedOnTheirGrid is not inductive. A sweep takes axes nothing names,   *)
(* and a transfer is of documents that are read and not yet written, so    *)
(* the invariant also has what a viewer has open, what the transfer in     *)
(* hand is about to write, and what it still has to copy before it does.   *)
(***************************************************************************)
Grids == {AxesOf[c] : c \in Contents} \cup {Missing}
Ages == {"unknown", "current", "ended", "long ended"}
Document == [work : Nat, revision : Revision]
Page == [on : RadargramIds, revision : Revision, picks : Document \cup {Missing}]
Shelved == [on : RadargramIds, by : Pickers, picks : Document]
Pendings == UNION {[S -> Document] : S \in SUBSET Pickers}
Moving == [phase : {"moving"}, from : RadargramIds, to : RadargramIds, remove : BOOLEAN,
           pending : Pendings,
           needed : SUBSET Revision, moved : SUBSET Nat, occupied : SUBSET Pickers]

IdTypeOK ==
    /\ serving \in [RadargramIds -> Contents \cup {Missing}]
    /\ axes \in [RadargramIds -> [Revision -> Grids]]
    /\ history \in [RadargramIds -> [Revision -> Ages]]
    /\ picks \in [RadargramIds -> [Pickers -> Document \cup {Missing}]]
    /\ shelf \in SUBSET Shelved
    /\ drawn \in Seq(Grids)
    /\ pages \in [Pickers -> Page \cup {Missing}]

(* The axes kept under a revision are its own.                             *)
KeptAreIts ==
    \A i \in RadargramIds, r \in Revision : axes[i][r] \in {Missing, AxesOf[r.contents]}

(* The axes of a file are kept, if it declares any.                        *)
IsKept(i, r) == AxesOf[r.contents] = Missing \/ axes[i][r] = AxesOf[r.contents]

(* What a document says of where it was drawn is so.                       *)
IsTrue(document) ==
    /\ document.work \in 1 .. Len(drawn)
    /\ drawn[document.work] = AxesOf[document.revision.contents]

DocumentsHaveAxes ==
    /\ \A i \in RadargramIds, u \in Pickers :
          picks[i][u] # Missing => IsTrue(picks[i][u]) /\ HasAxes(i, picks[i][u].revision)
    /\ \A a \in shelf : IsTrue(a.picks) /\ HasAxes(a.on, a.picks.revision)

(* A viewer's revision has its axes, and no sweep takes them: it is the one *)
(* that is served, or the ledger has it and has not had it ended for long.  *)
PagesHaveAxes ==
    \A u \in Pickers : pages[u] # Missing =>
       LET i == pages[u].on  r == pages[u].revision
       IN  /\ HasAxes(i, r)
           /\ \/ serving[i] # Missing /\ r = Current(i)
              \/ history[i][r] \in {"current", "ended"}

(* A transfer's documents are true, and the axes each will need are there   *)
(* or among those still to copy, which the old radargram has.               *)
TransferIsReady ==
    hold.phase = "moving" =>
       /\ hold \in Moving
       /\ serving[hold.from] # Missing /\ serving[hold.to] # Missing
       /\ IsKept(hold.from, Current(hold.from))
       /\ \A u \in DOMAIN hold.pending :
             LET r == hold.pending[u].revision
             IN  IsTrue(hold.pending[u]) /\ (HasAxes(hold.to, r) \/ r \in hold.needed)
       /\ \A r \in hold.needed : IsKept(hold.from, r)

RemovalIsReady ==
    hold.phase = "removing" =>
       /\ hold.from \in RadargramIds /\ serving[hold.from] # Missing
       /\ IsKept(hold.from, Current(hold.from))

IInv ==
    /\ IdTypeOK /\ KeptAreIts /\ DocumentsHaveAxes /\ PagesHaveAxes
    /\ TransferIsReady /\ RemovalIsReady

(* Axes that r has under i if i's file, the axes kept and the ledger are as *)
(* they are given to a discovery.                                          *)
Had(now, stored, i, r) ==
    \/ AxesOf[r.contents] = Missing
    \/ stored[i][r] = AxesOf[r.contents]
    \/ now[i] # Missing /\ r = Rev(i, now[i])

-----------------------------------------------------------------------------

LEMMA RevOfContents ==
    ASSUME NEW i \in RadargramIds, NEW c \in Contents
    PROVE  Rev(i, c) \in Revision /\ Rev(i, c).contents = c
BY DEF Rev, Revision

LEMMA NotedAges ==
    ASSUME NEW ages \in [Revision -> Ages], NEW r \in Revision
    PROVE  /\ Noted(ages, r) \in [Revision -> Ages]
           /\ \A q \in Revision : ages[q] # "unknown" => Noted(ages, r)[q] = ages[q]
BY DEF Noted, Ages

LEMMA DiscoveredAges ==
    ASSUME NEW ages \in [Revision -> Ages], NEW r \in Revision
    PROVE  /\ Discovered(ages, r) \in [Revision -> Ages]
           /\ \A q \in Revision : ages[q] \in {"current", "ended"} =>
                                   Discovered(ages, r)[q] \in {"current", "ended"}
<1>1. ASSUME NEW q \in Revision
      PROVE  /\ Discovered(ages, r)[q] \in Ages
             /\ ages[q] \in {"current", "ended"} => Discovered(ages, r)[q] \in {"current", "ended"}
  <2>1. Discovered(ages, r)[q] =
           IF q # r /\ ages[q] = "current" THEN "ended" ELSE Noted(ages, r)[q]
    BY DEF Discovered
  <2> QED BY <2>1, NotedAges DEF Ages
<1>2. Discovered(ages, r) = [q \in Revision |-> Discovered(ages, r)[q]]
    BY DEF Discovered
<1> QED BY <1>1, <1>2

(* What a discovery does to what it is given: it notes revisions, and keeps *)
(* and sweeps axes, but none a document names, a file has or the ledger has *)
(* not had ended for long.                                                 *)
LEMMA WhatDiscoveryDoes ==
    ASSUME NEW now \in [RadargramIds -> Contents \cup {Missing}],
           NEW stored \in [RadargramIds -> [Revision -> Grids]],
           NEW ages \in [RadargramIds -> [Revision -> Ages]], NEW startup,
           \A i \in RadargramIds, r \in Revision : stored[i][r] \in {Missing, AxesOf[r.contents]},
           Rediscovers(now, stored, ages, startup)
    PROVE  /\ serving' = now
           /\ history' \in [RadargramIds -> [Revision -> Ages]]
           /\ axes' \in [RadargramIds -> [Revision -> Grids]]
           /\ KeptAreIts'
           /\ \A i \in RadargramIds, r \in Revision :
                 /\ ages[i][r] \in {"current", "ended"} => history'[i][r] \in {"current", "ended"}
                 /\ \/ axes'[i][r] = stored[i][r]
                    \/ stored[i][r] = Missing
                    \/ /\ r \notin NamedOn(i) /\ history'[i][r] = "long ended"
                       /\ ~(now[i] # Missing /\ r = Rev(i, now[i]))
<1> DEFINE Declares(i) == now[i] # Missing /\ AxesOf[now[i]] # Missing
           new == {i \in RadargramIds : Declares(i) /\ stored[i][Rev(i, now[i])] = Missing}
<1>1. PICK fails \in SUBSET new :
          /\ serving' = now
          /\ history' = [i \in RadargramIds |->
               IF now[i] = Missing THEN ages[i] ELSE Discovered(ages[i], Rev(i, now[i]))]
          /\ axes' = [i \in RadargramIds |->
               LET more == IF i \in new \ fails
                           THEN [stored[i] EXCEPT ![Rev(i, now[i])] = AxesOf[now[i]]]
                           ELSE stored[i]
               IN  IF startup \/ i \in new \ fails
                   THEN SweptOf(i, more, history'[i], Rev(i, now[i]))
                   ELSE more]
    BY DEF Rediscovers
<1> DEFINE more(i) == IF i \in new \ fails
                      THEN [stored[i] EXCEPT ![Rev(i, now[i])] = AxesOf[now[i]]]
                      ELSE stored[i]
<1>2. ASSUME NEW i \in RadargramIds, NEW r \in Revision
      PROVE  ages[i][r] \in {"current", "ended"} => history'[i][r] \in {"current", "ended"}
  <2>1. CASE now[i] = Missing BY <1>1, <1>2, <2>1
  <2>2. CASE now[i] # Missing
    <3>1. history'[i] = Discovered(ages[i], Rev(i, now[i])) BY <1>1, <1>2, <2>2
    <3>2. Rev(i, now[i]) \in Revision BY <2>2, <1>2, RevOfContents
    <3> QED BY <3>1, <3>2, <1>2, DiscoveredAges
  <2> QED BY <2>1, <2>2
<1>3. history' \in [RadargramIds -> [Revision -> Ages]]
  <2>1. ASSUME NEW i \in RadargramIds PROVE history'[i] \in [Revision -> Ages]
    <3>1. CASE now[i] = Missing BY <1>1, <3>1, <2>1
    <3>2. CASE now[i] # Missing
      <4>1. history'[i] = Discovered(ages[i], Rev(i, now[i])) BY <1>1, <3>2, <2>1
      <4>2. Rev(i, now[i]) \in Revision BY <3>2, <2>1, RevOfContents
      <4> QED BY <4>1, <4>2, <2>1, DiscoveredAges
    <3> QED BY <3>1, <3>2
  <2>2. history' = [i \in RadargramIds |-> history'[i]] BY <1>1
  <2> QED BY <2>1, <2>2
<1>4. ASSUME NEW i \in RadargramIds
      PROVE  /\ more(i) \in [Revision -> Grids]
             /\ \A r \in Revision : /\ more(i)[r] \in {Missing, AxesOf[r.contents]}
                                    /\ more(i)[r] = stored[i][r] \/ stored[i][r] = Missing
  <2>1. CASE i \in new \ fails
    <3>1. now[i] \in Contents /\ stored[i][Rev(i, now[i])] = Missing BY <2>1, <1>4
    <3>2. Rev(i, now[i]) \in Revision /\ Rev(i, now[i]).contents = now[i] BY <3>1, <1>4, RevOfContents
    <3>3. AxesOf[now[i]] \in Grids BY <3>1 DEF Grids
    <3>4. more(i) = [stored[i] EXCEPT ![Rev(i, now[i])] = AxesOf[now[i]]] BY <2>1
    <3> HIDE DEF more, new
    <3> QED BY <3>1, <3>2, <3>3, <3>4, <1>4
  <2>2. CASE i \notin new \ fails BY <2>2, <1>4
  <2> QED BY <2>1, <2>2
<1>5. ASSUME NEW i \in RadargramIds
      PROVE  axes'[i] \in {more(i), SweptOf(i, more(i), history'[i], Rev(i, now[i]))}
    BY <1>1, <1>5
<1> HIDE DEF more, new
<1>6. ASSUME NEW i \in RadargramIds PROVE axes'[i] \in [Revision -> Grids]
  <2>1. Missing \in Grids BY DEF Grids
  <2>2. CASE axes'[i] = more(i) BY <2>2, <1>4, <1>6
  <2>3. CASE axes'[i] = SweptOf(i, more(i), history'[i], Rev(i, now[i]))
    <3>1. axes'[i] = [r \in Revision |->
             IF r # Rev(i, now[i]) /\ r \notin NamedOn(i) /\ history'[i][r] = "long ended"
             THEN Missing ELSE more(i)[r]]
      BY <2>3 DEF SweptOf
    <3> QED BY <3>1, <2>1, <1>4, <1>6
  <2> QED BY <2>2, <2>3, <1>5, <1>6
<1>7. axes' \in [RadargramIds -> [Revision -> Grids]]
  <2>1. axes' = [i \in RadargramIds |-> axes'[i]] BY <1>1
  <2> QED BY <1>6, <2>1
<1>8. ASSUME NEW i \in RadargramIds, NEW r \in Revision
      PROVE  \/ axes'[i][r] = more(i)[r]
             \/ /\ axes'[i][r] = Missing
                /\ r \notin NamedOn(i) /\ history'[i][r] = "long ended" /\ r # Rev(i, now[i])
  <2>1. CASE axes'[i] = more(i) BY <2>1
  <2>2. CASE axes'[i] = SweptOf(i, more(i), history'[i], Rev(i, now[i]))
    <3>1. axes'[i][r] = IF r # Rev(i, now[i]) /\ r \notin NamedOn(i) /\ history'[i][r] = "long ended"
                        THEN Missing ELSE more(i)[r]
      BY <2>2, <1>8 DEF SweptOf
    <3> QED BY <3>1
  <2> QED BY <2>1, <2>2, <1>5, <1>8
<1>9. KeptAreIts'
  <2>1. ASSUME NEW i \in RadargramIds, NEW r \in Revision
        PROVE axes'[i][r] \in {Missing, AxesOf[r.contents]}
    BY <1>4, <1>8, <2>1
  <2> QED BY <2>1 DEF KeptAreIts
<1>10. ASSUME NEW i \in RadargramIds, NEW r \in Revision
       PROVE  \/ axes'[i][r] = stored[i][r]
              \/ stored[i][r] = Missing
              \/ /\ r \notin NamedOn(i) /\ history'[i][r] = "long ended"
                 /\ ~(now[i] # Missing /\ r = Rev(i, now[i]))
    BY <1>4, <1>8, <1>10
<1> QED BY <1>1, <1>2, <1>3, <1>7, <1>9, <1>10

(* A discovery that is given the axes of whatever has any, and under the    *)
(* lifecycle lock nobody holds any more after it, keeps the invariant.      *)
LEMMA DiscoveryKeepsInv ==
    ASSUME IInv,
           NEW now \in [RadargramIds -> Contents \cup {Missing}],
           NEW stored \in [RadargramIds -> [Revision -> Grids]],
           NEW ages \in [RadargramIds -> [Revision -> Ages]], NEW startup,
           \A i \in RadargramIds, r \in Revision : stored[i][r] \in {Missing, AxesOf[r.contents]},
           \A i \in RadargramIds, r \in Revision : HasAxes(i, r) => Had(now, stored, i, r),
           \A i \in RadargramIds, r \in Revision :
              \/ serving[i] # Missing /\ r = Current(i)
              \/ history[i][r] \in {"current", "ended"}
              => \/ now[i] # Missing /\ r = Rev(i, now[i])
                 \/ ages[i][r] \in {"current", "ended"},
           Rediscovers(now, stored, ages, startup),
           UNCHANGED <<picks, shelf, drawn, pages>>, hold' = NotHeld
    PROVE  IInv'
<1>1. /\ serving' = now
      /\ history' \in [RadargramIds -> [Revision -> Ages]]
      /\ axes' \in [RadargramIds -> [Revision -> Grids]]
      /\ KeptAreIts'
      /\ \A i \in RadargramIds, r \in Revision :
            /\ ages[i][r] \in {"current", "ended"} => history'[i][r] \in {"current", "ended"}
            /\ \/ axes'[i][r] = stored[i][r]
               \/ stored[i][r] = Missing
               \/ /\ r \notin NamedOn(i) /\ history'[i][r] = "long ended"
                  /\ ~(now[i] # Missing /\ r = Rev(i, now[i]))
    BY WhatDiscoveryDoes
<1>2. IdTypeOK' BY <1>1 DEF IInv, IdTypeOK
<1>3. ASSUME NEW i \in RadargramIds, NEW r \in Revision, HasAxes(i, r),
             \/ r \in NamedOn(i)
             \/ history'[i][r] # "long ended"
             \/ now[i] # Missing /\ r = Rev(i, now[i])
      PROVE  HasAxes(i, r)'
    BY <1>1, <1>3 DEF Had, HasAxes, Current
<1>4. DocumentsHaveAxes'
  <2>1. ASSUME NEW i \in RadargramIds, NEW u \in Pickers, picks[i][u] # Missing
        PROVE  IsTrue(picks[i][u])' /\ HasAxes(i, picks[i][u].revision)'
    <3>1. picks[i][u] \in Document BY <2>1 DEF IInv, IdTypeOK
    <3>2. picks[i][u].revision \in Revision BY <3>1 DEF Document
    <3>3. picks[i][u].revision \in NamedOn(i) BY <2>1 DEF NamedOn, On
    <3>4. IsTrue(picks[i][u]) /\ HasAxes(i, picks[i][u].revision)
      BY <2>1 DEF IInv, DocumentsHaveAxes
    <3>5. HasAxes(i, picks[i][u].revision)' BY <1>3, <3>2, <3>3, <3>4
    <3> QED BY <3>4, <3>5 DEF IsTrue
  <2>2. ASSUME NEW a \in shelf
        PROVE  IsTrue(a.picks)' /\ HasAxes(a.on, a.picks.revision)'
    <3>1. a \in Shelved BY DEF IInv, IdTypeOK
    <3>2. a.on \in RadargramIds /\ a.picks.revision \in Revision BY <3>1 DEF Shelved, Document
    <3>3. a.picks.revision \in NamedOn(a.on) BY DEF NamedOn
    <3>4. IsTrue(a.picks) /\ HasAxes(a.on, a.picks.revision)
      BY DEF IInv, DocumentsHaveAxes
    <3>5. HasAxes(a.on, a.picks.revision)' BY <1>3, <3>2, <3>3, <3>4
    <3> QED BY <3>4, <3>5 DEF IsTrue
  <2> QED BY <2>1, <2>2 DEF DocumentsHaveAxes
<1>5. PagesHaveAxes'
  <2>1. ASSUME NEW u \in Pickers, pages[u] # Missing
        PROVE  /\ HasAxes(pages[u].on, pages[u].revision)'
               /\ \/ serving'[pages[u].on] # Missing /\ pages[u].revision = Current(pages[u].on)'
                  \/ history'[pages[u].on][pages[u].revision] \in {"current", "ended"}
    <3>1. pages[u] \in Page BY <2>1 DEF IInv, IdTypeOK
    <3>2. PICK i \in RadargramIds, r \in Revision : i = pages[u].on /\ r = pages[u].revision
      BY <3>1 DEF Page
    <3>3. /\ HasAxes(i, r)
          /\ \/ serving[i] # Missing /\ r = Current(i)
             \/ history[i][r] \in {"current", "ended"}
      BY <2>1, <3>2 DEF IInv, PagesHaveAxes
    <3>4. \/ now[i] # Missing /\ r = Rev(i, now[i])
          \/ history'[i][r] \in {"current", "ended"}
      BY <1>1, <3>3
    <3>5. HasAxes(i, r)' BY <1>3, <3>3, <3>4
    <3>6. \/ serving'[i] # Missing /\ r = Current(i)'
          \/ history'[i][r] \in {"current", "ended"}
      BY <1>1, <3>4 DEF Current
    <3> QED BY <3>2, <3>5, <3>6
  <2> QED BY <2>1 DEF PagesHaveAxes
<1>6. TransferIsReady' /\ RemovalIsReady'
    BY DEF TransferIsReady, RemovalIsReady, NotHeld
<1> QED BY <1>1, <1>2, <1>4, <1>5, <1>6 DEF IInv

(* Keeping a file's axes adds them and takes none.                         *)
LEMMA KeepingAxes ==
    ASSUME IInv, NEW i \in RadargramIds, serving[i] # Missing, CanKeepAxes(i)
    PROVE  /\ WithAxes(i) \in [Revision -> Grids]
           /\ \A r \in Revision : /\ WithAxes(i)[r] \in {Missing, AxesOf[r.contents]}
                                  /\ WithAxes(i)[r] = axes[i][r] \/ axes[i][r] = Missing
           /\ AxesOf[serving[i]] = Missing \/ WithAxes(i)[Current(i)] = AxesOf[serving[i]]
           /\ WithNote(i) \in [Revision -> Ages]
           /\ \A r \in Revision : history[i][r] \in {"current", "ended"} =>
                                  WithNote(i)[r] = history[i][r]
<1>1. serving[i] \in Contents BY DEF IInv, IdTypeOK
<1>2. Current(i) \in Revision /\ Current(i).contents = serving[i]
    BY <1>1, RevOfContents DEF Current
<1>3. axes[i] \in [Revision -> Grids] /\ history[i] \in [Revision -> Ages]
    BY DEF IInv, IdTypeOK
<1>4. \A r \in Revision : axes[i][r] \in {Missing, AxesOf[r.contents]}
    BY DEF IInv, KeptAreIts
<1>5. AxesOf[serving[i]] \in Grids BY <1>1 DEF Grids
<1>6. CASE AxesOf[serving[i]] = Missing
    BY <1>3, <1>4, <1>6 DEF WithAxes, WithNote
<1>7. CASE AxesOf[serving[i]] # Missing
  <2>1. /\ WithAxes(i) = [axes[i] EXCEPT ![Current(i)] = AxesOf[serving[i]]]
        /\ WithNote(i) = Noted(history[i], Current(i))
    BY <1>7 DEF WithAxes, WithNote
  <2>2. axes[i][Current(i)] \in {Missing, AxesOf[serving[i]]} BY <1>7 DEF CanKeepAxes
  <2>3. /\ WithNote(i) \in [Revision -> Ages]
        /\ \A r \in Revision : history[i][r] \in {"current", "ended"} =>
                               WithNote(i)[r] = history[i][r]
    BY <2>1, <1>2, <1>3, NotedAges
  <2>4. WithAxes(i) \in [Revision -> Grids] BY <2>1, <1>2, <1>3, <1>5
  <2>5. ASSUME NEW r \in Revision
        PROVE  /\ WithAxes(i)[r] \in {Missing, AxesOf[r.contents]}
               /\ WithAxes(i)[r] = axes[i][r] \/ axes[i][r] = Missing
    <3>1. CASE r = Current(i) BY <3>1, <2>1, <2>2, <1>2, <1>3
    <3>2. CASE r # Current(i) BY <3>2, <2>1, <1>2, <1>3, <1>4
    <3> QED BY <3>1, <3>2
  <2>6. WithAxes(i)[Current(i)] = AxesOf[serving[i]] BY <2>1, <1>2, <1>3
  <2> QED BY <2>3, <2>4, <2>5, <2>6
<1> QED BY <1>6, <1>7

-----------------------------------------------------------------------------
(* The actions that discover the catalog anew.                             *)

LEMMA CopiesKeep ==
    ASSUME IInv, NEW from \in RadargramIds, NEW to \in RadargramIds, CopiesRadargram(from, to)
    PROVE  IInv'
<1> DEFINE now  == [serving EXCEPT ![to] = serving[from]]
           ages == [history EXCEPT ![to][Rev(to, serving[from])] = "current"]
<1>1. /\ serving \in [RadargramIds -> Contents \cup {Missing}]
      /\ axes \in [RadargramIds -> [Revision -> Grids]]
      /\ history \in [RadargramIds -> [Revision -> Ages]]
    BY DEF IInv, IdTypeOK
<1>2. /\ hold = NotHeld /\ serving[from] # Missing /\ serving[to] = Missing
      /\ Rediscovers(now, axes, ages, FALSE)
      /\ UNCHANGED <<picks, shelf, drawn, pages, hold>>
    BY DEF CopiesRadargram
<1>3. Rev(to, serving[from]) \in Revision BY <1>1, <1>2, RevOfContents
<1>4. now \in [RadargramIds -> Contents \cup {Missing}] BY <1>1
<1>5. /\ ages \in [RadargramIds -> [Revision -> Ages]]
      /\ \A i \in RadargramIds, r \in Revision :
            history[i][r] \in {"current", "ended"} => ages[i][r] \in {"current", "ended"}
    BY <1>1, <1>3 DEF Ages
<1>6. \A i \in RadargramIds : serving[i] # Missing => now[i] = serving[i] BY <1>1, <1>2
<1>7. \A i \in RadargramIds, r \in Revision : HasAxes(i, r) => Had(now, axes, i, r)
    BY <1>6 DEF HasAxes, Had, Current
<1>8. \A i \in RadargramIds, r \in Revision :
         \/ serving[i] # Missing /\ r = Current(i)
         \/ history[i][r] \in {"current", "ended"}
         => \/ now[i] # Missing /\ r = Rev(i, now[i])
            \/ ages[i][r] \in {"current", "ended"}
    BY <1>5, <1>6 DEF Current
<1>9. \A i \in RadargramIds, r \in Revision : axes[i][r] \in {Missing, AxesOf[r.contents]}
    BY DEF IInv, KeptAreIts
<1> HIDE DEF now, ages
<1> QED BY <1>1, <1>2, <1>4, <1>5, <1>7, <1>8, <1>9, DiscoveryKeepsInv

LEMMA ReplaceKeeps ==
    ASSUME IInv, NEW j \in RadargramIds, NEW c \in Contents, ReplacesFile(j, c)
    PROVE  IInv'
<1> DEFINE now  == [serving EXCEPT ![j] = c]
           stored == [axes EXCEPT ![j] = WithAxes(j)]
           past == [WithNote(j) EXCEPT ![Current(j)] = "ended"]
           ages == [history EXCEPT ![j] = Noted(past, Rev(j, c))]
<1>1. /\ serving \in [RadargramIds -> Contents \cup {Missing}]
      /\ axes \in [RadargramIds -> [Revision -> Grids]]
      /\ history \in [RadargramIds -> [Revision -> Ages]]
    BY DEF IInv, IdTypeOK
<1>2. /\ hold = NotHeld /\ serving[j] # Missing /\ serving[j] # c /\ CanKeepAxes(j)
      /\ Rediscovers(now, stored, ages, FALSE)
      /\ UNCHANGED <<picks, shelf, drawn, pages, hold>>
    BY DEF ReplacesFile
<1>3. /\ WithAxes(j) \in [Revision -> Grids]
      /\ \A r \in Revision : /\ WithAxes(j)[r] \in {Missing, AxesOf[r.contents]}
                             /\ WithAxes(j)[r] = axes[j][r] \/ axes[j][r] = Missing
      /\ AxesOf[serving[j]] = Missing \/ WithAxes(j)[Current(j)] = AxesOf[serving[j]]
      /\ WithNote(j) \in [Revision -> Ages]
      /\ \A r \in Revision : history[j][r] \in {"current", "ended"} =>
                             WithNote(j)[r] = history[j][r]
    BY <1>2, KeepingAxes
<1>4. /\ Current(j) \in Revision /\ Current(j).contents = serving[j]
      /\ Rev(j, c) \in Revision
    BY <1>1, <1>2, RevOfContents DEF Current
<1>5. now \in [RadargramIds -> Contents \cup {Missing}] BY <1>1
<1>6. stored \in [RadargramIds -> [Revision -> Grids]] BY <1>1, <1>3
<1>7. /\ past \in [Revision -> Ages]
      /\ \A r \in Revision : r = Current(j) \/ history[j][r] \in {"current", "ended"} =>
                             past[r] \in {"current", "ended"}
    BY <1>3, <1>4 DEF Ages
<1> HIDE DEF past
<1>8. /\ Noted(past, Rev(j, c)) \in [Revision -> Ages]
      /\ \A r \in Revision : r = Current(j) \/ history[j][r] \in {"current", "ended"} =>
                             Noted(past, Rev(j, c))[r] \in {"current", "ended"}
    BY <1>4, <1>7, NotedAges
<1>9. ages \in [RadargramIds -> [Revision -> Ages]] BY <1>1, <1>8
<1>10. \A i \in RadargramIds, r \in Revision : stored[i][r] \in {Missing, AxesOf[r.contents]}
    BY <1>1, <1>3 DEF IInv, KeptAreIts
<1>11. ASSUME NEW i \in RadargramIds, NEW r \in Revision, HasAxes(i, r)
       PROVE  Had(now, stored, i, r)
  <2>1. CASE i = j BY <2>1, <1>1, <1>3, <1>4, <1>11 DEF HasAxes, Had
  <2>2. CASE i # j
    <3>1. now[i] = serving[i] /\ stored[i] = axes[i] BY <2>2, <1>1, <1>11
    <3> QED BY <3>1, <1>11 DEF HasAxes, Had, Current
  <2> QED BY <2>1, <2>2
<1>12. ASSUME NEW i \in RadargramIds, NEW r \in Revision,
              \/ serving[i] # Missing /\ r = Current(i)
              \/ history[i][r] \in {"current", "ended"}
       PROVE  \/ now[i] # Missing /\ r = Rev(i, now[i])
              \/ ages[i][r] \in {"current", "ended"}
  <2>1. CASE i = j BY <2>1, <1>1, <1>8, <1>12
  <2>2. CASE i # j
    <3>1. now[i] = serving[i] /\ ages[i] = history[i] BY <2>2, <1>1, <1>12
    <3> QED BY <3>1, <1>12 DEF Current
  <2> QED BY <2>1, <2>2
<1> HIDE DEF now, stored, ages
<1> QED BY <1>2, <1>5, <1>6, <1>9, <1>10, <1>11, <1>12, DiscoveryKeepsInv

LEMMA UnlinkKeeps ==
    ASSUME IInv, RemovalUnlinks
    PROVE  IInv'
<1> DEFINE j    == hold.from
           now  == [serving EXCEPT ![hold.from] = Missing]
           ages == [history EXCEPT ![hold.from][Current(hold.from)] = "ended"]
<1>1. /\ serving \in [RadargramIds -> Contents \cup {Missing}]
      /\ axes \in [RadargramIds -> [Revision -> Grids]]
      /\ history \in [RadargramIds -> [Revision -> Ages]]
    BY DEF IInv, IdTypeOK
<1>2. /\ hold.phase = "removing" /\ Rediscovers(now, axes, ages, FALSE)
      /\ hold' = NotHeld /\ UNCHANGED <<picks, shelf, drawn, pages>>
    BY DEF RemovalUnlinks
<1>3. j \in RadargramIds /\ serving[j] # Missing /\ IsKept(j, Current(j))
    BY <1>2 DEF IInv, RemovalIsReady
<1>4. Current(j) \in Revision BY <1>1, <1>3, RevOfContents DEF Current
<1>5. now \in [RadargramIds -> Contents \cup {Missing}] BY <1>1
<1>6. ages \in [RadargramIds -> [Revision -> Ages]] BY <1>1, <1>3, <1>4 DEF Ages
<1>7. ASSUME NEW i \in RadargramIds, NEW r \in Revision, HasAxes(i, r)
      PROVE  Had(now, axes, i, r)
  <2>1. CASE i = j /\ r = Current(i) BY <2>1, <1>3 DEF IsKept, Had
  <2>2. CASE i # j \/ r # Current(i)
    <3>1. i # j => now[i] = serving[i] BY <1>1, <1>7
    <3> QED BY <2>2, <3>1, <1>7 DEF HasAxes, Had, Current
  <2> QED BY <2>1, <2>2
<1>8. ASSUME NEW i \in RadargramIds, NEW r \in Revision,
             \/ serving[i] # Missing /\ r = Current(i)
             \/ history[i][r] \in {"current", "ended"}
      PROVE  \/ now[i] # Missing /\ r = Rev(i, now[i])
             \/ ages[i][r] \in {"current", "ended"}
  <2>1. CASE i = j BY <2>1, <1>1, <1>4, <1>8
  <2>2. CASE i # j
    <3>1. now[i] = serving[i] /\ ages[i] = history[i] BY <2>2, <1>1, <1>8
    <3> QED BY <3>1, <1>8 DEF Current
  <2> QED BY <2>1, <2>2
<1>9. \A i \in RadargramIds, r \in Revision : axes[i][r] \in {Missing, AxesOf[r.contents]}
    BY DEF IInv, KeptAreIts
<1> HIDE DEF now, ages
<1> QED BY <1>1, <1>2, <1>5, <1>6, <1>7, <1>8, <1>9, DiscoveryKeepsInv

LEMMA RestartKeeps ==
    ASSUME IInv, ServerRestarts
    PROVE  IInv'
<1>1. /\ serving \in [RadargramIds -> Contents \cup {Missing}]
      /\ axes \in [RadargramIds -> [Revision -> Grids]]
      /\ history \in [RadargramIds -> [Revision -> Ages]]
      /\ \A i \in RadargramIds, r \in Revision : axes[i][r] \in {Missing, AxesOf[r.contents]}
    BY DEF IInv, IdTypeOK, KeptAreIts
<1>2. \A i \in RadargramIds, r \in Revision : HasAxes(i, r) => Had(serving, axes, i, r)
    BY DEF HasAxes, Had, Current
<1>3. /\ Rediscovers(serving, axes, history, TRUE) /\ hold' = NotHeld
      /\ UNCHANGED <<picks, shelf, drawn, pages>>
    BY DEF ServerRestarts
<1>4. \A i \in RadargramIds, r \in Revision :
         \/ serving[i] # Missing /\ r = Current(i)
         \/ history[i][r] \in {"current", "ended"}
         => \/ serving[i] # Missing /\ r = Rev(i, serving[i])
            \/ history[i][r] \in {"current", "ended"}
    BY DEF Current
<1> QED BY <1>1, <1>2, <1>3, <1>4, DiscoveryKeepsInv

-----------------------------------------------------------------------------
(* The actions under the lock.                                             *)

(* Where the files are the same, axes are only added and the ledger ends   *)
(* nothing a viewer has, documents and viewers keep what they have.        *)
LEMMA AddingAxesKeeps ==
    ASSUME IInv, UNCHANGED <<serving, picks, shelf, drawn, pages>>,
           \A i \in RadargramIds, r \in Revision :
              /\ axes[i][r] = AxesOf[r.contents] => axes'[i][r] = AxesOf[r.contents]
              /\ history[i][r] \in {"current", "ended"} => history'[i][r] \in {"current", "ended"}
    PROVE  /\ DocumentsHaveAxes' /\ PagesHaveAxes'
           /\ \A i \in RadargramIds, r \in Revision : HasAxes(i, r) => HasAxes(i, r)'
<1>1. \A i \in RadargramIds, r \in Revision : HasAxes(i, r) => HasAxes(i, r)'
    BY DEF HasAxes, Current
<1>2. DocumentsHaveAxes'
  <2>1. ASSUME NEW i \in RadargramIds, NEW u \in Pickers, picks[i][u] # Missing
        PROVE  IsTrue(picks[i][u])' /\ HasAxes(i, picks[i][u].revision)'
    <3>1. picks[i][u].revision \in Revision BY <2>1 DEF IInv, IdTypeOK, Document
    <3>2. IsTrue(picks[i][u]) /\ HasAxes(i, picks[i][u].revision)
      BY <2>1 DEF IInv, DocumentsHaveAxes
    <3>3. HasAxes(i, picks[i][u].revision)' BY <1>1, <3>1, <3>2
    <3> QED BY <3>2, <3>3 DEF IsTrue
  <2>2. ASSUME NEW a \in shelf
        PROVE  IsTrue(a.picks)' /\ HasAxes(a.on, a.picks.revision)'
    <3>1. a.on \in RadargramIds /\ a.picks.revision \in Revision
      BY DEF IInv, IdTypeOK, Shelved, Document
    <3>2. IsTrue(a.picks) /\ HasAxes(a.on, a.picks.revision) BY DEF IInv, DocumentsHaveAxes
    <3>3. HasAxes(a.on, a.picks.revision)' BY <1>1, <3>1, <3>2
    <3> QED BY <3>2, <3>3 DEF IsTrue
  <2> QED BY <2>1, <2>2 DEF DocumentsHaveAxes
<1>3. PagesHaveAxes'
  <2>1. ASSUME NEW u \in Pickers, pages[u] # Missing
        PROVE  /\ HasAxes(pages[u].on, pages[u].revision)'
               /\ \/ serving'[pages[u].on] # Missing /\ pages[u].revision = Current(pages[u].on)'
                  \/ history'[pages[u].on][pages[u].revision] \in {"current", "ended"}
    <3>1. pages[u] \in Page BY <2>1 DEF IInv, IdTypeOK
    <3>2. PICK i \in RadargramIds, r \in Revision : i = pages[u].on /\ r = pages[u].revision
      BY <3>1 DEF Page
    <3>3. /\ HasAxes(i, r)
          /\ \/ serving[i] # Missing /\ r = Current(i)
             \/ history[i][r] \in {"current", "ended"}
      BY <2>1, <3>2 DEF IInv, PagesHaveAxes
    <3>4. HasAxes(i, r)' BY <1>1, <3>3
    <3>5. \/ serving'[i] # Missing /\ r = Current(i)'
          \/ history'[i][r] \in {"current", "ended"}
      BY <3>3 DEF Current
    <3> QED BY <3>2, <3>4, <3>5
  <2> QED BY <2>1 DEF PagesHaveAxes
<1> QED BY <1>1, <1>2, <1>3

LEMMA TransferBeginsKeeps ==
    ASSUME IInv, NEW from \in RadargramIds, NEW to \in RadargramIds, NEW remove \in BOOLEAN,
           TransferBegins(from, to, remove)
    PROVE  IInv'
<1> DEFINE documents == [u \in On(from) |-> Rewritten(picks[from][u], from, to)]
           needed == {documents[u].revision : u \in On(from)} \ {Current(to)}
<1>1. /\ from # to /\ serving[from] # Missing /\ serving[to] # Missing
      /\ CanKeepAxes(from) /\ CanKeepAxes(to)
      /\ axes' = [axes EXCEPT ![from] = WithAxes(from), ![to] = WithAxes(to)]
      /\ history' = [history EXCEPT ![from] = WithNote(from), ![to] = WithNote(to)]
      /\ hold' = [phase |-> "moving", from |-> from, to |-> to, remove |-> remove,
                  pending |-> documents, needed |-> needed, moved |-> {}, occupied |-> {}]
      /\ UNCHANGED <<serving, picks, shelf, drawn, pages>>
    BY DEF TransferBegins
<1>2. /\ serving \in [RadargramIds -> Contents \cup {Missing}]
      /\ axes \in [RadargramIds -> [Revision -> Grids]]
      /\ history \in [RadargramIds -> [Revision -> Ages]]
      /\ picks \in [RadargramIds -> [Pickers -> Document \cup {Missing}]]
    BY DEF IInv, IdTypeOK
<1>3. /\ WithAxes(from) \in [Revision -> Grids]
      /\ \A r \in Revision : /\ WithAxes(from)[r] \in {Missing, AxesOf[r.contents]}
                             /\ WithAxes(from)[r] = axes[from][r] \/ axes[from][r] = Missing
      /\ AxesOf[serving[from]] = Missing \/ WithAxes(from)[Current(from)] = AxesOf[serving[from]]
      /\ WithNote(from) \in [Revision -> Ages]
      /\ \A r \in Revision : history[from][r] \in {"current", "ended"} =>
                             WithNote(from)[r] = history[from][r]
    BY <1>1, KeepingAxes
<1>4. /\ WithAxes(to) \in [Revision -> Grids]
      /\ \A r \in Revision : /\ WithAxes(to)[r] \in {Missing, AxesOf[r.contents]}
                             /\ WithAxes(to)[r] = axes[to][r] \/ axes[to][r] = Missing
      /\ AxesOf[serving[to]] = Missing \/ WithAxes(to)[Current(to)] = AxesOf[serving[to]]
      /\ WithNote(to) \in [Revision -> Ages]
      /\ \A r \in Revision : history[to][r] \in {"current", "ended"} =>
                             WithNote(to)[r] = history[to][r]
    BY <1>1, KeepingAxes
<1>5. /\ Current(from) \in Revision /\ Current(from).contents = serving[from]
      /\ Current(to) \in Revision /\ Current(to).contents = serving[to]
    BY <1>1, <1>2, RevOfContents DEF Current
<1>6. /\ axes' \in [RadargramIds -> [Revision -> Grids]]
      /\ history' \in [RadargramIds -> [Revision -> Ages]]
      /\ axes'[from] = WithAxes(from) /\ axes'[to] = WithAxes(to)
      /\ history'[from] = WithNote(from) /\ history'[to] = WithNote(to)
      /\ \A i \in RadargramIds \ {from, to} : axes'[i] = axes[i] /\ history'[i] = history[i]
    BY <1>1, <1>2, <1>3, <1>4
<1> HIDE DEF documents, needed
<1>7. IdTypeOK' BY <1>1, <1>6 DEF IInv, IdTypeOK
<1>8. KeptAreIts' BY <1>3, <1>4, <1>6 DEF IInv, KeptAreIts
<1>9. ASSUME NEW i \in RadargramIds, NEW r \in Revision
      PROVE  /\ axes[i][r] = AxesOf[r.contents] => axes'[i][r] = AxesOf[r.contents]
             /\ history[i][r] \in {"current", "ended"} => history'[i][r] \in {"current", "ended"}
    BY <1>3, <1>4, <1>6, <1>9
<1>10. DocumentsHaveAxes' /\ PagesHaveAxes' BY <1>1, <1>9, AddingAxesKeeps
<1>11. ASSUME NEW u \in On(from)
       PROVE  /\ documents[u] \in Document
              /\ IsTrue(documents[u])
              /\ \/ documents[u].revision = Current(to)
                 \/ AxesOf[documents[u].revision.contents] = Missing
                 \/ axes'[from][documents[u].revision] = AxesOf[documents[u].revision.contents]
  <2> DEFINE d == picks[from][u]
  <2>1. u \in Pickers /\ d # Missing BY DEF On
  <2>2. d \in Document /\ d.revision \in Revision BY <2>1, <1>2 DEF Document
  <2>3. IsTrue(d) /\ HasAxes(from, d.revision) BY <2>1 DEF IInv, DocumentsHaveAxes
  <2>4. documents[u] = Rewritten(d, from, to) BY DEF documents
  <2> HIDE DEF d
  <2>5. CASE SameGrid(from, to) /\ d.revision = Current(from)
    <3>1. documents[u] = [d EXCEPT !.revision = Current(to)] BY <2>4, <2>5 DEF Rewritten
    <3>2. /\ documents[u] \in Document /\ documents[u].revision = Current(to)
          /\ documents[u].work = d.work
      BY <3>1, <2>2, <1>5 DEF Document
    <3>3. AxesOf[serving[from]] = AxesOf[serving[to]]
      BY <2>5, <1>3, <1>4, <1>5 DEF SameGrid
    <3> QED BY <3>2, <3>3, <2>3, <2>5, <1>5 DEF IsTrue
  <2>6. CASE ~(SameGrid(from, to) /\ d.revision = Current(from))
    <3>1. documents[u] = d BY <2>4, <2>6 DEF Rewritten
    <3>2. PICK r \in Revision : r = d.revision BY <2>2
    <3>3. HasAxes(from, r) BY <2>3, <3>2
    <3>4. AxesOf[r.contents] = Missing \/ axes'[from][r] = AxesOf[r.contents]
      BY <3>3, <1>3, <1>5, <1>6, <1>9 DEF HasAxes
    <3>5. AxesOf[documents[u].revision.contents] = Missing
          \/ axes'[from][documents[u].revision] = AxesOf[documents[u].revision.contents]
      BY <3>1, <3>2, <3>4
    <3> QED BY <3>1, <3>5, <2>2, <2>3
  <2> QED BY <2>5, <2>6
<1>12. documents \in [On(from) -> Document] /\ On(from) \in SUBSET Pickers
    BY <1>11 DEF documents, On
<1>13. hold' \in Moving
  <2>1. documents \in Pendings BY <1>12 DEF Pendings
  <2>2. needed \in SUBSET Revision BY <1>12 DEF needed, Document
  <2> QED BY <1>1, <2>1, <2>2 DEF Moving
<1>14. ASSUME NEW u \in On(from)
       PROVE  /\ IsTrue(documents[u])
              /\ \/ documents[u].revision \in needed
                 \/ serving[to] # Missing /\ documents[u].revision = Current(to)
    BY <1>1, <1>11, <1>14 DEF needed
<1>15. ASSUME NEW r \in needed
       PROVE  AxesOf[r.contents] = Missing \/ axes'[from][r] = AxesOf[r.contents]
  <2>1. PICK u \in On(from) : r = documents[u].revision /\ r # Current(to) BY <1>15 DEF needed
  <2> QED BY <2>1, <1>11
<1>16. AxesOf[Current(from).contents] = Missing
       \/ axes'[from][Current(from)] = AxesOf[Current(from).contents]
    BY <1>3, <1>5, <1>6
<1>17. TransferIsReady'
  <2>1. /\ hold'.from = from /\ hold'.to = to /\ hold'.pending = documents
        /\ hold'.needed = needed /\ DOMAIN documents = On(from)
    BY <1>1, <1>12
  <2>2. /\ serving'[hold'.from] # Missing /\ serving'[hold'.to] # Missing
        /\ IsKept(hold.from, Current(hold.from))'
    BY <2>1, <1>1, <1>16 DEF IsKept, Current
  <2>3. ASSUME NEW u \in DOMAIN hold'.pending
        PROVE  /\ IsTrue(hold.pending[u])'
               /\ HasAxes(hold.to, hold.pending[u].revision)' \/ hold'.pending[u].revision \in hold'.needed
    <3>1. u \in On(from) BY <2>1, <2>3
    <3>2. IsTrue(hold.pending[u])' BY <2>1, <3>1, <1>1, <1>14 DEF IsTrue
    <3>3. CASE documents[u].revision \in needed BY <2>1, <3>2, <3>3
    <3>4. CASE serving[to] # Missing /\ documents[u].revision = Current(to)
      BY <2>1, <3>2, <3>4, <1>1 DEF HasAxes, Current
    <3> QED BY <3>1, <3>3, <3>4, <1>14
  <2>4. ASSUME NEW r \in hold'.needed PROVE IsKept(hold.from, r)'
    BY <2>1, <2>4, <1>15 DEF IsKept
  <2> QED BY <1>13, <2>2, <2>3, <2>4 DEF TransferIsReady
<1>18. RemovalIsReady' BY <1>1 DEF RemovalIsReady
<1> QED BY <1>7, <1>8, <1>10, <1>17, <1>18 DEF IInv

LEMMA CopiesRevisionKeeps ==
    ASSUME IInv, NEW q \in Revision, CopiesRevision(q)
    PROVE  IInv'
<1>1. /\ hold.phase = "moving" /\ q \in hold.needed
      /\ hold' = [hold EXCEPT !.needed = @ \ {q}]
      /\ UNCHANGED <<serving, picks, shelf, drawn, pages>>
    BY DEF CopiesRevision
<1>2. /\ hold \in Moving /\ serving[hold.from] # Missing /\ serving[hold.to] # Missing
      /\ IsKept(hold.from, Current(hold.from))
      /\ \A u \in DOMAIN hold.pending :
            /\ IsTrue(hold.pending[u])
            /\ HasAxes(hold.to, hold.pending[u].revision) \/ hold.pending[u].revision \in hold.needed
      /\ \A r \in hold.needed : IsKept(hold.from, r)
    BY <1>1 DEF IInv, TransferIsReady
<1>3. PICK from \in RadargramIds, to \in RadargramIds : from = hold.from /\ to = hold.to
    BY <1>2 DEF Moving
<1>4. /\ axes \in [RadargramIds -> [Revision -> Grids]]
      /\ history \in [RadargramIds -> [Revision -> Ages]]
      /\ \A i \in RadargramIds, r \in Revision : axes[i][r] \in {Missing, AxesOf[r.contents]}
    BY DEF IInv, IdTypeOK, KeptAreIts
<1>5. /\ axes' \in [RadargramIds -> [Revision -> Grids]]
      /\ history' \in [RadargramIds -> [Revision -> Ages]]
      /\ AxesOf[q.contents] = Missing \/ axes'[to][q] = AxesOf[q.contents]
      /\ \A i \in RadargramIds, r \in Revision :
            /\ axes'[i][r] \in {Missing, AxesOf[r.contents]}
            /\ axes[i][r] = AxesOf[r.contents] => axes'[i][r] = AxesOf[r.contents]
            /\ history[i][r] \in {"current", "ended"} => history'[i][r] \in {"current", "ended"}
  <2>1. CASE axes[from][q] = Missing
    <3>1. AxesOf[q.contents] = Missing BY <2>1, <1>1, <1>2, <1>3 DEF IsKept
    <3>2. UNCHANGED <<axes, history>> BY <2>1, <1>3 DEF CopiesRevision
    <3> QED BY <3>1, <3>2, <1>4
  <2>2. CASE axes[from][q] # Missing
    <3>1. /\ axes' = [axes EXCEPT ![to][q] = axes[from][q]]
          /\ history' = IF history[to][q] # "unknown" THEN history
                        ELSE [history EXCEPT ![to][q] = AsEnded(history[from][q])]
      BY <2>2, <1>3 DEF CopiesRevision
    <3>2. axes[from][q] = AxesOf[q.contents] /\ axes[from][q] \in Grids BY <2>2, <1>4
    <3>3. AsEnded(history[from][q]) \in Ages
      <4>1. history[from][q] \in Ages BY <1>4
      <4> QED BY <4>1 DEF AsEnded, Ages
    <3>4. /\ history' \in [RadargramIds -> [Revision -> Ages]]
          /\ \A i \in RadargramIds, r \in Revision :
                history[i][r] \in {"current", "ended"} => history'[i][r] \in {"current", "ended"}
      <4>1. CASE history[to][q] # "unknown" BY <4>1, <3>1, <1>4
      <4>2. CASE history[to][q] = "unknown" BY <4>2, <3>1, <3>3, <1>4
      <4> QED BY <4>1, <4>2
    <3> QED BY <3>1, <3>2, <3>4, <1>4
  <2> QED BY <2>1, <2>2
<1>6. IdTypeOK' BY <1>1, <1>5 DEF IInv, IdTypeOK
<1>7. KeptAreIts' BY <1>5 DEF KeptAreIts
<1>8. /\ DocumentsHaveAxes' /\ PagesHaveAxes'
      /\ \A i \in RadargramIds, r \in Revision : HasAxes(i, r) => HasAxes(i, r)'
    BY <1>1, <1>5, AddingAxesKeeps
<1>9. TransferIsReady'
  <2>1. /\ hold' \in Moving /\ hold'.from = from /\ hold'.to = to
        /\ hold'.pending = hold.pending /\ hold'.needed = hold.needed \ {q}
    BY <1>1, <1>2, <1>3 DEF Moving
  <2>2. serving[from] \in Contents /\ Current(from) \in Revision
    BY <1>2, <1>3, RevOfContents DEF IInv, IdTypeOK, Current
  <2>3. /\ serving'[hold'.from] # Missing /\ serving'[hold'.to] # Missing
        /\ IsKept(hold.from, Current(hold.from))'
    BY <2>1, <2>2, <1>1, <1>2, <1>3, <1>5 DEF IsKept, Current
  <2>4. ASSUME NEW u \in DOMAIN hold'.pending
        PROVE  /\ IsTrue(hold.pending[u])'
               /\ HasAxes(hold.to, hold.pending[u].revision)' \/ hold'.pending[u].revision \in hold'.needed
    <3>1. hold.pending[u] \in Document BY <2>1, <2>4, <1>2 DEF Moving, Pendings
    <3>2. PICK r \in Revision : r = hold.pending[u].revision BY <3>1 DEF Document
    <3>3. IsTrue(hold.pending[u])' BY <2>1, <2>4, <1>1, <1>2 DEF IsTrue
    <3>4. HasAxes(to, r) \/ r \in hold.needed BY <2>1, <2>4, <1>2, <1>3, <3>2
    <3>5. HasAxes(to, r)' \/ r \in hold'.needed
      <4>1. CASE HasAxes(to, r) BY <4>1, <1>8
      <4>2. CASE r \in hold.needed /\ r = q BY <4>2, <1>5 DEF HasAxes
      <4>3. CASE r \in hold.needed /\ r # q BY <4>3, <2>1
      <4> QED BY <4>1, <4>2, <4>3, <3>4
    <3> QED BY <3>2, <3>3, <3>5, <2>1
  <2>5. ASSUME NEW r \in hold'.needed PROVE IsKept(hold.from, r)'
    <3>1. r \in Revision /\ IsKept(from, r) BY <2>1, <2>5, <1>2, <1>3 DEF Moving
    <3> QED BY <3>1, <2>1, <1>5 DEF IsKept
  <2> QED BY <2>1, <2>3, <2>4, <2>5 DEF TransferIsReady
<1>10. RemovalIsReady'
  <2>1. hold'.phase = "moving" BY <1>1, <1>2 DEF Moving
  <2> QED BY <2>1 DEF RemovalIsReady
<1> QED BY <1>6, <1>7, <1>8, <1>9, <1>10 DEF IInv

(* A step that changes no file, no axes and no record keeps what the lock   *)
(* is held for, if its holder is the same.                                  *)
LEMMA HolderIsReady ==
    ASSUME IInv, UNCHANGED <<serving, axes, hold>>,
           \A k \in 1 .. Len(drawn) : k \in 1 .. Len(drawn') /\ drawn'[k] = drawn[k]
    PROVE  TransferIsReady' /\ RemovalIsReady'
BY DEF IInv, TransferIsReady, RemovalIsReady, IsKept, HasAxes, IsTrue, Current

LEMMA WritesKeeps ==
    ASSUME IInv, NEW u \in Pickers, WritesDocument(u)
    PROVE  IInv'
<1>1. /\ hold.phase = "moving" /\ hold.needed = {} /\ u \in DOMAIN hold.pending
      /\ \/ picks' = [picks EXCEPT ![hold.to][u] = hold.pending[u]]
         \/ picks' = picks
      /\ hold' \in {[hold EXCEPT !.pending = Done(u), !.moved = @ \cup {hold.pending[u].work}],
                    [hold EXCEPT !.pending = Done(u), !.occupied = @ \cup {u}]}
      /\ UNCHANGED <<serving, axes, history, shelf, drawn, pages>>
    BY DEF WritesDocument
<1>2. /\ hold \in Moving /\ serving[hold.from] # Missing /\ serving[hold.to] # Missing
      /\ IsKept(hold.from, Current(hold.from))
      /\ \A v \in DOMAIN hold.pending :
            /\ IsTrue(hold.pending[v]) /\ HasAxes(hold.to, hold.pending[v].revision)
    BY <1>1 DEF IInv, TransferIsReady
<1>3. PICK S \in SUBSET Pickers : hold.pending \in [S -> Document] BY <1>2 DEF Moving, Pendings
<1>4. hold.to \in RadargramIds BY <1>2 DEF Moving
<1>5. /\ picks' \in [RadargramIds -> [Pickers -> Document \cup {Missing}]]
      /\ \A i \in RadargramIds, v \in Pickers :
            \/ picks'[i][v] = picks[i][v]
            \/ i = hold.to /\ v \in DOMAIN hold.pending /\ picks'[i][v] = hold.pending[v]
  <2>1. picks \in [RadargramIds -> [Pickers -> Document \cup {Missing}]] BY DEF IInv, IdTypeOK
  <2>2. hold.pending[u] \in Document BY <1>1, <1>3
  <2>3. CASE picks' = [picks EXCEPT ![hold.to][u] = hold.pending[u]]
    BY <2>1, <2>2, <2>3, <1>1, <1>4
  <2>4. CASE picks' = picks BY <2>1, <2>4
  <2> QED BY <2>3, <2>4, <1>1
<1>6. IdTypeOK' BY <1>1, <1>5 DEF IInv, IdTypeOK
<1>7. KeptAreIts' BY <1>1 DEF IInv, KeptAreIts
<1>8. DocumentsHaveAxes'
  <2>1. ASSUME NEW i \in RadargramIds, NEW v \in Pickers, picks'[i][v] # Missing
        PROVE  IsTrue(picks'[i][v]) /\ HasAxes(i, picks'[i][v].revision)
    <3>1. CASE picks'[i][v] = picks[i][v] BY <2>1, <3>1 DEF IInv, DocumentsHaveAxes
    <3>2. CASE i = hold.to /\ v \in DOMAIN hold.pending /\ picks'[i][v] = hold.pending[v]
      BY <3>2, <1>2
    <3> QED BY <3>1, <3>2, <1>5
  <2>2. ASSUME NEW a \in shelf' PROVE IsTrue(a.picks) /\ HasAxes(a.on, a.picks.revision)
    BY <1>1, <2>2 DEF IInv, DocumentsHaveAxes
  <2> QED BY <2>1, <2>2, <1>1 DEF DocumentsHaveAxes, IsTrue, HasAxes, Current
<1>9. PagesHaveAxes' BY <1>1 DEF IInv, PagesHaveAxes, HasAxes, Current
<1>10. /\ hold' \in Moving /\ hold'.from = hold.from /\ hold'.to = hold.to
       /\ hold'.pending = Done(u) /\ hold'.needed = {}
  <2>1. Done(u) \in [S \ {u} -> Document] BY <1>3 DEF Done
  <2>2. Done(u) \in Pendings BY <2>1 DEF Pendings
  <2>3. hold.moved \cup {hold.pending[u].work} \in SUBSET Nat
    BY <1>1, <1>2, <1>3 DEF Document, Moving
  <2>4. hold.occupied \cup {u} \in SUBSET Pickers BY <1>2 DEF Moving
  <2>5. CASE hold' = [hold EXCEPT !.pending = Done(u), !.moved = @ \cup {hold.pending[u].work}]
    BY <2>2, <2>3, <2>5, <1>1, <1>2 DEF Moving
  <2>6. CASE hold' = [hold EXCEPT !.pending = Done(u), !.occupied = @ \cup {u}]
    BY <2>2, <2>4, <2>6, <1>1, <1>2 DEF Moving
  <2> QED BY <2>5, <2>6, <1>1
<1>11. TransferIsReady'
  <2>1. ASSUME NEW v \in DOMAIN hold'.pending
        PROVE  IsTrue(hold.pending[v])' /\ HasAxes(hold.to, hold.pending[v].revision)'
    <3>1. v \in DOMAIN hold.pending /\ hold'.pending[v] = hold.pending[v]
      BY <1>10, <2>1 DEF Done
    <3> QED BY <3>1, <1>1, <1>2, <1>10 DEF IsTrue, HasAxes, Current
  <2>2. IsKept(hold.from, Current(hold.from))' BY <1>1, <1>2, <1>10 DEF IsKept, Current
  <2> QED BY <2>1, <2>2, <1>1, <1>2, <1>10 DEF TransferIsReady
<1>12. RemovalIsReady'
  <2>1. hold'.phase = "moving" BY <1>10 DEF Moving
  <2> QED BY <2>1 DEF RemovalIsReady
<1> QED BY <1>6, <1>7, <1>8, <1>9, <1>11, <1>12 DEF IInv

LEMMA TransferEndsKeeps ==
    ASSUME IInv, TransferEnds
    PROVE  IInv'
<1>1. /\ hold.phase = "moving"
      /\ hold' = IF hold.remove THEN [hold EXCEPT !.phase = "removing"] ELSE NotHeld
      /\ UNCHANGED <<serving, axes, history, picks, shelf, drawn, pages>>
    BY DEF TransferEnds
<1>2. /\ hold \in Moving /\ serving[hold.from] # Missing
      /\ IsKept(hold.from, Current(hold.from))
    BY <1>1 DEF IInv, TransferIsReady
<1>3. IdTypeOK' /\ KeptAreIts' /\ DocumentsHaveAxes' /\ PagesHaveAxes'
    BY <1>1 DEF IInv, IdTypeOK, KeptAreIts, DocumentsHaveAxes, PagesHaveAxes, IsTrue, HasAxes, Current
<1>4. CASE hold' = NotHeld
    BY <1>3, <1>4 DEF IInv, TransferIsReady, RemovalIsReady, NotHeld
<1>5. CASE hold' = [hold EXCEPT !.phase = "removing"]
  <2>1. hold'.phase = "removing" /\ hold'.from = hold.from /\ hold'.from \in RadargramIds
    BY <1>2, <1>5 DEF Moving
  <2> QED BY <2>1, <1>1, <1>2, <1>3 DEF IInv, TransferIsReady, RemovalIsReady, IsKept, Current
<1> QED BY <1>1, <1>4, <1>5

LEMMA FailureKeeps ==
    ASSUME IInv, HandlerFails
    PROVE  IInv'
BY DEF HandlerFails, IInv, IdTypeOK, KeptAreIts, DocumentsHaveAxes, PagesHaveAxes, TransferIsReady,
       RemovalIsReady, IsTrue, HasAxes, Current, NotHeld

LEMMA RemovalBeginsKeeps ==
    ASSUME IInv, NEW i \in RadargramIds, RemovalBegins(i)
    PROVE  IInv'
<1>1. /\ serving[i] # Missing /\ CanKeepAxes(i)
      /\ axes' = [axes EXCEPT ![i] = WithAxes(i)]
      /\ history' = [history EXCEPT ![i] = WithNote(i)]
      /\ hold' = [phase |-> "removing", from |-> i, to |-> Missing]
      /\ UNCHANGED <<serving, picks, shelf, drawn, pages>>
    BY DEF RemovalBegins
<1>2. /\ axes \in [RadargramIds -> [Revision -> Grids]]
      /\ history \in [RadargramIds -> [Revision -> Ages]]
      /\ \A j \in RadargramIds, r \in Revision : axes[j][r] \in {Missing, AxesOf[r.contents]}
    BY DEF IInv, IdTypeOK, KeptAreIts
<1>3. /\ WithAxes(i) \in [Revision -> Grids]
      /\ \A r \in Revision : /\ WithAxes(i)[r] \in {Missing, AxesOf[r.contents]}
                             /\ WithAxes(i)[r] = axes[i][r] \/ axes[i][r] = Missing
      /\ AxesOf[serving[i]] = Missing \/ WithAxes(i)[Current(i)] = AxesOf[serving[i]]
      /\ WithNote(i) \in [Revision -> Ages]
      /\ \A r \in Revision : history[i][r] \in {"current", "ended"} =>
                             WithNote(i)[r] = history[i][r]
    BY <1>1, KeepingAxes
<1>4. /\ axes' \in [RadargramIds -> [Revision -> Grids]] /\ axes'[i] = WithAxes(i)
      /\ history' \in [RadargramIds -> [Revision -> Ages]]
      /\ \A j \in RadargramIds, r \in Revision :
            /\ axes'[j][r] \in {Missing, AxesOf[r.contents]}
            /\ axes[j][r] = AxesOf[r.contents] => axes'[j][r] = AxesOf[r.contents]
            /\ history[j][r] \in {"current", "ended"} => history'[j][r] \in {"current", "ended"}
    BY <1>1, <1>2, <1>3
<1>5. IdTypeOK' BY <1>1, <1>4 DEF IInv, IdTypeOK
<1>6. KeptAreIts' BY <1>4 DEF KeptAreIts
<1>7. DocumentsHaveAxes' /\ PagesHaveAxes' BY <1>1, <1>4, AddingAxesKeeps
<1>8. TransferIsReady' BY <1>1 DEF TransferIsReady
<1>9. RemovalIsReady'
  <2>1. Current(i).contents = serving[i] BY DEF Current, Rev
  <2> QED BY <2>1, <1>1, <1>3, <1>4 DEF RemovalIsReady, IsKept, Current
<1> QED BY <1>5, <1>6, <1>7, <1>8, <1>9 DEF IInv

LEMMA MonthKeeps ==
    ASSUME IInv, NEW j \in RadargramIds, NEW q \in Revision, ThirtyDaysPass(j, q)
    PROVE  IInv'
<1>1. /\ \A u \in Pickers : pages[u] # Missing => pages[u].on # j \/ pages[u].revision # q
      /\ history' = [history EXCEPT ![j][q] = "long ended"]
      /\ UNCHANGED <<serving, axes, picks, shelf, drawn, pages, hold>>
    BY DEF ThirtyDaysPass
<1>2. IdTypeOK' BY <1>1 DEF IInv, IdTypeOK, Ages
<1>3. KeptAreIts' /\ DocumentsHaveAxes'
    BY <1>1 DEF IInv, KeptAreIts, DocumentsHaveAxes, IsTrue, HasAxes, Current
<1>4. PagesHaveAxes'
  <2>1. ASSUME NEW u \in Pickers, pages[u] # Missing
        PROVE  /\ HasAxes(pages[u].on, pages[u].revision)'
               /\ \/ serving'[pages[u].on] # Missing /\ pages[u].revision = Current(pages[u].on)'
                  \/ history'[pages[u].on][pages[u].revision] \in {"current", "ended"}
    <3>1. pages[u] \in Page BY <2>1 DEF IInv, IdTypeOK
    <3>2. PICK i \in RadargramIds, r \in Revision : i = pages[u].on /\ r = pages[u].revision
      BY <3>1 DEF Page
    <3>3. i # j \/ r # q BY <1>1, <2>1, <3>2
    <3>4. history \in [RadargramIds -> [Revision -> Ages]] BY DEF IInv, IdTypeOK
    <3>5. history'[i][r] = history[i][r] BY <3>3, <3>4, <1>1
    <3>6. /\ HasAxes(i, r)
          /\ \/ serving[i] # Missing /\ r = Current(i)
             \/ history[i][r] \in {"current", "ended"}
      BY <2>1, <3>2 DEF IInv, PagesHaveAxes
    <3>7. HasAxes(i, r)' BY <3>6, <1>1 DEF HasAxes, Current
    <3>8. \/ serving'[i] # Missing /\ r = Current(i)'
          \/ history'[i][r] \in {"current", "ended"}
      BY <3>5, <3>6, <1>1 DEF Current
    <3> QED BY <3>2, <3>7, <3>8, <1>1
  <2> QED BY <2>1, <1>1 DEF PagesHaveAxes
<1>5. TransferIsReady' /\ RemovalIsReady' BY <1>1, HolderIsReady
<1> QED BY <1>2, <1>3, <1>4, <1>5 DEF IInv

-----------------------------------------------------------------------------
(* What people do with their picks.                                        *)

(* A step of theirs leaves files, axes and records alone.                  *)
LEMMA PicksStepKeeps ==
    ASSUME IInv, UNCHANGED <<serving, axes, history, drawn, hold>>, IdTypeOK',
           \A i \in RadargramIds, u \in Pickers :
              picks'[i][u] # Missing => \/ picks'[i][u] = picks[i][u]
                                        \/ \E a \in shelf : a.on = i /\ picks'[i][u] = a.picks,
           \A a \in shelf' : \/ a \in shelf
                             \/ \E i \in RadargramIds, u \in Pickers :
                                   a.on = i /\ a.picks = picks[i][u] /\ picks[i][u] # Missing,
           \A u \in Pickers : pages'[u] # Missing =>
              \/ pages'[u] = pages[u]
              \/ serving[pages'[u].on] # Missing /\ pages'[u].revision = Current(pages'[u].on)
    PROVE  IInv'
<1>1. KeptAreIts' BY DEF IInv, KeptAreIts
<1>2. DocumentsHaveAxes'
  <2>1. ASSUME NEW i \in RadargramIds, NEW u \in Pickers, picks'[i][u] # Missing
        PROVE  IsTrue(picks'[i][u]) /\ HasAxes(i, picks'[i][u].revision)
    BY <2>1 DEF IInv, DocumentsHaveAxes
  <2>2. ASSUME NEW a \in shelf' PROVE IsTrue(a.picks) /\ HasAxes(a.on, a.picks.revision)
    BY <2>2 DEF IInv, DocumentsHaveAxes
  <2> QED BY <2>1, <2>2 DEF DocumentsHaveAxes, IsTrue, HasAxes, Current
<1>3. PagesHaveAxes'
  <2>1. ASSUME NEW u \in Pickers, pages'[u] # Missing
        PROVE  /\ HasAxes(pages'[u].on, pages'[u].revision)
               /\ \/ serving[pages'[u].on] # Missing /\ pages'[u].revision = Current(pages'[u].on)
                  \/ history[pages'[u].on][pages'[u].revision] \in {"current", "ended"}
    <3>1. CASE pages'[u] = pages[u] BY <2>1, <3>1 DEF IInv, PagesHaveAxes
    <3>2. CASE serving[pages'[u].on] # Missing /\ pages'[u].revision = Current(pages'[u].on)
      BY <3>2 DEF HasAxes
    <3> QED BY <2>1, <3>1, <3>2
  <2> QED BY <2>1 DEF PagesHaveAxes, HasAxes, Current
<1>4. TransferIsReady' /\ RemovalIsReady' BY HolderIsReady
<1> QED BY <1>1, <1>2, <1>3, <1>4 DEF IInv

LEMMA OpensKeeps ==
    ASSUME IInv, NEW u \in Pickers, NEW i \in RadargramIds, OpensPage(u, i)
    PROVE  IInv'
<1>1. /\ serving[i] # Missing
      /\ pages' = [pages EXCEPT ![u] = [on |-> i, revision |-> Current(i), picks |-> picks[i][u]]]
      /\ UNCHANGED <<serving, axes, history, picks, shelf, drawn, hold>>
    BY DEF OpensPage
<1>2. Current(i) \in Revision /\ picks[i][u] \in Document \cup {Missing}
    BY <1>1, RevOfContents DEF IInv, IdTypeOK, Current
<1>3. [on |-> i, revision |-> Current(i), picks |-> picks[i][u]] \in Page BY <1>2 DEF Page
<1>4. IdTypeOK' BY <1>1, <1>3 DEF IInv, IdTypeOK
<1>5. pages \in [Pickers -> Page \cup {Missing}] BY DEF IInv, IdTypeOK
<1>6. \A v \in Pickers : \/ pages'[v] = pages[v]
                         \/ serving[pages'[v].on] # Missing /\ pages'[v].revision = Current(pages'[v].on)
    BY <1>1, <1>5
<1> QED BY <1>1, <1>4, <1>6, PicksStepKeeps

LEMMA ClosesKeeps ==
    ASSUME IInv, NEW u \in Pickers, ClosesPage(u)
    PROVE  IInv'
<1>1. /\ pages' = [pages EXCEPT ![u] = Missing]
      /\ UNCHANGED <<serving, axes, history, picks, shelf, drawn, hold>>
    BY DEF ClosesPage
<1>2. pages \in [Pickers -> Page \cup {Missing}] BY DEF IInv, IdTypeOK
<1>3. /\ pages' \in [Pickers -> Page \cup {Missing}]
      /\ \A v \in Pickers : pages'[v] # Missing => pages'[v] = pages[v]
    BY <1>1, <1>2
<1>4. IdTypeOK' BY <1>1, <1>3 DEF IInv, IdTypeOK
<1> QED BY <1>1, <1>3, <1>4, PicksStepKeeps

LEMMA DeletesKeep ==
    ASSUME IInv, NEW u \in Pickers, DeletesPicks(u)
    PROVE  IInv'
<1>1. /\ pages[u] # Missing
      /\ picks' = [picks EXCEPT ![pages[u].on][u] = Missing]
      /\ UNCHANGED <<serving, axes, history, shelf, drawn, pages, hold>>
    BY DEF DeletesPicks
<1>2. /\ picks \in [RadargramIds -> [Pickers -> Document \cup {Missing}]]
      /\ pages[u].on \in RadargramIds
    BY <1>1 DEF IInv, IdTypeOK, Page
<1>3. /\ picks' \in [RadargramIds -> [Pickers -> Document \cup {Missing}]]
      /\ \A i \in RadargramIds, v \in Pickers :
            picks'[i][v] # Missing => picks'[i][v] = picks[i][v]
    BY <1>1, <1>2
<1>4. IdTypeOK' BY <1>1, <1>3 DEF IInv, IdTypeOK
<1> QED BY <1>1, <1>3, <1>4, PicksStepKeeps

(* Archived by a removal or by an administrator.                           *)
LEMMA ArchivingKeeps ==
    ASSUME IInv, NEW i \in RadargramIds, NEW u \in Pickers, picks[i][u] # Missing,
           shelf' = shelf \cup {[on |-> i, by |-> u, picks |-> picks[i][u]]},
           picks' = [picks EXCEPT ![i][u] = Missing],
           UNCHANGED <<serving, axes, history, drawn, pages, hold>>
    PROVE  IInv'
<1>1. picks \in [RadargramIds -> [Pickers -> Document \cup {Missing}]] BY DEF IInv, IdTypeOK
<1>2. /\ picks' \in [RadargramIds -> [Pickers -> Document \cup {Missing}]]
      /\ \A j \in RadargramIds, v \in Pickers :
            picks'[j][v] # Missing => picks'[j][v] = picks[j][v]
    BY <1>1
<1>3. [on |-> i, by |-> u, picks |-> picks[i][u]] \in Shelved BY <1>1 DEF Shelved
<1>4. IdTypeOK' BY <1>2, <1>3 DEF IInv, IdTypeOK
<1> QED BY <1>2, <1>4, PicksStepKeeps

LEMMA RestoresKeep ==
    ASSUME IInv, NEW a \in shelf, RestoresPicks(a)
    PROVE  IInv'
<1>1. /\ picks' = [picks EXCEPT ![a.on][a.by] = a.picks]
      /\ shelf' = shelf \ {a}
      /\ UNCHANGED <<serving, axes, history, drawn, pages, hold>>
    BY DEF RestoresPicks
<1>2. /\ picks \in [RadargramIds -> [Pickers -> Document \cup {Missing}]]
      /\ a.on \in RadargramIds /\ a.by \in Pickers /\ a.picks \in Document
    BY DEF IInv, IdTypeOK, Shelved
<1>3. /\ picks' \in [RadargramIds -> [Pickers -> Document \cup {Missing}]]
      /\ \A i \in RadargramIds, v \in Pickers :
            \/ picks'[i][v] = picks[i][v]
            \/ a.on = i /\ picks'[i][v] = a.picks
    BY <1>1, <1>2
<1>4. IdTypeOK' BY <1>1, <1>3 DEF IInv, IdTypeOK
<1> QED BY <1>1, <1>3, <1>4, PicksStepKeeps

LEMMA SavesKeep ==
    ASSUME IInv, NEW u \in Pickers, SavesPicks(u)
    PROVE  IInv'
<1> DEFINE document == [work |-> Len(drawn) + 1, revision |-> pages[u].revision]
<1>1. /\ pages[u] # Missing
      /\ drawn' = Append(drawn, AxesOf[document.revision.contents])
      /\ picks' = [picks EXCEPT ![pages[u].on][u] = document]
      /\ pages' = [pages EXCEPT ![u].picks = document]
      /\ UNCHANGED <<serving, axes, history, shelf, hold>>
    BY DEF SavesPicks, SaveableNow, Saved
<1>2. /\ drawn \in Seq(Grids) /\ pages \in [Pickers -> Page \cup {Missing}]
      /\ picks \in [RadargramIds -> [Pickers -> Document \cup {Missing}]]
    BY DEF IInv, IdTypeOK
<1>3. pages[u] \in Page BY <1>1, <1>2
<1>4. PICK on \in RadargramIds, r \in Revision : on = pages[u].on /\ r = pages[u].revision
    BY <1>3 DEF Page
<1>5. document \in Document /\ document.work = Len(drawn) + 1 /\ document.revision = r
    BY <1>2, <1>4 DEF Document
<1>6. AxesOf[r.contents] \in Grids BY DEF Revision, Grids
<1> HIDE DEF document
<1>7. /\ drawn' \in Seq(Grids) /\ Len(drawn') = Len(drawn) + 1
      /\ drawn'[Len(drawn) + 1] = AxesOf[r.contents]
      /\ \A k \in 1 .. Len(drawn) : k \in 1 .. Len(drawn') /\ drawn'[k] = drawn[k]
    BY <1>1, <1>2, <1>5, <1>6
<1>8. /\ picks' \in [RadargramIds -> [Pickers -> Document \cup {Missing}]]
      /\ \A i \in RadargramIds, v \in Pickers :
            \/ picks'[i][v] = picks[i][v]
            \/ i = on /\ picks'[i][v] = document
    BY <1>1, <1>2, <1>4, <1>5
<1>9. /\ pages' \in [Pickers -> Page \cup {Missing}]
      /\ \A v \in Pickers : pages'[v] # Missing =>
            pages[v] # Missing /\ pages'[v].on = pages[v].on /\ pages'[v].revision = pages[v].revision
  <2>1. /\ [pages[u] EXCEPT !.picks = document] \in Page
        /\ [pages[u] EXCEPT !.picks = document].on = pages[u].on
        /\ [pages[u] EXCEPT !.picks = document].revision = pages[u].revision
    BY <1>3, <1>5 DEF Page
  <2>2. pages' = [pages EXCEPT ![u] = [pages[u] EXCEPT !.picks = document]] BY <1>1
  <2> QED BY <2>1, <2>2, <1>1, <1>2
<1>10. IdTypeOK' BY <1>1, <1>7, <1>8, <1>9 DEF IInv, IdTypeOK
<1>11. KeptAreIts' BY <1>1 DEF IInv, KeptAreIts
<1>12. ASSUME NEW d, IsTrue(d)
       PROVE  d.work \in 1 .. Len(drawn') /\ drawn'[d.work] = AxesOf[d.revision.contents]
    BY <1>7, <1>12 DEF IsTrue
<1>13. DocumentsHaveAxes'
  <2>1. ASSUME NEW i \in RadargramIds, NEW v \in Pickers, picks'[i][v] # Missing
        PROVE  /\ picks'[i][v].work \in 1 .. Len(drawn')
               /\ drawn'[picks'[i][v].work] = AxesOf[picks'[i][v].revision.contents]
               /\ HasAxes(i, picks'[i][v].revision)
    <3>1. CASE picks'[i][v] = picks[i][v]
      BY <2>1, <3>1, <1>12 DEF IInv, DocumentsHaveAxes
    <3>2. CASE i = on /\ picks'[i][v] = document
      <4>1. HasAxes(on, r) BY <1>1, <1>4 DEF IInv, PagesHaveAxes
      <4>2. Len(drawn) + 1 \in 1 .. Len(drawn') BY <1>2, <1>7
      <4> QED BY <3>2, <4>1, <4>2, <1>5, <1>7
    <3> QED BY <3>1, <3>2, <1>8
  <2>2. ASSUME NEW a \in shelf'
        PROVE  /\ a.picks.work \in 1 .. Len(drawn')
               /\ drawn'[a.picks.work] = AxesOf[a.picks.revision.contents]
               /\ HasAxes(a.on, a.picks.revision)
    BY <2>2, <1>1, <1>12 DEF IInv, DocumentsHaveAxes
  <2>3. (\A i \in RadargramIds, v \in Pickers : picks[i][v] # Missing =>
            IsTrue(picks[i][v]) /\ HasAxes(i, picks[i][v].revision))'
    <3> SUFFICES ASSUME NEW i \in RadargramIds, NEW v \in Pickers, (picks[i][v] # Missing)'
                 PROVE  (IsTrue(picks[i][v]) /\ HasAxes(i, picks[i][v].revision))'
      OBVIOUS
    <3>1. IsTrue(picks[i][v])' BY <2>1 DEF IsTrue
    <3>2. HasAxes(i, picks'[i][v].revision) BY <2>1
    <3>3. serving' = serving /\ axes' = axes BY <1>1
    <3>4. HasAxes(i, picks[i][v].revision)' BY <3>2, <3>3 DEF HasAxes, Current
    <3> QED BY <3>1, <3>4
  <2>4. (\A a \in shelf : IsTrue(a.picks) /\ HasAxes(a.on, a.picks.revision))'
    BY <2>2, <1>1 DEF IsTrue, HasAxes, Current
  <2> QED BY <2>3, <2>4 DEF DocumentsHaveAxes
<1>14. PagesHaveAxes'
  <2>1. ASSUME NEW v \in Pickers, pages'[v] # Missing
        PROVE  /\ HasAxes(pages'[v].on, pages'[v].revision)
               /\ \/ serving[pages'[v].on] # Missing /\ pages'[v].revision = Current(pages'[v].on)
                  \/ history[pages'[v].on][pages'[v].revision] \in {"current", "ended"}
    BY <2>1, <1>9 DEF IInv, PagesHaveAxes
  <2> QED BY <2>1, <1>1 DEF PagesHaveAxes, HasAxes, Current
<1>15. TransferIsReady' /\ RemovalIsReady' BY <1>1, <1>7, HolderIsReady
<1> QED BY <1>10, <1>11, <1>13, <1>14, <1>15 DEF IInv

-----------------------------------------------------------------------------

LEMMA InitHolds == IdInit => IInv
<1> SUFFICES ASSUME IdInit PROVE IInv OBVIOUS
<1>1. PICK j \in RadargramIds, c \in Contents :
         serving = [i \in RadargramIds |-> IF i = j THEN c ELSE Missing]
    BY DEF IdInit
<1>2. /\ axes = [i \in RadargramIds |-> [r \in Revision |->
                   IF serving[i] # Missing /\ r = Current(i) THEN AxesOf[serving[i]] ELSE Missing]]
      /\ history = [i \in RadargramIds |-> [r \in Revision |->
                   IF serving[i] # Missing /\ r = Current(i) THEN "current" ELSE "unknown"]]
      /\ picks = [i \in RadargramIds |-> [u \in Pickers |-> Missing]]
      /\ shelf = {} /\ drawn = <<>> /\ pages = [u \in Pickers |-> Missing] /\ hold = NotHeld
    BY DEF IdInit
<1>3. serving \in [RadargramIds -> Contents \cup {Missing}] BY <1>1
<1>4. \A i \in RadargramIds : serving[i] # Missing => AxesOf[serving[i]] \in Grids
    BY <1>3 DEF Grids
<1>5. axes \in [RadargramIds -> [Revision -> Grids]]
  <2>1. Missing \in Grids BY DEF Grids
  <2> QED BY <2>1, <1>2, <1>4
<1>6. history \in [RadargramIds -> [Revision -> Ages]] BY <1>2 DEF Ages
<1>7. picks \in [RadargramIds -> [Pickers -> Document \cup {Missing}]] BY <1>2
<1>8. IdTypeOK BY <1>2, <1>3, <1>5, <1>6, <1>7 DEF IdTypeOK
<1>9. KeptAreIts
  <2>1. \A i : Current(i).contents = serving[i] BY DEF Current, Rev
  <2> QED BY <2>1, <1>2 DEF KeptAreIts
<1>10. DocumentsHaveAxes BY <1>2 DEF DocumentsHaveAxes
<1>11. PagesHaveAxes BY <1>2 DEF PagesHaveAxes
<1>12. TransferIsReady /\ RemovalIsReady BY <1>2 DEF TransferIsReady, RemovalIsReady, NotHeld
<1> QED BY <1>8, <1>9, <1>10, <1>11, <1>12 DEF IInv

LEMMA StepKeeps == IInv /\ [IdNext]_idVars => IInv'
<1> SUFFICES ASSUME IInv, [IdNext]_idVars PROVE IInv' OBVIOUS
<1>1. CASE UNCHANGED idVars
    BY <1>1 DEF idVars, IInv, IdTypeOK, KeptAreIts, DocumentsHaveAxes, PagesHaveAxes, TransferIsReady,
                RemovalIsReady, IsTrue, HasAxes, IsKept, Current
<1>2. ASSUME NEW i \in RadargramIds, NEW j \in RadargramIds, CopiesRadargram(i, j) PROVE IInv'
    BY <1>2, CopiesKeep
<1>3. ASSUME NEW i \in RadargramIds, NEW j \in RadargramIds, NEW remove \in BOOLEAN,
             TransferBegins(i, j, remove)
      PROVE  IInv'
    BY <1>3, TransferBeginsKeeps
<1>4. ASSUME NEW i \in RadargramIds, RemovalBegins(i) PROVE IInv'
    BY <1>4, RemovalBeginsKeeps
<1>5. ASSUME NEW i \in RadargramIds, NEW c \in Contents, ReplacesFile(i, c) PROVE IInv'
    BY <1>5, ReplaceKeeps
<1>6. ASSUME NEW r \in Revision, CopiesRevision(r) PROVE IInv'
    BY <1>6, CopiesRevisionKeeps
<1>7. ASSUME NEW i \in RadargramIds, NEW r \in Revision, ThirtyDaysPass(i, r) PROVE IInv'
    BY <1>7, MonthKeeps
<1>8. CASE TransferEnds BY <1>8, TransferEndsKeeps
<1>9. CASE HandlerFails BY <1>9, FailureKeeps
<1>10. CASE RemovalUnlinks BY <1>10, UnlinkKeeps
<1>11. CASE ServerRestarts BY <1>11, RestartKeeps
<1>12. ASSUME NEW u \in Pickers, WritesDocument(u) PROVE IInv' BY <1>12, WritesKeeps
<1>13. ASSUME NEW u \in Pickers, RemovalArchives(u) PROVE IInv'
  <2>1. hold.from \in RadargramIds BY <1>13 DEF RemovalArchives, IInv, RemovalIsReady
  <2> QED BY <2>1, <1>13, ArchivingKeeps DEF RemovalArchives, On
<1>14. ASSUME NEW u \in Pickers, ClosesPage(u) PROVE IInv' BY <1>14, ClosesKeeps
<1>15. ASSUME NEW u \in Pickers, SavesPicks(u) PROVE IInv' BY <1>15, SavesKeep
<1>16. ASSUME NEW u \in Pickers, DeletesPicks(u) PROVE IInv' BY <1>16, DeletesKeep
<1>17. ASSUME NEW u \in Pickers, NEW i \in RadargramIds, OpensPage(u, i) PROVE IInv'
    BY <1>17, OpensKeeps
<1>18. ASSUME NEW u \in Pickers, NEW i \in RadargramIds, ArchivesPicks(u, i) PROVE IInv'
    BY <1>18, ArchivingKeeps DEF ArchivesPicks
<1>19. ASSUME NEW a \in shelf, RestoresPicks(a) PROVE IInv' BY <1>19, RestoresKeep
<1> QED
    BY <1>1, <1>2, <1>3, <1>4, <1>5, <1>6, <1>7, <1>8, <1>9, <1>10, <1>11, <1>12, <1>13, <1>14,
       <1>15, <1>16, <1>17, <1>18, <1>19 DEF IdNext

(* Picks are where they were drawn: on whichever radargram and in the       *)
(* archive, whatever was copied, transferred, replaced, removed and added   *)
(* again, a document names a revision with the axes it was drawn on, and    *)
(* they are kept or in the file (transfer, copy_revision, remove_locked,    *)
(* sweep).                                                                 *)
THEOREM PicksStayOnTheirAxes == IdSpec => []PlacedOnTheirGrid
<1>1. IInv => PlacedOnTheirGrid
    BY DEF IInv, DocumentsHaveAxes, PlacedOnTheirGrid, IsPlaced, IsTrue
<1> QED BY <1>1, InitHolds, StepKeeps, PTL DEF IdSpec

-----------------------------------------------------------------------------
(* A change of id misses no save: documents only leave the old radargram    *)
(* while it is held, so what is there was read when the transfer began, and *)
(* once written is moved or was left because its owner had picks already.   *)
IsMovedOrLeft(u) == picks[hold.from][u].work \in hold.moved \/ u \in hold.occupied

NothingMissed ==
    /\ hold.phase = "moving" =>
          /\ hold.from # hold.to
          /\ \A u \in On(hold.from) :
                \/ u \in DOMAIN hold.pending /\ hold.pending[u].work = picks[hold.from][u].work
                \/ IsMovedOrLeft(u)
    /\ hold.phase = "removing" /\ hold.to # Missing => \A u \in On(hold.from) : IsMovedOrLeft(u)

(* What a step of SavesAreMovedOrRefused may do.                           *)
ArchivesOnlyMoved ==
    \A a \in shelf' \ shelf :
       hold.phase = "removing" /\ hold.to # Missing /\ hold.from = a.on =>
          a.picks.work \in hold.moved \/ a.by \in hold.occupied
WritesOverNone ==
    hold.phase = "moving" =>
       \A u \in Pickers : picks'[hold.to][u] \in {picks[hold.to][u], Missing} \/
                          picks[hold.to][u] = Missing

(* A handler that has let the lock go, or never had it, promises nothing.   *)
LEMMA FreePromisesNothing == hold = NotHeld => NothingMissed /\ ArchivesOnlyMoved /\ WritesOverNone
    BY DEF NotHeld, NothingMissed, ArchivesOnlyMoved, WritesOverNone

(* Deleting and archiving picks, which need no lock, only take some away.   *)
LEMMA FewerPicks ==
    ASSUME IInv, NothingMissed, hold' = hold,
           \A i \in RadargramIds, u \in Pickers : picks'[i][u] \in {picks[i][u], Missing}
    PROVE  NothingMissed' /\ WritesOverNone
<1>1. hold.phase \in {"moving", "removing"} => hold.from \in RadargramIds
    BY DEF IInv, TransferIsReady, RemovalIsReady, Moving
<1>2. hold.phase = "moving" => hold.to \in RadargramIds BY DEF IInv, TransferIsReady, Moving
<1>3. NothingMissed' BY <1>1 DEF NothingMissed, On, IsMovedOrLeft
<1> QED BY <1>2, <1>3 DEF WritesOverNone

(* What is archived of a radargram that was transferred is moved or left.   *)
LEMMA ArchivesMoved ==
    ASSUME NothingMissed, NEW u \in Pickers, NEW i \in RadargramIds, picks[i][u] # Missing,
           shelf' = shelf \cup {[on |-> i, by |-> u, picks |-> picks[i][u]]}
    PROVE  ArchivesOnlyMoved
    BY DEF NothingMissed, ArchivesOnlyMoved, On, IsMovedOrLeft

LEMMA WritesMissNothing ==
    ASSUME IInv, NothingMissed, NEW u \in Pickers, WritesDocument(u)
    PROVE  NothingMissed' /\ ArchivesOnlyMoved /\ WritesOverNone
<1> USE DEF WritesDocument
<1>1. hold \in Moving /\ hold.from # hold.to
    BY DEF IInv, TransferIsReady, NothingMissed
<1>2. picks \in [RadargramIds -> [Pickers -> Document \cup {Missing}]] BY DEF IInv, IdTypeOK
<1>3. hold.from \in RadargramIds /\ hold.to \in RadargramIds BY <1>1 DEF Moving
<1>4. picks'[hold.from] = picks[hold.from] BY <1>1, <1>2, <1>3
<1>5. hold'.phase = "moving" /\ hold'.from = hold.from /\ hold'.to = hold.to /\ hold'.pending = Done(u)
    BY <1>1 DEF Moving
<1>6. /\ hold.moved \subseteq hold'.moved /\ hold.occupied \subseteq hold'.occupied
      /\ hold.pending[u].work \in hold'.moved \/ u \in hold'.occupied
  <2>1. CASE hold' = [hold EXCEPT !.pending = Done(u), !.moved = @ \cup {hold.pending[u].work}]
    <3>1. /\ hold'.moved = hold.moved \cup {hold.pending[u].work}
          /\ hold'.occupied = hold.occupied
      BY <2>1, <1>1 DEF Moving
    <3> QED BY <3>1
  <2>2. CASE hold' = [hold EXCEPT !.pending = Done(u), !.occupied = @ \cup {u}]
    <3>1. hold'.moved = hold.moved /\ hold'.occupied = hold.occupied \cup {u}
      BY <2>2, <1>1 DEF Moving
    <3> QED BY <3>1
  <2> QED BY <2>1, <2>2
<1>7. ASSUME NEW v \in On(hold.from)
      PROVE  \/ v \in DOMAIN Done(u) /\ Done(u)[v].work = picks[hold.from][v].work
             \/ picks[hold.from][v].work \in hold'.moved \/ v \in hold'.occupied
  <2>1. \/ v \in DOMAIN hold.pending /\ hold.pending[v].work = picks[hold.from][v].work
        \/ IsMovedOrLeft(v)
    BY DEF NothingMissed
  <2>2. CASE IsMovedOrLeft(v) BY <2>2, <1>6 DEF IsMovedOrLeft
  <2>3. CASE v = u BY <2>1, <2>2, <2>3, <1>6
  <2>4. CASE v \in DOMAIN hold.pending /\ hold.pending[v].work = picks[hold.from][v].work /\ v # u
    BY <2>4 DEF Done
  <2> QED BY <2>1, <2>2, <2>3, <2>4
<1>8. On(hold.from)' = On(hold.from) BY <1>4, <1>5 DEF On
<1>9. NothingMissed' BY <1>1, <1>4, <1>5, <1>7, <1>8 DEF NothingMissed, IsMovedOrLeft
<1>10. ArchivesOnlyMoved BY DEF ArchivesOnlyMoved
<1>11. WritesOverNone BY <1>2, <1>3 DEF WritesOverNone
<1> QED BY <1>9, <1>10, <1>11

LEMMA StepMissesNothing ==
    IInv /\ NothingMissed /\ [IdNext]_idVars
       => NothingMissed' /\ [ArchivesOnlyMoved /\ WritesOverNone]_idVars
<1> SUFFICES ASSUME IInv, NothingMissed, [IdNext]_idVars
             PROVE  NothingMissed' /\ [ArchivesOnlyMoved /\ WritesOverNone]_idVars
    OBVIOUS
<1> DEFINE Stays == NothingMissed' /\ ArchivesOnlyMoved /\ WritesOverNone
<1>2. /\ picks \in [RadargramIds -> [Pickers -> Document \cup {Missing}]]
      /\ hold.phase \in {"moving", "removing"} => hold.from \in RadargramIds
    BY DEF IInv, IdTypeOK, TransferIsReady, RemovalIsReady, Moving
<1>1. CASE UNCHANGED idVars
    BY <1>1 DEF idVars, NothingMissed, IsMovedOrLeft, On
<1>3. ASSUME NEW i \in RadargramIds, NEW j \in RadargramIds, NEW remove \in BOOLEAN,
             TransferBegins(i, j, remove)
      PROVE  Stays
  <2>1. /\ hold = NotHeld /\ picks' = picks /\ i # j
        /\ hold'.phase = "moving" /\ hold'.from = i /\ hold'.to = j
        /\ hold'.pending = [u \in On(i) |-> Rewritten(picks[i][u], i, j)]
    BY <1>3 DEF TransferBegins
  <2>2. \A u \in On(i) : Rewritten(picks[i][u], i, j).work = picks[i][u].work
    BY <1>2 DEF Rewritten, On, Document
  <2>3. NothingMissed' BY <2>1, <2>2 DEF NothingMissed, On
  <2> QED BY <2>1, <2>3, FreePromisesNothing
<1>4. ASSUME NEW i \in RadargramIds, RemovalBegins(i) PROVE Stays
    BY <1>4, FreePromisesNothing DEF RemovalBegins, NothingMissed
<1>5. ASSUME NEW r \in Revision, CopiesRevision(r) PROVE Stays
  <2>1. hold \in Moving BY <1>5 DEF CopiesRevision, IInv, TransferIsReady
  <2>2. /\ picks' = picks /\ shelf' = shelf
        /\ hold'.phase = hold.phase /\ hold'.from = hold.from /\ hold'.to = hold.to
        /\ hold'.pending = hold.pending /\ hold'.moved = hold.moved
        /\ hold'.occupied = hold.occupied
    BY <1>5, <2>1 DEF CopiesRevision, Moving
  <2> QED BY <2>2 DEF NothingMissed, ArchivesOnlyMoved, WritesOverNone, On, IsMovedOrLeft
<1>6. CASE TransferEnds
  <2>1. hold.phase = "moving" /\ hold.pending = <<>> /\ picks' = picks /\ shelf' = shelf
    BY <1>6 DEF TransferEnds
  <2>2. hold \in Moving BY <2>1 DEF IInv, TransferIsReady
  <2>3. \A u \in On(hold.from) : IsMovedOrLeft(u) BY <2>1 DEF NothingMissed
  <2>4. ASSUME hold' = NotHeld PROVE NothingMissed'
    BY <2>4 DEF NothingMissed, NotHeld
  <2>5. ASSUME hold' = [hold EXCEPT !.phase = "removing"] PROVE NothingMissed'
    <3>1. /\ hold'.phase = "removing" /\ hold'.from = hold.from
          /\ hold'.moved = hold.moved /\ hold'.occupied = hold.occupied
      BY <2>2, <2>5 DEF Moving
    <3> QED BY <3>1, <2>1, <2>3 DEF NothingMissed, On, IsMovedOrLeft
  <2>6. NothingMissed' BY <2>4, <2>5, <1>6 DEF TransferEnds
  <2> QED BY <2>1, <2>6 DEF ArchivesOnlyMoved, WritesOverNone
<1>7. CASE HandlerFails \/ RemovalUnlinks \/ ServerRestarts
    BY <1>7 DEF HandlerFails, RemovalUnlinks, ServerRestarts, Rediscovers, NothingMissed, NotHeld,
                ArchivesOnlyMoved, WritesOverNone
<1>8. ASSUME NEW u \in Pickers, WritesDocument(u) PROVE Stays BY <1>8, WritesMissNothing
<1>9. ASSUME NEW u \in Pickers, RemovalArchives(u) PROVE Stays
  <2>1. hold.from \in RadargramIds BY <1>9, <1>2 DEF RemovalArchives
  <2>2. picks[hold.from][u] # Missing /\ hold' = hold
        /\ picks' = [picks EXCEPT ![hold.from][u] = Missing]
        /\ shelf' = shelf \cup {[on |-> hold.from, by |-> u, picks |-> picks[hold.from][u]]}
    BY <1>9 DEF RemovalArchives, On
  <2>3. \A i \in RadargramIds, v \in Pickers : picks'[i][v] \in {picks[i][v], Missing}
    BY <2>1, <2>2, <1>2
  <2> QED BY <2>1, <2>2, <2>3, FewerPicks, ArchivesMoved
<1>10. ASSUME NEW u \in Pickers, ClosesPage(u) \/ \E i \in RadargramIds : OpensPage(u, i) PROVE Stays
    BY <1>10, FewerPicks DEF ClosesPage, OpensPage, ArchivesOnlyMoved
<1>11. ASSUME NEW u \in Pickers, DeletesPicks(u) PROVE Stays
  <2>1. \A i \in RadargramIds, v \in Pickers : picks'[i][v] \in {picks[i][v], Missing}
    BY <1>11, <1>2 DEF DeletesPicks
  <2> QED BY <1>11, <2>1, FewerPicks DEF DeletesPicks, ArchivesOnlyMoved
<1>12. ASSUME NEW u \in Pickers, NEW i \in RadargramIds, ArchivesPicks(u, i) PROVE Stays
  <2>1. \A j \in RadargramIds, v \in Pickers : picks'[j][v] \in {picks[j][v], Missing}
    BY <1>12, <1>2 DEF ArchivesPicks
  <2> QED BY <1>12, <2>1, FewerPicks, ArchivesMoved DEF ArchivesPicks
<1>13. ASSUME \/ \E i, j \in RadargramIds : CopiesRadargram(i, j)
              \/ \E i \in RadargramIds, c \in Contents : ReplacesFile(i, c)
              \/ \E i \in RadargramIds, r \in Revision : ThirtyDaysPass(i, r)
              \/ \E u \in Pickers : SavesPicks(u)
              \/ \E a \in shelf : RestoresPicks(a)
       PROVE  Stays
  <2>1. hold = NotHeld /\ hold' = NotHeld
    BY <1>13 DEF CopiesRadargram, ReplacesFile, ThirtyDaysPass, SavesPicks, Saved, RestoresPicks
  <2> QED BY <2>1, FreePromisesNothing DEF NotHeld, NothingMissed
<1> QED
    BY <1>1, <1>3, <1>4, <1>5, <1>6, <1>7, <1>8, <1>9, <1>10, <1>11, <1>12, <1>13 DEF IdNext

(* A change of id misses no save and writes over none: its removal archives *)
(* only what it has moved or left because the owner had picks on the copy,  *)
(* and it puts picks only where there are none, while others delete,        *)
(* archive, save and restore (transfer_interpretations, transfer,           *)
(* remove_locked).                                                          *)
THEOREM ChangesMissNoSave == IdSpec => SavesAreMovedOrRefused
<1>1. IdInit => NothingMissed BY DEF IdInit, NotHeld, NothingMissed
<1>2. [ArchivesOnlyMoved /\ WritesOverNone]_idVars =>
         [/\ \A a \in shelf' \ shelf :
                hold.phase = "removing" /\ hold.to # Missing /\ hold.from = a.on =>
                   a.picks.work \in hold.moved \/ a.by \in hold.occupied
          /\ hold.phase = "moving" =>
                \A u \in Pickers : picks'[hold.to][u] \in {picks[hold.to][u], Missing} \/
                                   picks[hold.to][u] = Missing]_idVars
    BY DEF ArchivesOnlyMoved, WritesOverNone
<1> QED
    BY <1>1, <1>2, InitHolds, StepKeeps, StepMissesNothing, PTL DEF IdSpec, SavesAreMovedOrRefused

----------------------------------------------------------------------------
(* The order derived items are evaluated in, for every set of items and        *)
(* whatever they name: THEOREM ChainsOnly. While the search is on, the items   *)
(* in progress are the path, each reached over the ones before it, and the     *)
(* items it has finished name only finished ones and none reaches itself       *)
(* (Searching); so a loop is met only where there is one, and where none was   *)
(* met no item is on one. In the order, what an item names stands before it    *)
(* (Ordering), so an item with a result has one for all it reaches             *)
(* (Evaluating).                                                               *)

DerivedTypeOK ==
    /\ uses \in [Items -> SUBSET Items] /\ \A i \in Items : i \notin uses[i]
    /\ pass \in Passes
    /\ marks \in [Items -> Marks]
    /\ path \in Seq(Items) /\ loop \in Seq(Items) /\ ordered \in Seq(Items)
    /\ evaluated \in 0..Len(ordered)
    /\ results \subseteq Items /\ failures \subseteq Items /\ broken \subseteq failures

Finished == {i \in Items : marks[i] = "done"}
Acyclic == \A i \in Items : ~Reaches(i, i)

(* A path is one of the graph, and passes no item twice.                       *)
PathOfUses ==
    /\ \A j, k \in 1..Len(path) : path[j] = path[k] => j = k
    /\ \A k \in 1..(Len(path) - 1) : path[k + 1] \in uses[path[k]]
    /\ \A j, k \in 1..Len(path) : j < k => Reaches(path[j], path[k])

Searching ==
    pass = "search" =>
        /\ \A i \in Items : marks[i] = "inProgress" <=> \E k \in 1..Len(path) : path[k] = i
        /\ Closed(Finished)
        /\ \A i \in Finished : ~Reaches(i, i)
        /\ ordered = <<>>

Before(k) == {ordered[j] : j \in 1..(k - 1)}

Ordering ==
    /\ pass \in {"order", "evaluate", "done"} => Acyclic
    /\ pass = "order" => \A k \in 1..Len(path) : path[k] \notin ToSet(ordered)
    /\ \A j, k \in 1..Len(ordered) : ordered[j] = ordered[k] => j = k
    /\ \A k \in 1..Len(ordered) : uses[ordered[k]] \subseteq Before(k)
    /\ pass \in {"evaluate", "done"} => ToSet(ordered) = Items

Evaluating ==
    /\ pass \notin {"evaluate", "done"} => evaluated = 0
    /\ pass = "done" => evaluated = Len(ordered)
    /\ results \union failures = Before(evaluated + 1)
    /\ results \intersect failures = {}
    /\ Closed(results)
    /\ \A i \in failures : i \in broken \/ \E d \in broken : Reaches(i, d)

Refusal ==
    pass = "refused" =>
         /\ \E i \in Items : Reaches(i, i)
         /\ Len(loop) > 2 /\ loop[1] = loop[Len(loop)]
         /\ \A j, k \in 2..Len(loop) : loop[j] = loop[k] => j = k
         /\ \A k \in 1..(Len(loop) - 1) : loop[k + 1] \in uses[loop[k]]

DerivedInv == DerivedTypeOK /\ PathOfUses /\ Searching /\ Ordering /\ Evaluating /\ Refusal

(* What reaching an item means: naming it, or naming one that reaches it.      *)
LEMMA NamedIsReached ==
    ASSUME NEW i, NEW d \in uses[i]
    PROVE  Reaches(i, d)
BY DEF Reaches

(* What an item reaches names is reached too.                                 *)
LEMMA ReachedGoesOn ==
    ASSUME NEW i, NEW d, Reaches(i, d), NEW e \in uses[d]
    PROVE  Reaches(i, e)
BY DEF Reaches, Closed

(* What is reached from an item that one names is reached from it.            *)
LEMMA ReachesOver ==
    ASSUME NEW i, NEW d \in uses[i], NEW e, Reaches(d, e)
    PROVE  Reaches(i, e)
BY DEF Reaches, Closed

(* Nothing outside a set that names only its own is reached from in it.       *)
LEMMA ReachedIsWithin ==
    ASSUME NEW S \in SUBSET Items, Closed(S), NEW i \in S, NEW d, Reaches(i, d)
    PROVE  d \in S
BY DEF Reaches, Closed

(* One more, or one less, at the end of a sequence.                            *)
LEMMA Extended ==
    ASSUME NEW s \in Seq(Items), NEW i \in Items
    PROVE  /\ Append(s, i) \in Seq(Items)
           /\ Len(Append(s, i)) = Len(s) + 1
           /\ Append(s, i)[Len(s) + 1] = i
           /\ \A k \in 1..Len(s) : Append(s, i)[k] = s[k]
BY AppendProperties

LEMMA Shortened ==
    ASSUME NEW S, NEW s \in Seq(S), s # <<>>
    PROVE  /\ Len(s) \in Nat \ {0} /\ Len(s) > 0 /\ Len(s) \in 1..Len(s)
           /\ s[Len(s)] \in S
           /\ SubSeq(s, 1, Len(s) - 1) \in Seq(S)
           /\ Len(SubSeq(s, 1, Len(s) - 1)) = Len(s) - 1
           /\ \A k \in 1..(Len(s) - 1) : SubSeq(s, 1, Len(s) - 1)[k] = s[k]
<1> DEFINE n == Len(s)  front == SubSeq(s, 1, n - 1)
<1>1. n \in Nat /\ n > 0
  BY EmptySeq
<1>2. \A k \in 1..n : s[k] \in S
  BY ElementOfSeq
<1>3. /\ front \in Seq(S)
      /\ Len(front) = IF 1 <= n - 1 THEN n - 1 - 1 + 1 ELSE 0
      /\ \A k \in 1..(n - 1 - 1 + 1) : front[k] = s[1 + k - 1]
  BY <1>1, <1>2, SubSeqProperties
<1> HIDE DEF n, front
<1>4. Len(front) = n - 1 /\ n \in 1..n
  BY <1>1, <1>3
<1>5. \A k \in 1..(n - 1) : front[k] = s[k]
  BY <1>1, <1>3
<1>6. s[n] \in S
  BY <1>2, <1>4
<1> QED
  BY <1>1, <1>3, <1>4, <1>5, <1>6 DEF front, n

(* What comes before the end of the order is all of it.                        *)
LEMMA AllBefore ==
    ASSUME ordered \in Seq(Items), evaluated = Len(ordered)
    PROVE  Before(evaluated + 1) = ToSet(ordered)
<1>1. evaluated \in Nat /\ DOMAIN ordered = 1..evaluated
  BY LenProperties
<1> QED
  BY <1>1 DEF Before, ToSet

(* The invariant at the start, and kept by every step.                        *)
LEMMA InitDerived == DerivedInit => DerivedInv
<1> SUFFICES ASSUME DerivedInit PROVE DerivedInv
  OBVIOUS
<1>1. DerivedTypeOK
  BY DEF DerivedInit, DerivedTypeOK, Passes, Marks
<1>2. Len(path) = 0 /\ Len(ordered) = 0
  BY DEF DerivedInit
<1>3. PathOfUses /\ Searching
  BY <1>2 DEF DerivedInit, PathOfUses, Searching, Finished, Closed
<1>4. Ordering /\ Evaluating /\ Refusal
  BY <1>2 DEF DerivedInit, Ordering, Evaluating, Refusal, Before, Closed
<1> QED
  BY <1>1, <1>3, <1>4 DEF DerivedInv

(* A search goes on to an item that is not on its path.                        *)
LEMMA Deeper ==
    ASSUME DerivedTypeOK, PathOfUses, NEW i \in Items, IsNext(i),
           \A k \in 1..Len(path) : path[k] # i,
           path' = Append(path, i), uses' = uses
    PROVE  PathOfUses'
<1> DEFINE n == Len(path)
<1>1. /\ path \in Seq(Items) /\ n \in Nat
      /\ Len(path') = n + 1 /\ path'[n + 1] = i
      /\ \A k \in 1..n : path'[k] = path[k]
  BY Extended DEF DerivedTypeOK
<1>2. \A j, d : Reaches(j, d)' <=> Reaches(j, d)
  BY DEF Reaches, Closed
<1>3. n > 0 => i \in uses[path[n]]
  BY <1>1 DEF IsNext, Innermost
<1>4. \A j, k \in 1..(n + 1) : path'[j] = path'[k] => j = k
  BY <1>1 DEF PathOfUses
<1>5. ASSUME NEW k \in 1..n PROVE path'[k + 1] \in uses'[path'[k]]
  <2>1. CASE k = n
    BY <1>1, <1>3, <2>1
  <2>2. CASE k < n
    <3>1. k \in 1..(Len(path) - 1) /\ k + 1 \in 1..n
      BY <1>1, <2>2
    <3> QED
      BY <1>1, <3>1 DEF PathOfUses
  <2> QED
    BY <1>1, <2>1, <2>2
<1>6. ASSUME NEW j \in 1..(n + 1), NEW k \in 1..(n + 1), j < k
      PROVE  Reaches(path'[j], path'[k])
  <2>1. CASE k \in 1..n
    BY <1>1, <1>6, <2>1 DEF PathOfUses
  <2>2. CASE k = n + 1 /\ j = n
    BY <1>1, <1>3, <1>6, <2>2, NamedIsReached
  <2>3. CASE k = n + 1 /\ j < n
    <3>1. Reaches(path[j], path[n])
      BY <1>1, <1>6, <2>3 DEF PathOfUses
    <3> QED
      BY <1>1, <1>3, <2>3, <3>1, ReachedGoesOn
  <2> QED
    BY <1>1, <1>6, <2>1, <2>2, <2>3
<1> QED
  BY <1>1, <1>2, <1>4, <1>5, <1>6 DEF PathOfUses

(* A search that comes back is on a path of uses still.                       *)
LEMMA Shallower ==
    ASSUME DerivedTypeOK, PathOfUses, path # <<>>, path' = Outer, uses' = uses
    PROVE  PathOfUses'
<1>1. /\ Len(path) \in Nat \ {0} /\ Len(path') = Len(path) - 1
      /\ \A k \in 1..(Len(path) - 1) : path'[k] = path[k]
  BY Shortened DEF DerivedTypeOK, Outer
<1>2. \A j, d : Reaches(j, d)' <=> Reaches(j, d)
  BY DEF Reaches, Closed
<1> QED
  BY <1>1, <1>2 DEF PathOfUses

(* A pass that changes neither the path nor what items name.                   *)
LEMMA SamePath ==
    ASSUME PathOfUses, path' = path, uses' = uses
    PROVE  PathOfUses'
BY DEF PathOfUses, Reaches, Closed

(* What comes before a place stays while the order does.                      *)
LEMMA SameBefore ==
    ASSUME ordered' = ordered
    PROVE  \A k : Before(k)' = Before(k)
BY DEF Before

(* The parts later passes are about stay as they were while the search is on.  *)
LEMMA LaterPassesApart ==
    ASSUME DerivedTypeOK, Ordering, Evaluating, pass = "search", ordered = <<>>,
           pass' \in {"search", "refused"},
           UNCHANGED <<uses, ordered, evaluated, results, failures, broken>>
    PROVE  Ordering' /\ Evaluating'
<1>1. Ordering'
  BY DEF Ordering, Before
<1>2. Evaluating'
  BY DEF Evaluating, Before, Closed, Reaches
<1> QED
  BY <1>1, <1>2

(* find_cycle goes on to an item it has not visited.                          *)
LEMMA VisitKeeps ==
    ASSUME DerivedInv, NEW i \in Items, Visit(i)
    PROVE  DerivedInv'
<1> USE DEF DerivedInv
<1>1. DerivedTypeOK'
  BY Extended DEF DerivedTypeOK, Visit, Marks, Passes
<1>2. \A k \in 1..Len(path) : path[k] # i
  BY DEF Visit, Searching
<1>3. PathOfUses'
  BY <1>2, Deeper DEF Visit
<1>4. Finished' = Finished
  BY DEF Visit, Finished, DerivedTypeOK
<1>5. Searching'
  <2>1. /\ path \in Seq(Items) /\ Len(path) \in Nat
        /\ Len(path') = Len(path) + 1 /\ path'[Len(path) + 1] = i
        /\ \A k \in 1..Len(path) : path'[k] = path[k]
    BY Extended DEF Visit, DerivedTypeOK
  <2>2. ASSUME NEW j \in Items
        PROVE  marks'[j] = "inProgress" <=> \E k \in 1..Len(path') : path'[k] = j
    <3>1. CASE j = i
      BY <2>1, <3>1 DEF Visit, DerivedTypeOK
    <3>2. CASE j # i
      <4>1. marks'[j] = marks[j]
        BY <3>2 DEF Visit, DerivedTypeOK
      <4>2. (\E k \in 1..Len(path') : path'[k] = j) <=> \E k \in 1..Len(path) : path[k] = j
        BY <2>1, <3>2
      <4> QED
        BY <4>1, <4>2 DEF Visit, Searching
    <3> QED
      BY <3>1, <3>2
  <2>3. Closed(Finished)' /\ \A j \in Finished : ~Reaches(j, j)'
    BY <1>4 DEF Visit, Searching, Closed, Reaches
  <2> QED
    BY <1>4, <2>2, <2>3 DEF Visit, Searching
<1>6. Ordering' /\ Evaluating'
  BY LaterPassesApart DEF Visit, Searching
<1> QED
  BY <1>1, <1>3, <1>5, <1>6 DEF Visit, Refusal

(* An item in progress is met again: it is on the path, and the loop is the   *)
(* path from there on. It reaches itself.                                     *)
LEMMA RefuseKeeps ==
    ASSUME DerivedInv, NEW dep \in Items, RefuseLoop(dep)
    PROVE  DerivedInv'
<1> USE DEF DerivedInv
<1> DEFINE n == Len(path)
           start == CHOOSE k \in 1..Len(path) : path[k] = dep
<1>1. path \in Seq(Items) /\ n \in Nat \ {0} /\ path[n] \in Items
  BY Shortened DEF DerivedTypeOK, RefuseLoop
<1>2. dep \in uses[path[n]] /\ dep # path[n]
  BY <1>1 DEF RefuseLoop, Innermost, DerivedTypeOK
<1>3. \E k \in 1..n : path[k] = dep
  BY DEF RefuseLoop, MetItself, Searching
<1>4. start \in 1..n /\ path[start] = dep
  BY <1>3
<1>5. start < n
  BY <1>1, <1>2, <1>4
<1>6. loop' = Append(SubSeq(path, start, n), dep)
  BY <1>3 DEF RefuseLoop
<1> HIDE DEF start
<1>7. /\ SubSeq(path, start, n) \in Seq(Items)
      /\ Len(SubSeq(path, start, n)) = n - start + 1
      /\ \A k \in 1..(n - start + 1) : SubSeq(path, start, n)[k] = path[start + k - 1]
  BY <1>1, <1>4
<1>8. /\ loop' \in Seq(Items) /\ Len(loop') = n - start + 2
      /\ loop'[n - start + 2] = dep
      /\ \A k \in 1..(n - start + 1) : loop'[k] = path[start + k - 1]
  BY <1>1, <1>4, <1>5, <1>6, <1>7, Extended
<1>9. DerivedTypeOK'
  BY <1>8 DEF DerivedTypeOK, RefuseLoop, Passes
<1>10. Refusal'
  <2>1. Reaches(dep, dep)'
    <3>1. Reaches(path[start], path[n])
      BY <1>1, <1>4, <1>5 DEF PathOfUses
    <3>2. Reaches(dep, dep)
      BY <1>2, <1>4, <3>1, ReachedGoesOn
    <3> QED
      BY <3>2 DEF RefuseLoop, Reaches, Closed
  <2>2. Len(loop') > 2 /\ loop'[1] = loop'[Len(loop')]
    <3>1. n \in Nat /\ start \in Nat /\ start < n /\ 1 \in 1..(n - start + 1)
      BY <1>1, <1>4, <1>5
    <3>2. loop'[1] = path[start]
      <4>1. \A k \in 1..(n - start + 1) : k = 1 => start + k - 1 = start
        BY <3>1
      <4>2. \A k \in 1..(n - start + 1) : k = 1 => loop'[k] = path[start]
        BY <1>8, <4>1
      <4> QED
        BY <3>1, <4>2
    <3>3. loop'[1] = dep /\ loop'[Len(loop')] = dep
      BY <1>4, <1>8, <3>2
    <3>4. n - start + 2 > 2
      BY <3>1
    <3> QED
      BY <1>8, <3>3, <3>4
  <2>3. ASSUME NEW j \in 2..Len(loop'), NEW k \in 2..Len(loop'), loop'[j] = loop'[k]
        PROVE  j = k
    <3>1. \A m \in 2..Len(loop') :
             \/ m \in 1..(n - start + 1) /\ loop'[m] = path[start + m - 1]
             \/ m = n - start + 2 /\ loop'[m] = path[start]
      <4>1. n \in Nat /\ start \in Nat /\ start < n
        BY <1>1, <1>4, <1>5
      <4>2. \A m \in 2..(n - start + 2) : m \in 1..(n - start + 1) \/ m = n - start + 2
        BY <4>1
      <4> QED
        BY <1>4, <1>8, <4>2
    <3>2. \A m \in 1..(n - start + 1) : start + m - 1 \in 1..n
      BY <1>1, <1>4
    <3>3. \A p, q \in 1..n : path[p] = path[q] => p = q
      BY DEF PathOfUses
    <3>4. \A m \in 2..Len(loop') : \E p \in 1..n :
             /\ loop'[m] = path[p]
             /\ (m \in 1..(n - start + 1) /\ p = start + m - 1) \/ (m = n - start + 2 /\ p = start)
      BY <1>4, <3>1, <3>2
    <3>5. PICK p \in 1..n :
             /\ loop'[j] = path[p]
             /\ (j \in 1..(n - start + 1) /\ p = start + j - 1) \/ (j = n - start + 2 /\ p = start)
      BY <2>3, <3>4
    <3>6. PICK q \in 1..n :
             /\ loop'[k] = path[q]
             /\ (k \in 1..(n - start + 1) /\ q = start + k - 1) \/ (k = n - start + 2 /\ q = start)
      BY <2>3, <3>4
    <3>7. p = q
      BY <2>3, <3>3, <3>5, <3>6
    <3>8. /\ n \in Nat /\ start \in Nat /\ j \in Nat /\ k \in Nat /\ j >= 2 /\ k >= 2
      BY <1>1, <1>4, <1>8, <2>3
    <3> QED
      BY <3>5, <3>6, <3>7, <3>8
  <2>4. ASSUME NEW k \in 1..(Len(loop') - 1) PROVE loop'[k + 1] \in uses'[loop'[k]]
    <3> DEFINE q == start + k - 1
    <3>1. k \in 1..(n - start + 1) /\ q \in 1..n
      BY <1>1, <1>4, <1>8
    <3>2. loop'[k] = path[q] /\ uses' = uses
      BY <1>8, <3>1 DEF RefuseLoop
    <3> HIDE DEF q
    <3>3. CASE q = n
      <4>1. loop'[k + 1] = dep
        BY <1>1, <1>4, <1>8, <3>3 DEF q
      <4> QED
        BY <1>2, <3>2, <3>3, <4>1
    <3>4. CASE q < n
      <4>1. k + 1 \in 1..(n - start + 1) /\ q + 1 = start + (k + 1) - 1
        BY <1>1, <1>4, <1>8, <3>4 DEF q
      <4>2. loop'[k + 1] = path[q + 1]
        BY <1>8, <4>1
      <4>3. q \in 1..(Len(path) - 1)
        BY <1>1, <3>1, <3>4
      <4>4. path[q + 1] \in uses[path[q]]
        BY <4>3 DEF PathOfUses
      <4> QED
        BY <3>2, <4>2, <4>4
    <3> QED
      BY <1>1, <3>1, <3>3, <3>4
  <2> QED
    BY <2>1, <2>2, <2>3, <2>4 DEF Refusal
<1>11. Ordering' /\ Evaluating'
  BY LaterPassesApart DEF RefuseLoop, Searching
<1> QED
  BY <1>9, <1>10, <1>11, SamePath DEF RefuseLoop, Searching

(* An item whose own items are all finished is finished, and not on a loop:   *)
(* what it reaches is finished, and it was not.                               *)
LEMMA LeaveKeeps ==
    ASSUME DerivedInv, Leave
    PROVE  DerivedInv'
<1> USE DEF DerivedInv
<1> DEFINE n == Len(path)  top == path[Len(path)]
<1>1. /\ path \in Seq(Items) /\ n \in Nat \ {0} /\ top \in Items
      /\ path' \in Seq(Items) /\ Len(path') = n - 1
      /\ \A k \in 1..(n - 1) : path'[k] = path[k]
  BY Shortened DEF DerivedTypeOK, Leave, Outer
<1>2. DerivedTypeOK'
  BY <1>1 DEF DerivedTypeOK, Leave, Marks, Innermost
<1>3. PathOfUses'
  BY Shallower DEF Leave
<1>4. marks[top] = "inProgress" /\ top \notin Finished
  BY <1>1 DEF Leave, Searching, Finished
<1>5. Finished' = Finished \union {top}
  BY <1>1 DEF Leave, Innermost, Finished, DerivedTypeOK
<1>6. uses[top] \subseteq Finished
  BY <1>1 DEF Leave, Innermost, Finished, DerivedTypeOK
<1>7. ~Reaches(top, top)
  <2>1. Closed(Finished) /\ Finished \in SUBSET Items
    BY DEF Leave, Searching, Finished
  <2> QED
    BY <1>4, <1>6, <2>1 DEF Reaches
<1>8. Searching'
  <2>1. ASSUME NEW j \in Items
        PROVE  marks'[j] = "inProgress" <=> \E k \in 1..Len(path') : path'[k] = j
    <3>1. CASE j = top
      <4>1. marks'[j] = "done"
        BY <1>1, <3>1 DEF Leave, Innermost, DerivedTypeOK
      <4>2. \A k \in 1..(n - 1) : path[k] # top
        BY <1>1 DEF PathOfUses
      <4> QED
        BY <1>1, <3>1, <4>1, <4>2
    <3>2. CASE j # top
      <4>1. marks'[j] = marks[j]
        BY <1>1, <3>2 DEF Leave, Innermost, DerivedTypeOK
      <4>2. (\E k \in 1..Len(path') : path'[k] = j) <=> \E k \in 1..n : path[k] = j
        BY <1>1, <3>2
      <4> QED
        BY <4>1, <4>2 DEF Leave, Searching
    <3> QED
      BY <3>1, <3>2
  <2>2. Closed(Finished)'
    BY <1>5, <1>6 DEF Leave, Searching, Closed
  <2>3. \A j \in Finished' : ~Reaches(j, j)'
    BY <1>5, <1>7 DEF Leave, Searching, Reaches, Closed
  <2> QED
    BY <2>1, <2>2, <2>3 DEF Leave, Searching
<1>9. Ordering' /\ Evaluating'
  BY LaterPassesApart DEF Leave, Searching
<1> QED
  BY <1>2, <1>3, <1>8, <1>9 DEF Leave, Refusal

(* With all items finished no item reaches itself.                            *)
LEMMA NoCycleKeeps ==
    ASSUME DerivedInv, NoCycle
    PROVE  DerivedInv'
<1> USE DEF DerivedInv
<1>1. DerivedTypeOK' /\ PathOfUses' /\ Searching' /\ Refusal'
  BY SamePath DEF NoCycle, DerivedTypeOK, Searching, Refusal, Passes
<1>2. Acyclic'
  BY DEF NoCycle, Acyclic, Searching, Finished, Reaches, Closed
<1>3. ordered = <<>> /\ Len(ordered) = 0 /\ Len(path) = 0
  BY DEF NoCycle, Searching
<1>4. Ordering'
  BY <1>2, <1>3 DEF NoCycle, Ordering
<1>5. Evaluating'
  BY DEF NoCycle, Evaluating, Before, Closed, Reaches
<1> QED
  BY <1>1, <1>4, <1>5

(* evaluation_order goes on to an item that is not yet in order; with no loop *)
(* in the graph that is never one it is within.                               *)
LEMMA VisitInOrderKeeps ==
    ASSUME DerivedInv, NEW i \in Items, VisitInOrder(i)
    PROVE  DerivedInv'
<1> USE DEF DerivedInv
<1>1. DerivedTypeOK'
  BY Extended DEF DerivedTypeOK, VisitInOrder
<1>2. \A k \in 1..Len(path) : path[k] # i
  <2> SUFFICES ASSUME NEW k \in 1..Len(path), path[k] = i PROVE FALSE
    OBVIOUS
  <2>1. path \in Seq(Items) /\ path # <<>> /\ Len(path) \in Nat
    BY DEF DerivedTypeOK
  <2>2. i \in uses[path[Len(path)]]
    BY <2>1 DEF VisitInOrder, IsNext, Innermost
  <2>3. Reaches(i, i)
    <3>1. CASE k = Len(path)
      BY <2>2, <3>1, NamedIsReached
    <3>2. CASE k < Len(path)
      <4>1. Reaches(i, path[Len(path)])
        BY <2>1, <3>2 DEF PathOfUses
      <4> QED
        BY <2>2, <4>1, ReachedGoesOn
    <3> QED
      BY <2>1, <3>1, <3>2
  <2> QED
    BY <2>3 DEF VisitInOrder, Ordering, Acyclic
<1>3. PathOfUses'
  BY <1>2, Deeper DEF VisitInOrder
<1>4. Ordering'
  <2>1. /\ Len(path) \in Nat /\ Len(path') = Len(path) + 1 /\ path'[Len(path) + 1] = i
        /\ \A k \in 1..Len(path) : path'[k] = path[k]
    BY Extended DEF VisitInOrder, DerivedTypeOK
  <2>2. \A k \in 1..Len(path') : path'[k] \notin ToSet(ordered)'
    BY <2>1 DEF VisitInOrder, Ordering
  <2>3. Acyclic'
    BY DEF VisitInOrder, Ordering, Acyclic, Reaches, Closed
  <2> QED
    BY <2>2, <2>3, SameBefore DEF VisitInOrder, Ordering
<1>5. Evaluating'
  BY DEF VisitInOrder, Evaluating, Before, Closed, Reaches
<1> QED
  BY <1>1, <1>3, <1>4, <1>5 DEF VisitInOrder, Searching, Refusal

(* An item is put in order when all it names are.                             *)
LEMMA PutInOrderKeeps ==
    ASSUME DerivedInv, PutInOrder
    PROVE  DerivedInv'
<1> USE DEF DerivedInv
<1> DEFINE n == Len(path)  top == path[Len(path)]  m == Len(ordered)
<1>1. /\ path \in Seq(Items) /\ n \in Nat \ {0} /\ top \in Items
      /\ path' \in Seq(Items) /\ Len(path') = n - 1
      /\ \A k \in 1..(n - 1) : path'[k] = path[k]
  BY Shortened DEF DerivedTypeOK, PutInOrder, Outer
<1>2. /\ ordered \in Seq(Items) /\ ordered' \in Seq(Items) /\ m \in Nat
      /\ Len(ordered') = m + 1 /\ ordered'[m + 1] = top
      /\ \A k \in 1..m : ordered'[k] = ordered[k]
  BY <1>1, Extended DEF PutInOrder, DerivedTypeOK, Innermost
<1>3. evaluated = 0
  BY DEF PutInOrder, Evaluating
<1>4. DerivedTypeOK'
  BY <1>1, <1>2, <1>3 DEF DerivedTypeOK, PutInOrder
<1>5. PathOfUses'
  BY Shallower DEF PutInOrder
<1>6. top \notin ToSet(ordered) /\ uses[top] \subseteq ToSet(ordered)
  BY <1>1 DEF PutInOrder, Ordering, Innermost
<1>7. Ordering'
  <2>1. ToSet(ordered) = {ordered[k] : k \in 1..m}
    BY <1>2 DEF ToSet
  <2>2. ToSet(ordered') = ToSet(ordered) \union {top}
    BY <1>2 DEF ToSet
  <2>3. \A k \in 1..(m + 1) : Before(k)' = Before(k)
    BY <1>2 DEF Before
  <2>4. \A j, k \in 1..(m + 1) : ordered'[j] = ordered'[k] => j = k
    BY <1>2, <1>6, <2>1 DEF Ordering
  <2>5. ASSUME NEW k \in 1..(m + 1) PROVE uses'[ordered'[k]] \subseteq Before(k)'
    <3>1. CASE k = m + 1
      <4>1. Before(k) = ToSet(ordered)
        BY <1>2, <2>1, <3>1 DEF Before
      <4> QED
        BY <1>2, <1>6, <2>3, <3>1, <4>1 DEF PutInOrder
    <3>2. CASE k \in 1..m
      BY <1>2, <2>3, <3>2 DEF PutInOrder, Ordering
    <3> QED
      BY <1>2, <3>1, <3>2
  <2>6. \A k \in 1..Len(path') : path'[k] \notin ToSet(ordered')
    <3>1. \A k \in 1..(n - 1) : path[k] # top /\ path[k] \notin ToSet(ordered)
      BY <1>1 DEF PathOfUses, PutInOrder, Ordering
    <3> QED
      BY <1>1, <2>2, <3>1
  <2>7. Acyclic'
    BY DEF PutInOrder, Ordering, Acyclic, Reaches, Closed
  <2> QED
    BY <1>2, <2>4, <2>5, <2>6, <2>7 DEF PutInOrder, Ordering
<1>8. Evaluating'
  <2>1. Before(1) = {} /\ Before(1)' = {}
    BY DEF Before
  <2> QED
    BY <1>3, <2>1 DEF PutInOrder, Evaluating, Closed, Reaches
<1> QED
  BY <1>4, <1>5, <1>7, <1>8 DEF PutInOrder, Searching, Refusal

(* The order has every item once all were put in it.                          *)
LEMMA InOrderKeeps ==
    ASSUME DerivedInv, InOrder
    PROVE  DerivedInv'
<1> USE DEF DerivedInv
<1>1. DerivedTypeOK' /\ PathOfUses' /\ Searching' /\ Refusal'
  BY SamePath DEF InOrder, DerivedTypeOK, Searching, Refusal, Passes
<1>2. Acyclic'
  BY DEF InOrder, Ordering, Acyclic, Reaches, Closed
<1>3. Ordering'
  BY <1>2 DEF InOrder, Ordering, Before
<1>4. Evaluating'
  BY DEF InOrder, Evaluating, Before, Closed, Reaches
<1> QED
  BY <1>1, <1>3, <1>4

(* Evaluating an item: it fails when its own expression is wrong or when one   *)
(* that it names has failed.                                                   *)
LEMMA EvaluateKeeps ==
    ASSUME DerivedInv, NEW i \in Items, Evaluate(i)
    PROVE  DerivedInv'
<1> USE DEF DerivedInv
<1>1. /\ ordered \in Seq(Items) /\ Len(ordered) \in Nat /\ evaluated \in Nat
      /\ evaluated + 1 \in 1..Len(ordered) /\ i = ordered[evaluated + 1]
  BY DEF DerivedTypeOK, Evaluate
<1>2. DerivedTypeOK'
  BY <1>1 DEF DerivedTypeOK, Evaluate
<1>3. PathOfUses' /\ Searching' /\ Refusal'
  BY SamePath DEF Evaluate, Searching, Refusal
<1>4. Ordering'
  BY DEF Evaluate, Ordering, Before, Acyclic, Reaches, Closed
<1>5. i \notin results \union failures
  BY <1>1 DEF Ordering, Evaluating, Before
<1>6. evaluated' = evaluated + 1 /\ Before(evaluated + 2) = Before(evaluated + 1) \union {i}
  BY <1>1 DEF Evaluate, Before
<1>7. (results \union failures)' = results \union failures \union {i}
  BY DEF Evaluate
<1>8. Before(evaluated + 1)' = results \union failures \union {i}
  <2>1. (evaluated + 1)' = evaluated + 2 /\ results \union failures = Before(evaluated + 1)
    BY <1>1, <1>6 DEF Evaluating
  <2>2. Before(evaluated + 1)' = Before(evaluated + 2)
    BY <2>1 DEF Before, Evaluate
  <2> QED
    BY <1>6, <2>1, <2>2
<1>9. (results \intersect failures)' = {}
  BY <1>5 DEF Evaluate, Evaluating
<1>10. Closed(results)'
  BY DEF Evaluate, Evaluating, Closed, AllItNames
<1>11. \A j, d : Reaches(j, d)' <=> Reaches(j, d)
  BY DEF Evaluate, Reaches, Closed
<1>12. ASSUME NEW j \in failures' PROVE j \in broken' \/ \E d \in broken' : Reaches(j, d)
  <2>1. broken \subseteq broken'
    BY DEF Evaluate
  <2>2. CASE j \in failures
    BY <2>1, <2>2 DEF Evaluating
  <2>3. CASE j = i /\ AllItNames(i)
    BY <1>5, <1>12, <2>3 DEF Evaluate
  <2>4. CASE j = i /\ ~AllItNames(i)
    <3>1. PICK d \in uses[i] : d \notin results
      BY <2>4 DEF AllItNames
    <3>2. d \in results \union failures
      BY <1>1, <3>1 DEF Ordering, Evaluating
    <3>3. d \in broken \/ \E e \in broken : Reaches(d, e)
      BY <3>1, <3>2 DEF Evaluating
    <3> QED
      BY <2>1, <2>4, <3>1, <3>3, NamedIsReached, ReachesOver
  <2> QED
    BY <1>12, <2>2, <2>3, <2>4 DEF Evaluate
<1>13. Evaluating'
  <2>1. \A j \in failures' : j \in broken' \/ \E d \in broken' : Reaches(j, d)'
    BY <1>11, <1>12
  <2>2. /\ (pass \notin {"evaluate", "done"})' => evaluated' = 0
        /\ (pass = "done")' => (evaluated = Len(ordered))'
    BY DEF Evaluate
  <2> QED
    BY <1>7, <1>8, <1>9, <1>10, <2>1, <2>2 DEF Evaluating
<1> QED
  BY <1>2, <1>3, <1>4, <1>13

(* The last item was evaluated.                                               *)
LEMMA EvaluatedKeeps ==
    ASSUME DerivedInv, Evaluated
    PROVE  DerivedInv'
<1> USE DEF DerivedInv
<1>1. DerivedTypeOK' /\ PathOfUses' /\ Searching' /\ Refusal'
  BY SamePath DEF Evaluated, DerivedTypeOK, Searching, Refusal, Passes
<1>2. Ordering'
  BY DEF Evaluated, Ordering, Before, Acyclic, Reaches, Closed
<1>3. Evaluating'
  BY DEF Evaluated, Evaluating, Before, Closed, Reaches
<1> QED
  BY <1>1, <1>2, <1>3

(* Steps of other parts of the system.                                        *)
LEMMA DerivedStutters ==
    ASSUME DerivedInv, UNCHANGED derivedVars
    PROVE  DerivedInv'
<1>1. DerivedTypeOK' /\ PathOfUses' /\ Searching' /\ Refusal'
  BY SamePath DEF DerivedInv, derivedVars, DerivedTypeOK, Searching, Refusal, Finished,
                  Closed, Reaches
<1>2. Ordering'
  BY SameBefore DEF DerivedInv, derivedVars, Ordering, Acyclic, Closed, Reaches
<1>3. Evaluating'
  BY DEF DerivedInv, derivedVars, Evaluating, Before, Closed, Reaches
<1> QED
  BY <1>1, <1>2, <1>3 DEF DerivedInv

(* What the passes leave behind is what was promised.                          *)
LEMMA DerivedPromise == DerivedInv => OnlyItsOwnChainBreaksIt
<1> SUFFICES ASSUME DerivedInv, pass = "done"
             PROVE  /\ \A i \in Items : ~Reaches(i, i)
                    /\ ToSet(ordered) = Items
                    /\ \A j, k \in 1..Len(ordered) :
                         /\ ordered[j] = ordered[k] => j = k
                         /\ ordered[j] \in uses[ordered[k]] => j < k
                    /\ results \union failures = Items /\ results \intersect failures = {}
                    /\ \A i \in Items :
                         i \in failures <=> i \in broken \/ \E d \in broken : Reaches(i, d)
  BY DEF DerivedInv, Refusal, OnlyItsOwnChainBreaksIt
<1>1. (\A i \in Items : ~Reaches(i, i)) /\ ToSet(ordered) = Items
  BY DEF DerivedInv, Ordering, Acyclic
<1>2. Len(ordered) \in Nat /\ \A j, k \in 1..Len(ordered) : ordered[j] = ordered[k] => j = k
  BY DEF DerivedInv, DerivedTypeOK, Ordering
<1>3. ASSUME NEW j \in 1..Len(ordered), NEW k \in 1..Len(ordered),
             ordered[j] \in uses[ordered[k]]
      PROVE  j < k
  <2>1. PICK b \in 1..(k - 1) : ordered[j] = ordered[b]
    BY <1>3 DEF DerivedInv, Ordering, Before
  <2> QED
    BY <1>2, <2>1
<1>4. results \union failures = Items /\ results \intersect failures = {}
  <2>1. Before(evaluated + 1) = ToSet(ordered)
    <3>1. evaluated = Len(ordered) /\ ordered \in Seq(Items)
      BY DEF DerivedInv, DerivedTypeOK, Evaluating
    <3> QED
      BY <3>1, AllBefore
  <2> QED
    BY <1>1, <2>1 DEF DerivedInv, Evaluating
<1>5. ASSUME NEW i \in Items, i \in broken \/ \E d \in broken : Reaches(i, d)
      PROVE  i \in failures
  <2>1. broken \subseteq failures
    BY DEF DerivedInv, DerivedTypeOK
  <2>2. Closed(results) /\ results \in SUBSET Items
    BY DEF DerivedInv, DerivedTypeOK, Evaluating
  <2> QED
    BY <1>4, <1>5, <2>1, <2>2, ReachedIsWithin
<1>6. \A i \in failures : i \in broken \/ \E d \in broken : Reaches(i, d)
  BY DEF DerivedInv, Evaluating
<1> QED
  BY <1>1, <1>2, <1>3, <1>4, <1>5, <1>6

(* For every set of items and whatever they name: the set is refused exactly  *)
(* when an item reaches itself, with a loop of its own; otherwise every item  *)
(* is evaluated once, after all it names, and fails exactly when its own      *)
(* expression or that of an item it reaches is wrong (find_cycle,             *)
(* evaluation_order and evaluate of DerivedSet).                              *)
THEOREM ChainsOnly == DerivedSpec => []OnlyItsOwnChainBreaksIt
<1>1. ASSUME DerivedInv, [DerivedNext]_derivedVars PROVE DerivedInv'
  <2>1. ASSUME NEW i \in Items, Visit(i) \/ RefuseLoop(i) \/ VisitInOrder(i) \/ Evaluate(i)
        PROVE  DerivedInv'
    BY <1>1, <2>1, VisitKeeps, RefuseKeeps, VisitInOrderKeeps, EvaluateKeeps
  <2>2. CASE Leave \/ NoCycle \/ PutInOrder \/ InOrder \/ Evaluated
    BY <1>1, <2>2, LeaveKeeps, NoCycleKeeps, PutInOrderKeeps, InOrderKeeps, EvaluatedKeeps
  <2> QED
    BY <1>1, <2>1, <2>2, DerivedStutters DEF DerivedNext
<1> QED
  BY <1>1, InitDerived, DerivedPromise, PTL DEF DerivedSpec

(* A set of numbers that is not empty has a least one.                         *)
LEMMA LeastOf ==
    ASSUME NEW S \in SUBSET Nat, S # {}
    PROVE  \E m \in S : \A k \in S : m <= k
<1>1. PICK m \in S : \A k \in S : ~(<<k, m>> \in OpToRel(<, Nat))
  BY NatLessThanWellFounded, WFMin, Zenon
<1>2. ASSUME NEW k \in S PROVE ~(k < m)
  <2>1. k \in Nat /\ m \in Nat /\ ~(<<k, m>> \in OpToRel(<, Nat))
    BY <1>1
  <2> QED
    BY <2>1, Zenon DEF OpToRel
<1> QED
  BY <1>2

----------------------------------------------------------------------------

(* The axis a radargram's trace times come to, for every number of traces,     *)
(* whatever the times, and for every MAX_TIEPOINTS of two or more: THEOREM     *)
(* AxisPlaces. Of tiepoints next to each other, every trace between is within  *)
(* its tolerance, or the stretch is still on the stack or in hand, once        *)
(* (Reducing); the worst trace of the one in hand is the one furthest past its *)
(* own tolerance of those looked at (Examining), so that when it is within it  *)
(* all are. What is placed rises in trace and in time, from the first trace on,*)
(* and ends with the last (Placing); with no ties all tiepoints go in.         *)

TiepointTypeOK ==
    /\ times \in Seq(0..Latest)
    /\ making \in {"begin", "reduce", "examine", "place", "made", "none"}
    /\ kept \subseteq 1..LastTrace
    /\ pendingSpans \in Seq((1..LastTrace) \X (1..LastTrace))
    /\ first \in Nat /\ last \in Nat /\ next \in Nat /\ worst \in Nat
    /\ toPlace \subseteq 1..LastTrace
    /\ axis \in Seq(1..LastTrace)

TimesOK == times \in Seq(0..Latest)

NoTies == \A i \in 1..LastTrace : ~Tied(i)

(* Times and traces are natural numbers.                                       *)
LEMMA TimesAreNatural ==
    ASSUME TimesOK
    PROVE  LastTrace \in Nat /\ \A i \in 1..LastTrace : times[i] \in 0..Latest /\ times[i] \in Nat
<1>1. LastTrace \in Nat /\ \A i \in 1..LastTrace : times[i] \in 0..Latest
  BY ElementOfSeq, LenProperties DEF TimesOK, LastTrace
<1> QED
  BY <1>1, TiepointsAssumption

(* Times that do not go back from one trace to the next go back nowhere, and   *)
(* rise everywhere where no two neighbours share one.                          *)
LEMMA TimesRise ==
    ASSUME TimesOK, Advancing, NEW a \in 1..LastTrace, NEW b \in 1..LastTrace, a < b
    PROVE  times[a] <= times[b] /\ (NoTies => times[a] < times[b])
<1> DEFINE Good(j) == times[a] <= times[j] /\ (NoTies => times[a] < times[j])
           Bad == {j \in (a + 1)..b : ~Good(j)}
<1>1. LastTrace \in Nat /\ \A i \in 1..LastTrace : times[i] \in Nat
  BY TimesAreNatural
<1>2. \A i \in 1..(LastTrace - 1) :
        times[i] <= times[i + 1] /\ (NoTies => times[i] < times[i + 1])
  <2> TAKE i \in 1..(LastTrace - 1)
  <2>1. times[i] <= times[i + 1]
    BY DEF Advancing
  <2>2. ASSUME NoTies PROVE times[i] # times[i + 1]
    <3>1. i \in 1..LastTrace /\ i + 1 \in {i - 1, i + 1} \intersect DOMAIN times
      BY <1>1, LenProperties DEF LastTrace, TimesOK
    <3>2. ~Tied(i)
      BY <2>2, <3>1 DEF NoTies
    <3> QED
      BY <3>1, <3>2 DEF Tied
  <2>3. times[i] \in Nat /\ times[i + 1] \in Nat
    BY <1>1
  <2> QED
    BY <2>1, <2>2, <2>3
<1>3. Bad = {}
  <2> SUFFICES ASSUME Bad # {} PROVE FALSE
    OBVIOUS
  <2>1. Bad \in SUBSET Nat
    BY <1>1
  <2>2. PICK m \in Bad : \A k \in Bad : m <= k
    BY <2>1, LeastOf
  <2>3. m \in (a + 1)..b /\ m - 1 \in 1..(LastTrace - 1) /\ (m - 1) + 1 = m
    BY <1>1
  <2>4. times[m - 1] <= times[m] /\ (NoTies => times[m - 1] < times[m])
    BY <1>2, <2>3
  <2>5. times[m - 1] \in Nat /\ times[m] \in Nat /\ times[a] \in Nat
    BY <1>1, <2>3
  <2>6. CASE m - 1 = a
    BY <2>2, <2>4, <2>5, <2>6
  <2>7. CASE m - 1 # a
    <3>1. m - 1 \in (a + 1)..b /\ m - 1 \notin Bad
      BY <1>1, <2>2, <2>3, <2>7
    <3>2. Good(m - 1)
      BY <3>1
    <3> QED
      BY <2>2, <2>4, <2>5, <3>2
  <2> QED
    BY <2>6, <2>7
<1> QED
  BY <1>1, <1>3

----------------------------------------------------------------------------

(* There is a gap in the middle, so the one that is typical is positive.       *)
LEMMA MiddleExists ==
    ASSUME TimesOK, Advances # {}
    PROVE  TypicalGaps # {} /\ TypicalGaps \subseteq 1..Latest
<1> DEFINE Upto(c) == {j \in Advances : GapAfter(j) <= c}
           middle == Cardinality(Advances) \div 2
           High == {c \in Nat : middle < Cardinality(Upto(c))}
<1>1. /\ LastTrace \in Nat
      /\ \A i \in 1..LastTrace : times[i] \in 0..Latest /\ times[i] \in Nat
  BY TimesAreNatural
<1>2. Latest \in Nat
  BY TiepointsAssumption
<1>3. \A j \in Advances : GapAfter(j) \in 1..Latest
  <2> TAKE j \in Advances
  <2>1. j \in 1..LastTrace /\ j + 1 \in 1..LastTrace
    BY <1>1 DEF Advances
  <2>2. times[j] \in 0..Latest /\ times[j + 1] \in 0..Latest
    BY <1>1, <2>1
  <2> QED
    BY <1>2, <2>2 DEF Advances, GapAfter
<1>4. IsFiniteSet(Advances)
  <2>1. Advances \in SUBSET (1..(LastTrace - 1)) /\ IsFiniteSet(1..(LastTrace - 1))
    BY <1>1, FS_Interval DEF Advances
  <2> QED
    BY <2>1, FS_Subset
<1>5. Cardinality(Advances) \in Nat /\ Cardinality(Advances) # 0
  BY <1>4, FS_CardinalityType, FS_EmptySet
<1>6. middle \in Nat /\ middle < Cardinality(Advances)
  BY <1>5
<1> HIDE DEF middle
<1>7. \A c : IsFiniteSet(Upto(c)) /\ Cardinality(Upto(c)) \in Nat
  <2> TAKE c
  <2>1. Upto(c) \in SUBSET Advances
    OBVIOUS
  <2> QED
    BY <1>4, <2>1, FS_Subset, FS_CardinalityType
<1>8. Latest \in High
  <2>1. Upto(Latest) = Advances
    BY <1>2, <1>3
  <2> QED
    BY <1>2, <1>6, <2>1
<1>9. PICK g \in High : \A c \in High : g <= c
  <2>1. High \in SUBSET Nat /\ High # {}
    BY <1>8
  <2> HIDE DEF High
  <2> QED
    BY <2>1, LeastOf
<1>10. g \in Nat /\ g <= Latest /\ middle < Cardinality(Upto(g))
  BY <1>8, <1>9
<1>11. {j \in Advances : GapAfter(j) < g} = Upto(g - 1)
  BY <1>3, <1>10
<1>12. Cardinality(Upto(g - 1)) <= middle
  <2>1. CASE g = 0
    <3>1. Upto(g - 1) = {}
      BY <1>3, <2>1
    <3> QED
      BY <1>6, <3>1, FS_EmptySet
  <2>2. CASE g # 0
    <3>1. g - 1 \in Nat /\ g - 1 \notin High
      BY <1>9, <1>10, <2>2
    <3> QED
      BY <1>6, <1>7, <3>1
  <2> QED
    BY <2>1, <2>2
<1>13. g \in {GapAfter(j) : j \in Advances}
  <2> SUFFICES ASSUME \A j \in Advances : GapAfter(j) # g PROVE FALSE
    OBVIOUS
  <2>1. Upto(g - 1) = Upto(g)
    BY <1>3, <1>10
  <2> QED
    BY <1>6, <1>7, <1>10, <1>12, <2>1
<1>14. g \in TypicalGaps
  BY <1>10, <1>11, <1>12, <1>13 DEF TypicalGaps, middle
<1> QED
  BY <1>3, <1>14 DEF TypicalGaps

(* Every trace took some time, so its tolerance is positive.                   *)
LEMMA GapIsPositive ==
    ASSUME TimesOK, NEW i
    PROVE  Gap(i) \in Nat /\ Gap(i) > 0
<1>1. CASE GapsAbout(i) = {}
  <2>1. TypicalGap \in Nat /\ TypicalGap > 0
    <3>1. CASE Advances = {}
      BY <3>1 DEF TypicalGap
    <3>2. CASE Advances # {}
      <4>1. TypicalGaps # {} /\ TypicalGaps \in SUBSET Nat /\ \A g \in TypicalGaps : g > 0
        BY <3>2, MiddleExists, TiepointsAssumption
      <4>2. Min(TypicalGaps) \in TypicalGaps
        BY <4>1, LeastOf DEF Min
      <4> QED
        BY <3>2, <4>1, <4>2 DEF TypicalGap
    <3> QED
      BY <3>1, <3>2
  <2> QED
    BY <1>1, <2>1 DEF Gap
<1>2. CASE GapsAbout(i) # {}
  <2>1. LastTrace \in Nat /\ \A j \in 1..LastTrace : times[j] \in Nat
    BY TimesAreNatural
  <2>2. \A j \in Advances : GapAfter(j) \in Nat /\ GapAfter(j) > 0
    <3> TAKE j \in Advances
    <3>1. j \in 1..LastTrace /\ j + 1 \in 1..LastTrace
      BY <2>1 DEF Advances
    <3>2. times[j] \in Nat /\ times[j + 1] \in Nat
      BY <2>1, <3>1
    <3> QED
      BY <3>2 DEF Advances, GapAfter
  <2>3. GapsAbout(i) \in SUBSET Nat /\ \A g \in GapsAbout(i) : g > 0
    BY <2>2 DEF GapsAbout
  <2>4. \E m \in GapsAbout(i) : \A k \in GapsAbout(i) : m <= k
    BY <1>2, <2>3, LeastOf
  <2>5. Min(GapsAbout(i)) \in GapsAbout(i)
    BY <2>4 DEF Min
  <2> QED
    BY <1>2, <2>3, <2>5 DEF Gap
<1> QED
  BY <1>1, <1>2

----------------------------------------------------------------------------
(* Ratios compared by cross-multiplying.                                       *)

(* A positive factor may be left out, and                                      *)
LEMMA Cancel ==
    ASSUME NEW a \in Int, NEW b \in Int, NEW c \in Nat, c > 0, a * c <= b * c
    PROVE  a <= b
<1> SUFFICES ASSUME a >= b + 1 PROVE FALSE
  OBVIOUS
<1>1. (a - b) * c >= c
  <2>1. a - b - 1 \in Nat
    OBVIOUS
  <2>2. \A x, y \in Nat : x * y \in Nat
    OBVIOUS
  <2>3. (a - b - 1) * c \in Nat
    BY <2>1, <2>2
  <2>4. (a - b) * c = (a - b - 1) * c + c
    OBVIOUS
  <2> QED
    BY <2>3, <2>4
<1>2. a * c = b * c + (a - b) * c
  OBVIOUS
<1>3. a * c \in Int /\ b * c \in Int /\ (a - b) * c \in Int
  OBVIOUS
<1> QED
  BY <1>1, <1>2, <1>3

(* put in.                                                                     *)
LEMMA ScaledOrder ==
    ASSUME NEW a \in Int, NEW b \in Int, NEW c \in Nat, a <= b
    PROVE  a * c <= b * c
<1>1. b - a \in Nat
  OBVIOUS
<1>2. \A x, y \in Nat : x * y \in Nat
  OBVIOUS
<1>3. (b - a) * c \in Nat
  BY <1>1, <1>2
<1>4. b * c = a * c + (b - a) * c
  OBVIOUS
<1>5. a * c \in Int /\ b * c \in Int
  OBVIOUS
<1> QED
  BY <1>3, <1>4, <1>5

(* What is no worse than something no worse than a third is no worse than it.  *)
LEMMA NoWorseThan ==
    ASSUME NEW a \in Nat, NEW b \in Nat, NEW c \in Nat,
           NEW x \in Nat, NEW y \in Nat, NEW z \in Nat, y > 0,
           a * y <= b * x, b * z <= c * y
    PROVE  a * z <= c * x
<1>1. (a * y) * z <= (b * x) * z
  BY ScaledOrder
<1>2. (b * z) * x <= (c * y) * x
  BY ScaledOrder
<1>3. (a * z) * y = (a * y) * z /\ (b * x) * z = (b * z) * x /\ (c * y) * x = (c * x) * y
  OBVIOUS
<1>4. (a * z) * y <= (c * x) * y
  <2>1. \A p, q \in Nat : p * q \in Nat
    OBVIOUS
  <2>2. (a * y) * z \in Int /\ (b * x) * z \in Int /\ (c * y) * x \in Int
    BY <2>1
  <2> QED
    BY <1>1, <1>2, <1>3, <2>2
<1>5. a * z \in Int /\ c * x \in Int
  OBVIOUS
<1> QED
  BY <1>4, <1>5, Cancel


(* How far a trace is from a line is a natural number, and nothing at its ends.*)
LEMMA OffLineIsNatural ==
    ASSUME TimesOK, NEW a \in 1..LastTrace, NEW b \in 1..LastTrace, NEW i \in 1..LastTrace
    PROVE  /\ OffLine(a, b, i) \in Nat
           /\ OffLine(a, b, a) = 0 /\ OffLine(a, b, b) = 0
<1>1. a \in Int /\ b \in Int /\ i \in Int /\ \A j \in {a, b, i} : times[j] \in Int
  BY TimesAreNatural
<1>2. \A x, y \in Int : Distance(x, y) \in Nat /\ Distance(x, x) = 0
  BY DEF Distance
<1>3. \A x, y \in Int : x * y \in Int
  OBVIOUS
<1>4. ASSUME NEW j \in {a, b, i}
      PROVE  /\ times[j] * (b - a) \in Int
             /\ times[a] * (b - a) + (times[b] - times[a]) * (j - a) \in Int
  <2>1. j \in Int /\ j - a \in Int /\ b - a \in Int /\ times[b] - times[a] \in Int
    BY <1>1
  <2>2. times[j] * (b - a) \in Int /\ times[a] * (b - a) \in Int
        /\ (times[b] - times[a]) * (j - a) \in Int
    BY <1>1, <1>3, <2>1
  <2> QED
    BY <2>2
<1>5. times[a] * (b - a) + (times[b] - times[a]) * (a - a) = times[a] * (b - a)
  <2>1. \A x, y, z \in Int : x * z + (y - x) * 0 = x * z
    OBVIOUS
  <2> QED
    BY <1>1, <2>1
<1>6. times[a] * (b - a) + (times[b] - times[a]) * (b - a) = times[b] * (b - a)
  <2>1. \A x, y, z \in Int : x * z + (y - x) * z = y * z
    OBVIOUS
  <2>2. b - a \in Int
    BY <1>1
  <2> QED
    BY <1>1, <2>1, <2>2
<1> QED
  BY <1>2, <1>4, <1>5, <1>6 DEF OffLine

InTolerance(a, b) == \A i \in a..b : ~PastTolerance(a, b, i)

(* When the worst trace of a stretch is within its tolerance, so are the rest. *)
LEMMA WorstDecides ==
    ASSUME TimesOK, NEW a \in 1..LastTrace, NEW b \in 1..LastTrace, a < b,
           NEW w \in a..(b - 1), ~PastTolerance(a, b, w),
           \A i \in a..(b - 1) :
              ~(OffLine(a, b, i) * Gap(w) > OffLine(a, b, w) * Gap(i))
    PROVE  InTolerance(a, b)
<1> SUFFICES ASSUME NEW i \in a..b PROVE ~PastTolerance(a, b, i)
  BY DEF InTolerance
<1>1. LastTrace \in Nat /\ i \in 1..LastTrace /\ w \in 1..LastTrace /\ b - a \in Nat
  BY TimesAreNatural
<1>2. /\ OffLine(a, b, i) \in Nat /\ OffLine(a, b, w) \in Nat /\ OffLine(a, b, b) = 0
      /\ Gap(i) \in Nat /\ Gap(w) \in Nat /\ Gap(w) > 0
  BY <1>1, OffLineIsNatural, GapIsPositive
<1> DEFINE o == OffLine(a, b, i)  p == OffLine(a, b, w)  x == Gap(i)  y == Gap(w)  d == b - a
<1>3. o \in Nat /\ p \in Nat /\ x \in Nat /\ y \in Nat /\ y > 0 /\ d \in Nat
  BY <1>1, <1>2
<1>4. o * y <= p * x
  <2>1. o * y \in Int /\ p * x \in Int
    BY <1>3
  <2>2. CASE i \in a..(b - 1)
    BY <2>1, <2>2
  <2>3. CASE i = b
    <3>1. o = 0
      BY <1>2, <2>3
    <3>2. p * x \in Nat
      <4>1. \A u, v \in Nat : u * v \in Nat
        OBVIOUS
      <4> QED
        BY <1>3, <4>1
    <3> QED
      BY <1>3, <3>1, <3>2
  <2> QED
    BY <1>1, <2>2, <2>3
<1>5. 2 * p <= d * y
  <2>1. d * y \in Int /\ 2 * p \in Int
    BY <1>3
  <2> QED
    BY <2>1 DEF PastTolerance
<1> HIDE DEF o, p, x, y, d
<1>6. (2 * o) * 1 <= d * x
  <2>1. (2 * o) * y <= (2 * p) * x
    <3>1. (o * y) * 2 <= (p * x) * 2
      BY <1>3, <1>4, ScaledOrder
    <3> QED
      BY <1>3, <3>1
  <2>2. (2 * p) * 1 <= d * y
    BY <1>3, <1>5
  <2> QED
    BY <1>3, <2>1, <2>2, NoWorseThan
<1>7. ~(2 * o > d * x)
  <2>1. d * x \in Int /\ (2 * o) * 1 = 2 * o
    BY <1>3
  <2> QED
    BY <1>3, <1>6, <2>1
<1> QED
  BY <1>7 DEF PastTolerance, o, x, d

----------------------------------------------------------------------------
(* Thinning.                                                                   *)

(* What a division by a positive number comes to.                              *)
LEMMA QuotientIs ==
    ASSUME NEW a \in Int, NEW b \in Nat, b > 0, NEW q \in Int, q * b <= a, a < q * b + b
    PROVE  a \div b = q
<1> DEFINE p == a \div b
<1>1. p \in Int /\ p * b <= a /\ a < p * b + b
  <2>1. p \in Int /\ a = b * p + (a % b) /\ a % b \in 0..(b - 1)
    OBVIOUS
  <2>2. b * p = p * b /\ p * b \in Int
    BY <2>1
  <2> QED
    BY <2>1, <2>2
<1> HIDE DEF p
<1>2. ASSUME NEW u \in Int, NEW v \in Int, u * b < v * b + b PROVE u <= v
  <2> SUFFICES ASSUME v + 1 <= u PROVE FALSE
    OBVIOUS
  <2>1. (v + 1) * b <= u * b
    BY ScaledOrder
  <2>2. (v + 1) * b = v * b + b /\ v * b \in Int /\ u * b \in Int
    OBVIOUS
  <2> QED
    BY <1>2, <2>1, <2>2
<1>3. p * b \in Int /\ q * b \in Int
  BY <1>1
<1>4. p <= q /\ q <= p
  BY <1>1, <1>2, <1>3
<1> QED
  BY <1>1, <1>4 DEF p

(* thin picks its first and its last point from the ends of the list.          *)
LEMMA EndsArePicked ==
    ASSUME Cardinality(kept) \in Nat \ {0}
    PROVE  Picked(0) = 0 /\ Picked(MaxTiepoints - 1) = Cardinality(kept) - 1
<1> DEFINE n == Cardinality(kept) - 1  m == MaxTiepoints - 1
<1>1. n \in Nat /\ m \in Nat /\ m > 0
  BY TiepointsAssumption
<1> HIDE DEF n, m
<1>2. (2 * 0 * n + m) \div (2 * m) = 0
  <2>1. 2 * 0 * n + m = m /\ 0 * (2 * m) = 0 /\ 2 * m \in Nat /\ 2 * m > 0
    BY <1>1
  <2>2. 0 * (2 * m) <= m /\ m < 0 * (2 * m) + 2 * m
    BY <1>1, <2>1
  <2> QED
    BY <1>1, <2>1, <2>2, QuotientIs
<1>3. (2 * m * n + m) \div (2 * m) = n
  <2>1. 2 * m * n = n * (2 * m) /\ n * (2 * m) \in Int /\ 2 * m \in Nat /\ 2 * m > 0
    BY <1>1
  <2>2. n * (2 * m) <= n * (2 * m) + m /\ n * (2 * m) + m < n * (2 * m) + 2 * m
    BY <1>1, <2>1
  <2>3. (n * (2 * m) + m) \div (2 * m) = n
    BY <1>1, <2>1, <2>2, QuotientIs
  <2> QED
    BY <2>1, <2>3
<1> QED
  BY <1>2, <1>3 DEF Picked, n, m

(* The points that are placed: the first and the last among them, no more than *)
(* there may be, and all that were needed when those are few enough.           *)
LEMMA ChosenAre ==
    ASSUME TimesOK, LastTrace >= 2, kept \subseteq 1..LastTrace, {1, LastTrace} \subseteq kept
    PROVE  /\ Chosen \subseteq kept /\ {1, LastTrace} \subseteq Chosen
           /\ IsFiniteSet(Chosen) /\ Cardinality(Chosen) <= MaxTiepoints
           /\ Cardinality(kept) <= MaxTiepoints => Chosen = kept
<1>1. /\ LastTrace \in Nat
      /\ kept \in SUBSET (1..LastTrace) /\ 1 \in kept /\ LastTrace \in kept
      /\ \A i \in kept : i \in Int /\ 1 <= i /\ i <= LastTrace
  BY TimesAreNatural
<1>2. IsFiniteSet(kept) /\ Cardinality(kept) \in Nat \ {0}
  <2>1. IsFiniteSet(kept)
    <3>1. IsFiniteSet(1..LastTrace)
      BY <1>1, FS_Interval
    <3> QED
      BY <1>1, <3>1, FS_Subset
  <2> QED
    BY <1>1, <2>1, FS_CardinalityType, FS_EmptySet
<1>3. MaxTiepoints \in Nat /\ MaxTiepoints >= 2
  BY TiepointsAssumption
<1>4. CASE Cardinality(kept) <= MaxTiepoints
  BY <1>2, <1>4 DEF Chosen
<1>5. CASE ~(Cardinality(kept) <= MaxTiepoints)
  <2> DEFINE KeptBelow(i) == {j \in kept : j < i}
  <2>1. Chosen = {i \in kept : \E k \in 0..(MaxTiepoints - 1) : Rank(i) = Picked(k)}
    BY <1>5 DEF Chosen
  <2>2. \A i : IsFiniteSet(KeptBelow(i)) /\ Cardinality(KeptBelow(i)) \in Nat
    <3> TAKE i
    <3>1. KeptBelow(i) \in SUBSET kept
      OBVIOUS
    <3> QED
      BY <1>2, <3>1, FS_Subset, FS_CardinalityType
  <2>3. ASSUME NEW i \in kept, NEW j \in kept, i < j PROVE Rank(i) < Rank(j)
    <3>1. KeptBelow(i) \in SUBSET KeptBelow(j)
      <4>1. ASSUME NEW k \in kept, k < i PROVE k < j
        <5>1. k \in Int /\ i \in Int /\ j \in Int
          BY <1>1
        <5> QED
          BY <2>3, <4>1, <5>1
      <4> QED
        BY <4>1
    <3>2. i \in KeptBelow(j) /\ i \notin KeptBelow(i)
      BY <1>1, <2>3
    <3>3. Cardinality(KeptBelow(i)) <= Cardinality(KeptBelow(j))
          /\ Cardinality(KeptBelow(i)) # Cardinality(KeptBelow(j))
      <4> HIDE DEF KeptBelow
      <4> QED
        BY <2>2, <3>1, <3>2, FS_Subset
    <3> QED
      BY <2>2, <3>3 DEF Rank
  <2>4. ASSUME NEW i \in kept, NEW j \in kept, Rank(i) = Rank(j) PROVE i = j
    <3>1. i \in Int /\ j \in Int /\ Rank(i) \in Int
      BY <1>1, <2>2 DEF Rank
    <3> QED
      BY <2>3, <2>4, <3>1
  <2>5. 1 \in Chosen
    <3>1. KeptBelow(1) = {}
      <4>1. \A k \in kept : ~(k < 1)
        BY <1>1
      <4> QED
        BY <4>1
    <3>2. Rank(1) = Picked(0)
      BY <1>2, <3>1, FS_EmptySet, EndsArePicked DEF Rank
    <3>3. 0 \in 0..(MaxTiepoints - 1)
      BY <1>3
    <3> QED
      BY <2>1, <3>2, <3>3
  <2>6. LastTrace \in Chosen
    <3>1. KeptBelow(LastTrace) = kept \ {LastTrace}
      <4>1. \A k \in kept : k < LastTrace <=> k # LastTrace
        BY <1>1
      <4> QED
        BY <4>1
    <3>2. Cardinality(KeptBelow(LastTrace)) = Cardinality(kept) - 1
      BY <1>2, <3>1, FS_RemoveElement
    <3>3. Rank(LastTrace) = Picked(MaxTiepoints - 1)
      BY <1>2, <3>2, EndsArePicked DEF Rank
    <3>4. MaxTiepoints - 1 \in 0..(MaxTiepoints - 1)
      BY <1>3
    <3> QED
      BY <2>1, <3>3, <3>4
  <2>7. IsFiniteSet(Chosen) /\ Cardinality(Chosen) <= MaxTiepoints
    <3> DEFINE T == 0..(MaxTiepoints - 1)
               pick == [i \in Chosen |-> CHOOSE k \in T : Rank(i) = Picked(k)]
    <3>1. \A i \in Chosen : pick[i] \in T /\ Rank(i) = Picked(pick[i])
      BY <2>1
    <3>2. pick \in Injection(Chosen, T)
      <4>1. pick \in [Chosen -> T]
        BY <3>1
      <4>2. \A i, j \in Chosen : pick[i] = pick[j] => i = j
        BY <2>1, <2>4, <3>1
      <4> HIDE DEF pick, T
      <4> QED
        BY <4>1, <4>2 DEF Injection, IsInjective
    <3>3. IsFiniteSet(T) /\ Cardinality(T) = MaxTiepoints
      BY <1>3, FS_Interval
    <3> HIDE DEF pick, T
    <3> QED
      BY <3>2, <3>3, FS_Injection
  <2> QED
    BY <1>5, <2>1, <2>5, <2>6, <2>7
<1> QED
  BY <1>4, <1>5

----------------------------------------------------------------------------
(* The invariant.                                                              *)

Consecutive(a, b) ==
    a \in kept /\ b \in kept /\ a < b /\ \A j \in kept : ~(a < j /\ j < b)

PlacedPoint(i) == i \in Chosen \ toPlace
Goes(i) == \E k \in 1..Len(axis) : axis[k] = i

WithAxis == making \in {"reduce", "examine", "place", "made"}

Bounded ==
    /\ WithAxis => LastTrace >= 2 /\ Advancing /\ {1, LastTrace} \subseteq kept
    /\ making \in {"begin", "reduce", "examine"} => axis = <<>>
    /\ making = "none" => ~(LastTrace >= 2 /\ Advancing /\ times[1] < times[LastTrace])

InHand(a, b) == making = "examine" /\ a = first /\ b = last

(* Of two tiepoints next to each other, the stretch between is within its      *)
(* tolerance or still to be examined; and each of those is there once.         *)
Reducing ==
    /\ making \in {"reduce", "examine"} =>
         /\ \A k \in 1..Len(pendingSpans) : Consecutive(pendingSpans[k][1], pendingSpans[k][2])
         /\ \A j, k \in 1..Len(pendingSpans) : pendingSpans[j] = pendingSpans[k] => j = k
    /\ WithAxis =>
         \A a, b \in kept : Consecutive(a, b) =>
            \/ InTolerance(a, b)
            \/ making \in {"reduce", "examine"}
                 /\ \E k \in 1..Len(pendingSpans) : pendingSpans[k] = <<a, b>>
            \/ InHand(a, b)

Examining ==
    making = "examine" =>
        /\ Consecutive(first, last)
        /\ \A k \in 1..Len(pendingSpans) : pendingSpans[k] # <<first, last>>
        /\ next \in (first + 1)..last /\ worst \in first..(next - 1)
        /\ \A i \in first..(next - 1) : ~Worse(i, worst)

(* What was placed comes before what is to be; the axis rises, from the first  *)
(* trace unless all times are one, and ends with the last once that is placed. *)
Placing ==
    making \in {"place", "made"} =>
        /\ toPlace \subseteq Chosen
        /\ \A i, j \in Chosen : PlacedPoint(i) /\ j \in toPlace => i < j
        /\ \A k \in 1..Len(axis) : PlacedPoint(axis[k])
        /\ \A j, k \in 1..Len(axis) : j < k => axis[j] < axis[k] /\ times[axis[j]] < times[axis[k]]
        /\ (\E i \in Chosen : PlacedPoint(i)) => Len(axis) > 0
        /\ Len(axis) > 0 =>
             axis[1] = 1 \/ (Len(axis) = 1 /\ axis[1] = LastTrace /\ times[1] = times[LastTrace])
        /\ PlacedPoint(LastTrace) => axis[Len(axis)] = LastTrace
        /\ NoTies => \A i \in Chosen : PlacedPoint(i) => Goes(i)
        /\ making = "made" => toPlace = {} /\ Len(axis) >= 2

TiepointInv == TiepointTypeOK /\ Bounded /\ Reducing /\ Examining /\ Placing

(* What is worked out of the times alone stays as it is while they do.         *)
LEMMA SameTimes ==
    ASSUME times' = times
    PROVE  /\ LastTrace' = LastTrace /\ (Advancing' <=> Advancing) /\ (NoTies' <=> NoTies)
           /\ \A i : Gap(i)' = Gap(i)
           /\ \A a, b, i : OffLine(a, b, i)' = OffLine(a, b, i)
           /\ \A a, b : InTolerance(a, b)' <=> InTolerance(a, b)
<1>1. LastTrace' = LastTrace
  BY DEF LastTrace
<1>2. \A i : GapAfter(i)' = GapAfter(i)
  BY DEF GapAfter
<1>3. Advances' = Advances
  BY <1>1, <1>2 DEF Advances
<1>4. \A g : {GapAfter(j) : j \in Advances}' = {GapAfter(j) : j \in Advances}
             /\ {j \in Advances : GapAfter(j) < g}' = {j \in Advances : GapAfter(j) < g}
             /\ {j \in Advances : GapAfter(j) <= g}' = {j \in Advances : GapAfter(j) <= g}
  BY <1>2, <1>3
<1>5. TypicalGaps' = TypicalGaps
  BY <1>3, <1>4 DEF TypicalGaps
<1>6. TypicalGap' = TypicalGap
  BY <1>3, <1>5 DEF TypicalGap
<1>7. \A i : GapsAbout(i)' = GapsAbout(i)
  BY <1>2, <1>3 DEF GapsAbout
<1>8. \A i : Gap(i)' = Gap(i)
  BY <1>6, <1>7 DEF Gap
<1>9. \A a, b, i : OffLine(a, b, i)' = OffLine(a, b, i)
  BY DEF OffLine
<1>10. \A a, b : InTolerance(a, b)' <=> InTolerance(a, b)
  BY <1>8, <1>9 DEF InTolerance, PastTolerance
<1>11. (Advancing' <=> Advancing) /\ (NoTies' <=> NoTies)
  BY <1>1 DEF Advancing, NoTies, Tied
<1> QED
  BY <1>1, <1>8, <1>9, <1>10, <1>11

(* Which points are placed depends on the ones that were needed only.          *)
LEMMA SameChosen ==
    ASSUME kept' = kept
    PROVE  Chosen' = Chosen
<1>1. (\A i : Rank(i)' = Rank(i)) /\ \A k : Picked(k)' = Picked(k)
  BY DEF Rank, Picked
<1> QED
  BY <1>1 DEF Chosen

(* The invariant at the start, and kept by every step.                         *)
LEMMA InitTiepoints == TiepointsInit => TiepointInv
<1> SUFFICES ASSUME TiepointsInit PROVE TiepointInv
  OBVIOUS
<1>1. TiepointTypeOK
  <2>1. times \in Seq(0..Latest)
    BY TiepointsAssumption DEF TiepointsInit
  <2> QED
    BY <2>1 DEF TiepointsInit, TiepointTypeOK
<1> QED
  BY <1>1 DEF TiepointInv, TiepointsInit, Bounded, Reducing, Examining, Placing, WithAxis

(* The whole radargram is the first stretch, of the first two tiepoints.       *)
LEMMA BeginKeeps ==
    ASSUME TiepointInv, Begin
    PROVE  TiepointInv'
<1>1. times' = times /\ TimesOK
  BY DEF Begin, TiepointInv, TiepointTypeOK, TimesOK
<1>2. LastTrace \in Nat /\ LastTrace' = LastTrace /\ (Advancing' <=> Advancing)
  BY <1>1, TimesAreNatural, SameTimes
<1>3. CASE LastTrace < 2 \/ ~Advancing
  <2>1. TiepointTypeOK'
    BY <1>1, <1>2, <1>3 DEF Begin, TiepointInv, TiepointTypeOK
  <2> QED
    BY <1>1, <1>2, <1>3, <2>1
       DEF Begin, TiepointInv, Bounded, Reducing, Examining, Placing, WithAxis
<1>4. CASE ~(LastTrace < 2 \/ ~Advancing)
  <2> DEFINE span == <<1, LastTrace>>
  <2>1. /\ making' = "reduce" /\ kept' = {1, LastTrace} /\ pendingSpans' = <<span>>
        /\ LastTrace >= 2 /\ 1 \in 1..LastTrace /\ LastTrace \in 1..LastTrace
    BY <1>2, <1>4 DEF Begin
  <2>2. /\ pendingSpans' \in Seq((1..LastTrace) \X (1..LastTrace))
        /\ Len(pendingSpans') = 1 /\ pendingSpans'[1] = span
    BY <2>1
  <2>3. TiepointTypeOK'
    BY <1>1, <1>2, <2>1, <2>2 DEF Begin, TiepointInv, TiepointTypeOK
  <2>4. Bounded'
    BY <1>2, <1>4, <2>1 DEF Begin, TiepointInv, Bounded
  <2>5. \A a, b \in kept' : Consecutive(a, b)' <=> a = 1 /\ b = LastTrace
    BY <1>2, <2>1 DEF Consecutive
  <2>6. Reducing'
    BY <2>1, <2>2, <2>5 DEF Reducing
  <2> QED
    BY <2>1, <2>3, <2>4, <2>6 DEF TiepointInv, Examining, Placing
<1> QED
  BY <1>3, <1>4

(* There is nothing between two neighbouring traces.                           *)
LEMMA NeighboursInTolerance ==
    ASSUME TimesOK, NEW a \in 1..LastTrace, NEW b \in 1..LastTrace, a < b, b <= a + 1
    PROVE  InTolerance(a, b)
<1> SUFFICES ASSUME NEW i \in a..b PROVE ~PastTolerance(a, b, i)
  BY DEF InTolerance
<1>1. i = a \/ i = b
  BY TimesAreNatural
<1>2. OffLine(a, b, i) = 0
  BY <1>1, OffLineIsNatural
<1>3. (b - a) * Gap(i) \in Nat
  <2>1. b - a \in Nat /\ Gap(i) \in Nat
    BY GapIsPositive, TimesAreNatural
  <2>2. \A x, y \in Nat : x * y \in Nat
    OBVIOUS
  <2> QED
    BY <2>1, <2>2
<1> QED
  BY <1>2, <1>3 DEF PastTolerance

(* The stretch that is taken from the stack is not on it any more.             *)
LEMMA TakeSpanKeeps ==
    ASSUME TiepointInv, TakeSpan
    PROVE  TiepointInv'
<1> DEFINE n == Len(pendingSpans)  span == pendingSpans[Len(pendingSpans)]
           a == span[1]  b == span[2]
<1>1. times' = times /\ TimesOK /\ making = "reduce" /\ kept' = kept /\ axis' = axis
      /\ toPlace' = toPlace
  BY DEF TakeSpan, TiepointInv, TiepointTypeOK, TimesOK
<1>2. /\ LastTrace \in Nat /\ LastTrace' = LastTrace /\ (Advancing' <=> Advancing)
      /\ \A c, d : InTolerance(c, d)' <=> InTolerance(c, d)
      /\ \A c, d, i : OffLine(c, d, i)' = OffLine(c, d, i)
      /\ \A i : Gap(i)' = Gap(i)
  BY <1>1, TimesAreNatural, SameTimes
<1>3. pendingSpans \in Seq((1..LastTrace) \X (1..LastTrace)) /\ pendingSpans # <<>>
  BY DEF TakeSpan, TiepointInv, TiepointTypeOK
<1>4. /\ n \in Nat /\ n > 0 /\ n \in 1..n
      /\ span \in (1..LastTrace) \X (1..LastTrace)
      /\ pendingSpans' \in Seq((1..LastTrace) \X (1..LastTrace))
      /\ Len(pendingSpans') = n - 1
      /\ \A k \in 1..(n - 1) : pendingSpans'[k] = pendingSpans[k]
  <2>1. pendingSpans' = SubSeq(pendingSpans, 1, n - 1)
    BY DEF TakeSpan
  <2> QED
    BY <1>3, <2>1, Shortened
<1>5. a \in 1..LastTrace /\ b \in 1..LastTrace /\ span = <<a, b>>
  BY <1>4
<1>6. Consecutive(a, b)
  BY <1>1, <1>4 DEF TiepointInv, Reducing
<1>7. \/ b <= a + 1 /\ making' = "reduce" /\ UNCHANGED <<first, last, next, worst>>
      \/ /\ ~(b <= a + 1) /\ making' = "examine"
         /\ first' = a /\ last' = b /\ next' = a + 1 /\ worst' = a
  BY <1>1 DEF TakeSpan
<1>8. /\ \A k \in 1..n : Consecutive(pendingSpans[k][1], pendingSpans[k][2])
      /\ \A j, k \in 1..n : pendingSpans[j] = pendingSpans[k] => j = k
      /\ \A k \in 1..(n - 1) : k \in 1..n /\ k # n
  BY <1>1, <1>4 DEF TiepointInv, Reducing
<1>9. /\ a \in Nat /\ b \in Nat /\ a + 1 \in Nat
  BY <1>2, <1>5
<1> HIDE DEF a, b, span, n
<1>10. TiepointTypeOK'
  BY <1>1, <1>2, <1>4, <1>7, <1>9 DEF TiepointInv, TiepointTypeOK
<1>11. making' \in {"reduce", "examine"}
  BY <1>7
<1>12. Bounded'
  BY <1>1, <1>2, <1>11 DEF TiepointInv, Bounded, WithAxis
<1>13. \A c, d : Consecutive(c, d)' <=> Consecutive(c, d)
  BY <1>1 DEF Consecutive
<1>14. b <= a + 1 => InTolerance(a, b)
  BY <1>1, <1>5, <1>6, NeighboursInTolerance DEF Consecutive
<1>15. Reducing'
  <2>1. ASSUME NEW c \in kept', NEW d \in kept', Consecutive(c, d)'
        PROVE  \/ InTolerance(c, d)'
               \/ \E k \in 1..Len(pendingSpans') : pendingSpans'[k] = <<c, d>>
               \/ InHand(c, d)'
    <3>1. InTolerance(c, d) \/ \E k \in 1..n : pendingSpans[k] = <<c, d>>
      BY <1>1, <1>13, <2>1 DEF TiepointInv, Reducing, WithAxis, InHand, n
    <3>2. pendingSpans[n] = span
      BY DEF n, span
    <3>3. ASSUME NEW k \in 1..n, pendingSpans[k] = <<c, d>>, k # n
          PROVE  \E l \in 1..Len(pendingSpans') : pendingSpans'[l] = <<c, d>>
      <4>1. k \in 1..(n - 1)
        BY <1>4, <3>3
      <4> QED
        BY <1>4, <3>3, <4>1
    <3>4. ASSUME span = <<c, d>> PROVE InTolerance(c, d) \/ InHand(c, d)'
      <4>1. c = a /\ d = b
        BY <1>5, <3>4
      <4> QED
        BY <1>7, <1>14, <4>1 DEF InHand
    <3> QED
      BY <1>2, <3>1, <3>3, <3>4, <3>2
  <2>2. \A k \in 1..Len(pendingSpans') : Consecutive(pendingSpans[k][1], pendingSpans[k][2])'
    BY <1>4, <1>13, <1>8
  <2>3. \A j, k \in 1..Len(pendingSpans') : pendingSpans'[j] = pendingSpans'[k] => j = k
    BY <1>4, <1>8
  <2> QED
    BY <1>11, <2>1, <2>2, <2>3 DEF Reducing
<1>16. Examining'
  <2> SUFFICES ASSUME making' = "examine" PROVE Examining'
    BY DEF Examining
  <2>1. ~(b <= a + 1) /\ first' = a /\ last' = b /\ next' = a + 1 /\ worst' = a
    BY <1>7
  <2>2. Consecutive(first, last)'
    BY <1>6, <1>13, <2>1
  <2>3. \A k \in 1..Len(pendingSpans') : pendingSpans'[k] # <<first', last'>>
    <3>1. \A k \in 1..(n - 1) : pendingSpans[k] # span
      BY <1>4, <1>8 DEF n, span
    <3> QED
      BY <1>4, <1>5, <2>1, <3>1
  <2>4. next' \in (first' + 1)..last' /\ worst' \in first'..(next' - 1)
    BY <1>7, <1>9, <2>1
  <2>5. \A i \in first'..(next' - 1) : ~Worse(i, worst)'
    <3>1. \A i \in first'..(next' - 1) : i = a
      BY <1>9, <2>1
    <3>2. OffLine(a, b, a) = 0 /\ Gap(a) \in Nat
      BY <1>1, <1>5, OffLineIsNatural, GapIsPositive
    <3>3. ASSUME NEW i \in first'..(next' - 1) PROVE ~Worse(i, worst)'
      <4>1. i = a
        BY <3>1
      <4>2. /\ OffLine(first, last, i)' = OffLine(a, b, a)
            /\ OffLine(first, last, worst)' = OffLine(a, b, a)
        BY <1>2, <2>1, <4>1
      <4>3. 0 * Gap(a) = 0 /\ Gap(i)' = Gap(a) /\ Gap(worst)' = Gap(a)
        BY <1>2, <2>1, <3>2, <4>1
      <4> QED
        BY <3>2, <4>2, <4>3 DEF Worse
    <3> QED
      BY <3>3
  <2> QED
    BY <2>2, <2>3, <2>4, <2>5 DEF Examining
<1> QED
  BY <1>10, <1>11, <1>12, <1>15, <1>16 DEF TiepointInv, Placing

(* The worst trace so far is the worst of all those looked at, whatever each   *)
(* one's tolerance: what is further past its own than a second, which is no    *)
(* less past its own than a third, is further past than the third.             *)
LEMMA ExamineKeeps ==
    ASSUME TiepointInv, Examine
    PROVE  TiepointInv'
<1>1. /\ times' = times /\ TimesOK /\ making = "examine" /\ making' = making /\ kept' = kept
      /\ axis' = axis /\ toPlace' = toPlace /\ pendingSpans' = pendingSpans
      /\ first' = first /\ last' = last /\ next' = next + 1
  BY DEF Examine, TiepointInv, TiepointTypeOK, TimesOK
<1>2. /\ LastTrace \in Nat /\ LastTrace' = LastTrace /\ (Advancing' <=> Advancing)
      /\ \A c, d : InTolerance(c, d)' <=> InTolerance(c, d)
      /\ \A c, d, i : OffLine(c, d, i)' = OffLine(c, d, i)
      /\ \A i : Gap(i)' = Gap(i)
  BY <1>1, TimesAreNatural, SameTimes
<1>3. \A c, d : Consecutive(c, d)' <=> Consecutive(c, d)
  BY <1>1 DEF Consecutive
<1>4. Examining /\ first \in 1..LastTrace /\ last \in 1..LastTrace
  BY <1>1 DEF TiepointInv, TiepointTypeOK, Examining, Consecutive
<1>5. next \in (first + 1)..(last - 1) /\ worst \in first..(next - 1)
  BY <1>1, <1>2, <1>4 DEF Examining, Examine
<1>6. TiepointTypeOK'
  BY <1>1, <1>2, <1>4, <1>5 DEF Examine, TiepointInv, TiepointTypeOK
<1>7. Bounded' /\ Reducing'
  BY <1>1, <1>2, <1>3 DEF TiepointInv, Bounded, Reducing, WithAxis, InHand
<1>8. \A i, j : Worse(i, j)' <=> Worse(i, j)
  BY <1>1, <1>2 DEF Worse
<1>9. ASSUME NEW i \in first..next PROVE ~Worse(i, worst')
  <2>1. \A j \in first..next : j \in 1..LastTrace
    BY <1>2, <1>4, <1>5
  <2>2. \A j \in first..next : OffLine(first, last, j) \in Nat /\ Gap(j) \in Nat /\ Gap(j) > 0
    BY <1>1, <1>4, <2>1, OffLineIsNatural, GapIsPositive
  <2>3. \A j \in first..(next - 1) : ~Worse(j, worst)
    BY <1>1, <1>4 DEF Examining
  <2>4. i \in first..(next - 1) \/ i = next
    BY <1>2, <1>4, <1>5
  <2>5. CASE ~Worse(next, worst)
    BY <2>3, <2>4, <2>5 DEF Examine
  <2>6. CASE Worse(next, worst) /\ i = next
    <3>1. worst' = next
      BY <2>6 DEF Examine
    <3>2. Gap(next) \in Nat /\ OffLine(first, last, next) \in Nat
      BY <2>2, <2>6
    <3>3. OffLine(first, last, next) * Gap(next) \in Int
      BY <3>2
    <3> QED
      BY <2>6, <3>1, <3>3 DEF Worse
  <2>7. CASE Worse(next, worst) /\ i \in first..(next - 1)
    <3> DEFINE o == OffLine(first, last, i)  p == OffLine(first, last, worst)
               q == OffLine(first, last, next)
               x == Gap(i)  y == Gap(worst)  z == Gap(next)
    <3>1. worst \in first..next /\ next \in first..next
      BY <1>2, <1>4, <1>5
    <3>2. /\ o \in Nat /\ p \in Nat /\ q \in Nat
          /\ x \in Nat /\ y \in Nat /\ z \in Nat /\ y > 0
      BY <2>2, <3>1
    <3>3. ~(o * y > p * x) /\ q * y > p * z
      BY <2>3, <2>7 DEF Worse
    <3> HIDE DEF o, p, q, x, y, z
    <3>4. \A u, v \in Nat : u * v \in Int
      OBVIOUS
    <3>5. o * y <= p * x /\ p * z <= q * y
      BY <3>2, <3>3, <3>4
    <3>6. o * z <= q * x
      BY <3>2, <3>5, NoWorseThan
    <3>7. ~(o * z > q * x)
      BY <3>2, <3>4, <3>6
    <3> QED
      BY <2>7, <3>7 DEF Examine, Worse, o, q, x, z
  <2> QED
    BY <2>4, <2>5, <2>6, <2>7
<1>10. Examining'
  <2>1. next' - 1 = next /\ next' \in (first + 1)..last /\ worst' \in first..next
    BY <1>1, <1>4, <1>5 DEF Examine
  <2>2. \A i \in first..next : ~Worse(i, worst)'
    BY <1>8, <1>9, <1>1, <1>2 DEF Worse
  <2> QED
    BY <1>1, <1>3, <1>4, <2>1, <2>2 DEF Examining
<1> QED
  BY <1>1, <1>6, <1>7, <1>10 DEF TiepointInv, Placing

(* The worst trace of a stretch becomes a tiepoint, or there is none to add.   *)
LEMMA SplitKeeps ==
    ASSUME TiepointInv, Split
    PROVE  TiepointInv'
<1> DEFINE n == Len(pendingSpans)  before == <<first, worst>>  after == <<worst, last>>
<1>1. /\ times' = times /\ TimesOK /\ making = "examine" /\ making' = "reduce"
      /\ axis' = axis /\ toPlace' = toPlace
      /\ first' = first /\ last' = last /\ next' = next /\ worst' = worst
  BY DEF Split, TiepointInv, TiepointTypeOK, TimesOK
<1>2. /\ LastTrace \in Nat /\ LastTrace' = LastTrace /\ (Advancing' <=> Advancing)
      /\ \A c, d : InTolerance(c, d)' <=> InTolerance(c, d)
  BY <1>1, TimesAreNatural, SameTimes
<1>3. /\ Consecutive(first, last) /\ first \in 1..LastTrace /\ last \in 1..LastTrace
      /\ kept \subseteq 1..LastTrace
      /\ \A k \in 1..n : pendingSpans[k] # <<first, last>>
      /\ worst \in first..(last - 1)
      /\ \A i \in first..(last - 1) : ~Worse(i, worst)
  BY <1>1 DEF TiepointInv, TiepointTypeOK, Examining, Consecutive, Split
<1>4. /\ pendingSpans \in Seq((1..LastTrace) \X (1..LastTrace)) /\ n \in Nat
      /\ \A k \in 1..n : pendingSpans[k] = <<pendingSpans[k][1], pendingSpans[k][2]>>
      /\ \A k \in 1..n : Consecutive(pendingSpans[k][1], pendingSpans[k][2])
      /\ \A j, k \in 1..n : pendingSpans[j] = pendingSpans[k] => j = k
  <2>1. pendingSpans \in Seq((1..LastTrace) \X (1..LastTrace)) /\ n \in Nat
    BY LenProperties DEF TiepointInv, TiepointTypeOK
  <2>2. \A k \in 1..n : pendingSpans[k] \in (1..LastTrace) \X (1..LastTrace)
    BY <2>1, ElementOfSeq
  <2> QED
    BY <1>1, <2>1, <2>2 DEF TiepointInv, Reducing
<1>5. \A c, d \in kept : Consecutive(c, d) =>
        \/ InTolerance(c, d)
        \/ \E k \in 1..n : pendingSpans[k] = <<c, d>>
        \/ c = first /\ d = last
  BY <1>1 DEF TiepointInv, Reducing, WithAxis, InHand
<1>6. Bounded'
  <2>1. kept \subseteq kept'
    BY DEF Split
  <2> QED
    BY <1>1, <1>2, <2>1 DEF TiepointInv, Bounded, WithAxis
<1>7. CASE ~PastTolerance(first, last, worst)
  <2>1. kept' = kept /\ pendingSpans' = pendingSpans
    BY <1>7 DEF Split
  <2>2. InTolerance(first, last)
    <3>1. first < last
      BY <1>3 DEF Consecutive
    <3>2. \A i \in first..(last - 1) :
             ~(OffLine(first, last, i) * Gap(worst) > OffLine(first, last, worst) * Gap(i))
      BY <1>3 DEF Worse
    <3> QED
      BY <1>1, <1>3, <1>7, <3>1, <3>2, WorstDecides
  <2>3. \A c, d : Consecutive(c, d)' <=> Consecutive(c, d)
    BY <2>1 DEF Consecutive
  <2>4. TiepointTypeOK'
    BY <1>1, <1>2, <2>1 DEF TiepointInv, TiepointTypeOK
  <2>5. Reducing'
    <3>1. \A c, d \in kept' : Consecutive(c, d)' =>
             \/ InTolerance(c, d)'
             \/ \E k \in 1..Len(pendingSpans') : pendingSpans'[k] = <<c, d>>
      BY <1>2, <1>5, <2>1, <2>2, <2>3
    <3>2. \A k \in 1..Len(pendingSpans') : Consecutive(pendingSpans[k][1], pendingSpans[k][2])'
      BY <1>4, <2>1, <2>3
    <3>3. \A j, k \in 1..Len(pendingSpans') : pendingSpans'[j] = pendingSpans'[k] => j = k
      BY <1>4, <2>1
    <3> QED
      BY <1>1, <3>1, <3>2, <3>3 DEF Reducing
  <2> QED
    BY <1>1, <1>6, <2>4, <2>5 DEF TiepointInv, Examining, Placing
<1>8. CASE PastTolerance(first, last, worst)
  <2>1. worst \in (first + 1)..(last - 1)
    <3>1. worst # first
      <4> SUFFICES ASSUME worst = first PROVE FALSE
        OBVIOUS
      <4>1. OffLine(first, last, worst) = 0 /\ Gap(worst) \in Nat /\ last - first \in Nat
        BY <1>1, <1>3, OffLineIsNatural, GapIsPositive DEF Consecutive
      <4>2. \A x, y \in Nat : x * y \in Nat
        OBVIOUS
      <4>3. (last - first) * Gap(worst) \in Nat
        BY <4>1, <4>2
      <4> QED
        BY <1>8, <4>1, <4>3 DEF PastTolerance
    <3> QED
      BY <1>3, <3>1
  <2>2. worst \in 1..LastTrace /\ first < worst /\ worst < last /\ worst \notin kept
    BY <1>2, <1>3, <2>1 DEF Consecutive
  <2>3. kept' = kept \union {worst} /\ pendingSpans' = pendingSpans \o <<before, after>>
    BY <1>8 DEF Split
  <2>4. /\ pendingSpans' \in Seq((1..LastTrace) \X (1..LastTrace))
        /\ Len(pendingSpans') = n + 2
        /\ \A k \in 1..n : pendingSpans'[k] = pendingSpans[k]
        /\ pendingSpans'[n + 1] = before /\ pendingSpans'[n + 2] = after
    <3> DEFINE both == <<before, after>>  Spans == (1..LastTrace) \X (1..LastTrace)
    <3>1. both \in Seq(Spans) /\ Len(both) = 2 /\ both[1] = before /\ both[2] = after
      BY <1>3, <2>2
    <3> HIDE DEF both, Spans, before, after
    <3>2. /\ pendingSpans \o both \in Seq(Spans)
          /\ Len(pendingSpans \o both) = n + 2
          /\ \A k \in 1..(n + 2) :
               (pendingSpans \o both)[k] = IF k <= n THEN pendingSpans[k] ELSE both[k - n]
      <4>1. pendingSpans \in Seq(Spans)
        BY <1>4 DEF Spans
      <4>2. /\ pendingSpans \o both \in Seq(Spans)
            /\ Len(pendingSpans \o both) = Len(pendingSpans) + Len(both)
            /\ \A k \in 1..(Len(pendingSpans) + Len(both)) :
                 (pendingSpans \o both)[k] =
                    IF k <= Len(pendingSpans) THEN pendingSpans[k]
                    ELSE both[k - Len(pendingSpans)]
        BY <3>1, <4>1, ConcatProperties
      <4> QED
        BY <3>1, <4>2
    <3> QED
      BY <1>4, <2>3, <3>1, <3>2 DEF both, Spans
  <2>5. TiepointTypeOK'
    BY <1>1, <1>2, <2>2, <2>3, <2>4 DEF TiepointInv, TiepointTypeOK
  <2>6. \A j \in kept' : (j \in kept /\ j \in Nat) \/ j = worst
    BY <1>2, <1>3, <2>3
  <2>7. \A j \in kept : j <= first \/ last <= j
    BY <1>2, <1>3 DEF Consecutive
  <2>8. Consecutive(first, worst)' /\ Consecutive(worst, last)'
    <3>1. first \in kept' /\ last \in kept' /\ worst \in kept'
      BY <1>3, <2>3 DEF Consecutive
    <3>2. \A j \in kept' : ~(first < j /\ j < worst) /\ ~(worst < j /\ j < last)
      BY <1>2, <1>3, <2>2, <2>6, <2>7
    <3> QED
      BY <1>1, <2>2, <3>1, <3>2 DEF Consecutive
  <2>9. ASSUME NEW c \in kept, NEW d \in kept, Consecutive(c, d), ~(c = first /\ d = last)
        PROVE  Consecutive(c, d)'
    <3>1. ~(c < worst /\ worst < d)
      <4> SUFFICES ASSUME c < worst, worst < d PROVE FALSE
        OBVIOUS
      <4>1. c \in Nat /\ d \in Nat /\ first \in kept /\ last \in kept
        BY <1>2, <1>3 DEF Consecutive
      <4>2. c <= first /\ last <= d
        BY <1>2, <1>3, <2>2, <2>7, <4>1
      <4>3. ~(c < first /\ first < d) /\ ~(c < last /\ last < d)
        BY <2>9, <4>1 DEF Consecutive
      <4> QED
        BY <1>2, <1>3, <2>2, <2>9, <4>1, <4>2, <4>3
    <3> QED
      BY <2>3, <2>6, <2>9, <3>1 DEF Consecutive
  <2>10. ASSUME NEW c \in kept', NEW d \in kept', Consecutive(c, d)'
         PROVE  \/ c \in kept /\ d \in kept /\ Consecutive(c, d) /\ ~(c = first /\ d = last)
                \/ c = first /\ d = worst
                \/ c = worst /\ d = last
    <3>1. first \in kept' /\ last \in kept' /\ worst \in kept' /\ kept \subseteq kept'
      BY <1>3, <2>3 DEF Consecutive
    <3>2. c < d /\ \A j \in kept' : ~(c < j /\ j < d)
      BY <2>10 DEF Consecutive
    <3>3. CASE c \in kept /\ d \in kept
      <4>1. Consecutive(c, d)
        BY <3>1, <3>2, <3>3 DEF Consecutive
      <4>2. ~(c = first /\ d = last)
        BY <2>2, <3>1, <3>2
      <4> QED
        BY <3>3, <4>1, <4>2
    <3>4. CASE c = worst
      <4>1. d \in kept /\ d \in Nat
        BY <1>2, <1>3, <2>2, <2>6, <3>2, <3>4
      <4>2. last <= d
        BY <1>2, <1>3, <2>2, <2>7, <3>2, <3>4, <4>1
      <4>3. ~(last < d)
        BY <2>2, <3>1, <3>2, <3>4
      <4> QED
        BY <1>2, <1>3, <3>4, <4>1, <4>2, <4>3
    <3>5. CASE d = worst
      <4>1. c \in kept /\ c \in Nat
        BY <1>2, <1>3, <2>2, <2>6, <3>2, <3>5
      <4>2. c <= first
        BY <1>2, <1>3, <2>2, <2>7, <3>2, <3>5, <4>1
      <4>3. ~(c < first)
        BY <2>2, <3>1, <3>2, <3>5
      <4> QED
        BY <1>2, <1>3, <3>5, <4>1, <4>2, <4>3
    <3> QED
      BY <2>6, <3>3, <3>4, <3>5
  <2>11. ASSUME NEW k \in 1..Len(pendingSpans')
         PROVE  Consecutive(pendingSpans[k][1], pendingSpans[k][2])'
    <3>1. k \in 1..n \/ k = n + 1 \/ k = n + 2
      BY <1>4, <2>4
    <3>2. CASE k \in 1..n
      <4>1. /\ Consecutive(pendingSpans[k][1], pendingSpans[k][2])
            /\ ~(pendingSpans[k][1] = first /\ pendingSpans[k][2] = last)
        BY <1>3, <1>4, <3>2
      <4>2. pendingSpans[k][1] \in kept /\ pendingSpans[k][2] \in kept
        BY <4>1 DEF Consecutive
      <4>3. \A c, d : c = pendingSpans[k][1] /\ d = pendingSpans[k][2] => Consecutive(c, d)'
        BY <2>9, <4>1, <4>2
      <4>4. pendingSpans'[k] = pendingSpans[k]
        BY <2>4, <3>2
      <4> QED
        BY <4>3, <4>4
    <3>3. CASE k = n + 1
      BY <2>4, <2>8, <3>3, <1>1
    <3>4. CASE k = n + 2
      BY <2>4, <2>8, <3>4, <1>1
    <3> QED
      BY <3>1, <3>2, <3>3, <3>4
  <2>12. ASSUME NEW j \in 1..Len(pendingSpans'), NEW k \in 1..Len(pendingSpans'),
                pendingSpans'[j] = pendingSpans'[k]
         PROVE  j = k
    <3>1. \A i \in 1..n : pendingSpans[i] # before /\ pendingSpans[i] # after
      <4> TAKE i \in 1..n
      <4>1. pendingSpans[i][1] \in kept /\ pendingSpans[i][2] \in kept
        BY <1>4 DEF Consecutive
      <4>2. before[2] \notin kept /\ after[1] \notin kept
        BY <2>2
      <4> QED
        BY <4>1, <4>2
    <3>2. before # after
      BY <2>2
    <3>3. \A i \in 1..(n + 2) : i \in 1..n \/ i = n + 1 \/ i = n + 2
      BY <1>4
    <3> HIDE DEF before, after, n
    <3>4. \A i \in 1..(n + 2) :
            /\ i \in 1..n => /\ pendingSpans'[i] = pendingSpans[i]
                             /\ pendingSpans'[i] # before /\ pendingSpans'[i] # after
            /\ i = n + 1 => pendingSpans'[i] = before
            /\ i = n + 2 => pendingSpans'[i] = after
      BY <2>4, <3>1
    <3>5. j \in 1..(n + 2) /\ k \in 1..(n + 2)
      BY <2>4, <2>12
    <3>6. CASE j \in 1..n
      BY <1>4, <2>12, <3>3, <3>4, <3>5, <3>6
    <3>7. CASE j = n + 1
      BY <2>12, <3>2, <3>3, <3>4, <3>5, <3>7
    <3>8. CASE j = n + 2
      BY <2>12, <3>2, <3>3, <3>4, <3>5, <3>8
    <3> QED
      BY <3>3, <3>5, <3>6, <3>7, <3>8
  <2>13. ASSUME NEW c \in kept', NEW d \in kept', Consecutive(c, d)'
         PROVE  \/ InTolerance(c, d)'
                \/ \E k \in 1..Len(pendingSpans') : pendingSpans'[k] = <<c, d>>
    <3>1. n + 1 \in 1..Len(pendingSpans') /\ n + 2 \in 1..Len(pendingSpans')
      BY <1>4, <2>4
    <3>2. CASE c = first /\ d = worst
      BY <2>4, <3>1, <3>2
    <3>3. CASE c = worst /\ d = last
      BY <2>4, <3>1, <3>3
    <3>4. CASE c \in kept /\ d \in kept /\ Consecutive(c, d) /\ ~(c = first /\ d = last)
      <4>1. InTolerance(c, d) \/ \E k \in 1..n : pendingSpans[k] = <<c, d>>
        BY <1>5, <3>4
      <4>2. \A k \in 1..n : k \in 1..Len(pendingSpans') /\ pendingSpans'[k] = pendingSpans[k]
        BY <1>4, <2>4
      <4> QED
        BY <1>2, <4>1, <4>2
    <3> QED
      BY <2>10, <2>13, <3>2, <3>3, <3>4
  <2>14. Reducing'
    BY <1>1, <2>11, <2>12, <2>13 DEF Reducing
  <2> QED
    BY <1>1, <1>6, <2>5, <2>14 DEF TiepointInv, Examining, Placing
<1> QED
  BY <1>7, <1>8

(* Nothing is placed yet.                                                      *)
LEMMA ThinKeeps ==
    ASSUME TiepointInv, Thin
    PROVE  TiepointInv'
<1>1. /\ times' = times /\ TimesOK /\ making = "reduce" /\ making' = "place" /\ kept' = kept
      /\ axis' = axis /\ axis = <<>> /\ Len(axis) = 0 /\ toPlace' = Chosen
      /\ pendingSpans' = pendingSpans /\ Len(pendingSpans) = 0
  BY DEF Thin, TiepointInv, TiepointTypeOK, Bounded, TimesOK
<1>2. /\ LastTrace \in Nat /\ LastTrace' = LastTrace /\ (Advancing' <=> Advancing)
      /\ \A c, d : InTolerance(c, d)' <=> InTolerance(c, d)
  BY <1>1, TimesAreNatural, SameTimes
<1>3. Chosen' = Chosen /\ Chosen \subseteq kept
  <2>1. LastTrace >= 2 /\ kept \subseteq 1..LastTrace /\ {1, LastTrace} \subseteq kept
    BY <1>1 DEF TiepointInv, TiepointTypeOK, Bounded, WithAxis
  <2> QED
    BY <1>1, <2>1, SameChosen, ChosenAre
<1>4. TiepointTypeOK'
  BY <1>1, <1>2, <1>3 DEF Thin, TiepointInv, TiepointTypeOK
<1>5. Bounded'
  BY <1>1, <1>2 DEF TiepointInv, Bounded, WithAxis
<1>6. Reducing'
  <2>1. \A c, d \in kept : Consecutive(c, d) => InTolerance(c, d)
    BY <1>1 DEF TiepointInv, Reducing, WithAxis, InHand
  <2>2. \A c, d : Consecutive(c, d)' <=> Consecutive(c, d)
    BY <1>1 DEF Consecutive
  <2> QED
    BY <1>1, <1>2, <2>1, <2>2 DEF Reducing
<1>7. Placing'
  <2>1. \A i : ~PlacedPoint(i)'
    BY <1>1, <1>3 DEF PlacedPoint
  <2> QED
    BY <1>1, <1>3, <2>1 DEF Placing
<1> QED
  BY <1>1, <1>4, <1>5, <1>6, <1>7 DEF TiepointInv, Examining

(* Where times are placed nothing that was found out earlier changes.          *)
LEMMA PlacedApart ==
    ASSUME TiepointInv, making = "place", making' = "place",
           times' = times, kept' = kept, pendingSpans' = pendingSpans
    PROVE  /\ Bounded' /\ Reducing' /\ Examining'
           /\ Chosen' = Chosen /\ LastTrace' = LastTrace /\ (NoTies' <=> NoTies)
<1>1. TimesOK
  BY DEF TiepointInv, TiepointTypeOK, TimesOK
<1>2. /\ LastTrace' = LastTrace /\ (Advancing' <=> Advancing) /\ (NoTies' <=> NoTies)
      /\ \A c, d : InTolerance(c, d)' <=> InTolerance(c, d)
  BY SameTimes
<1>3. \A c, d : Consecutive(c, d)' <=> Consecutive(c, d)
  BY DEF Consecutive
<1>4. Bounded'
  BY <1>2 DEF TiepointInv, Bounded, WithAxis
<1>5. Reducing'
  BY <1>2, <1>3 DEF TiepointInv, Reducing, WithAxis, InHand
<1> QED
  BY <1>2, <1>4, <1>5, SameChosen DEF Examining

(* A tiepoint is placed: it comes after all that were placed. At a tie the     *)
(* later one goes, unless it is the last, and then the one before it does; it  *)
(* shared no time with the one before that, and was the first trace only if    *)
(* all times are one.                                                          *)
LEMMA PlaceKeeps ==
    ASSUME TiepointInv, Place
    PROVE  TiepointInv'
<1> DEFINE n == LastTrace  l == Len(axis)  new == Chosen \ toPlace'
<1>1. PICK i \in toPlace :
        /\ \A j \in toPlace : i <= j
        /\ toPlace' = toPlace \ {i}
        /\ axis' =
             CASE axis # <<>> => times[axis[Len(axis)]] < times[i] -> Append(axis, i)
               [] axis # <<>> /\ times[i] <= times[axis[Len(axis)]] ->
                    IF toPlace = {i} THEN Append(SubSeq(axis, 1, Len(axis) - 1), i)
                    ELSE axis
  BY DEF Place
<1>2. /\ times' = times /\ TimesOK /\ making = "place" /\ making' = "place" /\ kept' = kept
      /\ pendingSpans' = pendingSpans
      /\ first' = first /\ last' = last /\ next' = next /\ worst' = worst
  BY DEF Place, TiepointInv, TiepointTypeOK, TimesOK
<1>3. /\ Bounded' /\ Reducing' /\ Examining'
      /\ Chosen' = Chosen /\ LastTrace' = LastTrace /\ (NoTies' <=> NoTies)
  BY <1>2, PlacedApart
<1>4. /\ n \in Nat /\ n >= 2 /\ Advancing /\ 1 \in Chosen /\ n \in Chosen
      /\ Chosen \subseteq 1..n
      /\ \A j \in 1..n : times[j] \in Nat
  <2>1. LastTrace >= 2 /\ Advancing /\ kept \subseteq 1..n /\ {1, n} \subseteq kept
    BY <1>2 DEF TiepointInv, TiepointTypeOK, Bounded, WithAxis
  <2> QED
    BY <1>2, <2>1, ChosenAre, TimesAreNatural
<1>5. /\ toPlace \subseteq Chosen
      /\ \A p, q \in Chosen : PlacedPoint(p) /\ q \in toPlace => p < q
      /\ \A k \in 1..l : PlacedPoint(axis[k])
      /\ \A j, k \in 1..l : j < k => axis[j] < axis[k] /\ times[axis[j]] < times[axis[k]]
      /\ (\E p \in Chosen : PlacedPoint(p)) => l > 0
      /\ l > 0 => axis[1] = 1 \/ (l = 1 /\ axis[1] = n /\ times[1] = times[n])
      /\ PlacedPoint(n) => axis[l] = n
      /\ NoTies => \A p \in Chosen : PlacedPoint(p) => Goes(p)
  BY <1>2 DEF TiepointInv, Placing
<1>6. /\ axis \in Seq(1..n) /\ l \in Nat /\ (axis # <<>> <=> l > 0)
      /\ i \in Chosen /\ i \in 1..n
  <2>1. axis \in Seq(1..n) /\ l \in Nat
    BY DEF TiepointInv, TiepointTypeOK
  <2> QED
    BY <1>1, <1>4, <1>5, <2>1, EmptySeq
<1>7. \A p : p \in new <=> PlacedPoint(p) \/ p = i
  BY <1>1, <1>3, <1>5, <1>6 DEF PlacedPoint
<1>8. \A k \in 1..l : axis[k] \in 1..n /\ axis[k] < i
  BY <1>1, <1>4, <1>5, <1>6 DEF PlacedPoint
<1>9. n \in new => i = n /\ ~PlacedPoint(n)
  BY <1>1, <1>4, <1>5, <1>6, <1>7
<1>10. /\ toPlace' \subseteq Chosen' /\ toPlace' \subseteq 1..n
       /\ \A p, q \in Chosen : p \in new /\ q \in toPlace' => p < q
  <2>1. ASSUME NEW p \in Chosen, NEW q \in Chosen, p \in new, q \in toPlace' PROVE p < q
    <3>1. q \in toPlace /\ q # i /\ q \in 1..n /\ p \in 1..n
      BY <1>1, <1>4, <2>1
    <3>2. CASE PlacedPoint(p)
      BY <1>5, <3>1, <3>2
    <3>3. CASE p = i
      BY <1>1, <1>4, <1>6, <3>1, <3>3
    <3> QED
      BY <1>7, <2>1, <3>2, <3>3
  <2> QED
    BY <1>1, <1>3, <1>4, <1>5, <2>1
<1> DEFINE Grown(s) ==
             /\ s \in Seq(1..n) /\ Len(s) > 0
             /\ \A k \in 1..Len(s) : s[k] \in new
             /\ \A j, k \in 1..Len(s) : j < k => s[j] < s[k] /\ times[s[j]] < times[s[k]]
             /\ s[1] = 1 \/ (Len(s) = 1 /\ s[1] = n /\ times[1] = times[n])
             /\ n \in new => s[Len(s)] = n
             /\ NoTies => \A p \in Chosen : p \in new => \E k \in 1..Len(s) : s[k] = p
<1>11. ASSUME Grown(axis') PROVE TiepointInv'
  <2>1. Chosen' \ toPlace' = new
    BY <1>3
  <2>2. TiepointTypeOK'
    BY <1>2, <1>3, <1>10, <1>11 DEF TiepointInv, TiepointTypeOK
  <2>3. Placing'
    BY <1>2, <1>3, <1>10, <1>11, <2>1 DEF Placing, Goes, PlacedPoint
  <2> QED
    BY <1>3, <2>2, <2>3 DEF TiepointInv
<1>12. CASE l > 0 => times[axis[l]] < times[i]
  <2>1. axis' = Append(axis, i)
    <3>1. axis # <<>> => times[axis[Len(axis)]] < times[i]
      BY <1>6, <1>12
    <3>2. ~(axis # <<>> /\ times[i] <= times[axis[Len(axis)]])
      <4> SUFFICES ASSUME axis # <<>> PROVE ~(times[i] <= times[axis[Len(axis)]])
        OBVIOUS
      <4>1. l \in 1..l
        BY <1>6
      <4>2. times[i] \in Nat /\ times[axis[l]] \in Nat
        BY <1>4, <1>6, <1>8, <4>1
      <4> QED
        BY <3>1, <4>2
    <3> QED
      BY <1>1, <3>1, <3>2
  <2>2. /\ axis' \in Seq(1..n) /\ Len(axis') = l + 1 /\ axis'[l + 1] = i
        /\ \A k \in 1..l : axis'[k] = axis[k]
    BY <1>6, <2>1, AppendProperties
  <2> HIDE DEF l, n
  <2>3. \A k \in 1..Len(axis') : k \in 1..l \/ k = l + 1
    BY <1>6, <2>2 DEF l
  <2>4. \A k \in 1..Len(axis') : axis'[k] \in new
    BY <1>5, <1>7, <2>2, <2>3
  <2>5. ASSUME NEW j \in 1..Len(axis'), NEW k \in 1..Len(axis'), j < k
        PROVE  axis'[j] < axis'[k] /\ times[axis'[j]] < times[axis'[k]]
    <3>1. CASE k \in 1..l
      <4>1. j \in 1..l
        BY <1>6, <2>3, <2>5, <3>1
      <4> QED
        BY <1>5, <2>2, <2>5, <3>1, <4>1
    <3>2. CASE k = l + 1
      <4>1. j \in 1..l /\ l \in 1..l /\ l > 0
        BY <1>6, <2>3, <2>5, <3>2
      <4>2. j = l \/ times[axis[j]] < times[axis[l]]
        BY <1>5, <1>6, <4>1
      <4>3. /\ times[axis[l]] < times[i]
            /\ times[axis[j]] \in Nat /\ times[axis[l]] \in Nat /\ times[i] \in Nat
        BY <1>4, <1>6, <1>8, <1>12, <4>1
      <4>4. times[axis[j]] < times[i]
        BY <4>2, <4>3
      <4> QED
        BY <1>8, <2>2, <3>2, <4>1, <4>4
    <3> QED
      BY <2>3, <3>1, <3>2
  <2>6. axis'[1] = 1
    <3>1. CASE l = 0
      <4>1. ~PlacedPoint(1)
        BY <1>4, <1>5, <3>1
      <4>2. 1 \in toPlace
        BY <1>4, <4>1 DEF PlacedPoint
      <4> QED
        BY <1>1, <1>6, <2>2, <3>1, <4>2
    <3>2. CASE l > 0
      <4>1. 1 \in 1..l /\ axis[1] < i
        BY <1>6, <1>8, <3>2
      <4>2. axis[1] # n
        BY <1>4, <1>6, <4>1
      <4> QED
        BY <1>5, <2>2, <3>2, <4>1, <4>2
    <3> QED
      BY <1>6, <3>1, <3>2
  <2>7. n \in new => axis'[Len(axis')] = n
    BY <1>9, <2>2
  <2>8. l + 1 \in 1..Len(axis') /\ \A k \in 1..l : k \in 1..Len(axis')
    BY <1>6, <2>2
  <2>9. NoTies => \A p \in Chosen : p \in new => \E k \in 1..Len(axis') : axis'[k] = p
    BY <1>5, <1>7, <2>2, <2>8 DEF Goes, l
  <2> QED
    BY <1>6, <1>11, <2>2, <2>4, <2>5, <2>6, <2>7, <2>9
<1>13. CASE ~(l > 0 => times[axis[l]] < times[i])
  <2>1. l > 0 /\ l \in 1..l /\ axis[l] \in 1..n /\ axis[l] < i /\ times[i] <= times[axis[l]]
    <3>1. l > 0 /\ ~(times[axis[l]] < times[i])
      BY <1>13
    <3>2. l \in 1..l
      BY <1>6, <3>1
    <3> QED
      BY <1>4, <1>6, <1>8, <3>1, <3>2
  <2>2. ~NoTies /\ times[i] = times[axis[l]]
    <3>1. times[axis[l]] <= times[i] /\ (NoTies => times[axis[l]] < times[i])
      BY <1>2, <1>4, <1>6, <2>1, TimesRise
    <3>2. times[axis[l]] \in Nat /\ times[i] \in Nat
      BY <1>4, <1>6, <2>1
    <3> QED
      BY <2>1, <3>1, <3>2
  <2>3. axis' = IF toPlace = {i} THEN Append(SubSeq(axis, 1, Len(axis) - 1), i) ELSE axis
    BY <1>1, <1>6, <1>13, <2>1
  <2>4. CASE toPlace # {i}
    <3>1. axis' = axis
      BY <2>3, <2>4
    <3>2. ~n \in new
      <4> SUFFICES ASSUME n \in new PROVE FALSE
        OBVIOUS
      <4>1. i = n
        BY <1>9
      <4>2. \A j \in toPlace : j = i
        BY <1>1, <1>4, <1>5, <4>1
      <4> QED
        BY <1>1, <2>4, <4>2
    <3> QED
      BY <1>5, <1>6, <1>7, <1>9, <1>11, <2>1, <2>2, <3>1, <3>2
  <2>5. CASE toPlace = {i}
    <3>1. i = n
      BY <1>4, <1>5, <1>6, <2>5 DEF PlacedPoint
    <3> DEFINE front == SubSeq(axis, 1, Len(axis) - 1)
    <3>2. /\ front \in Seq(1..n) /\ Len(front) = l - 1
          /\ \A k \in 1..(l - 1) : front[k] = axis[k]
      BY <1>6, <2>1, Shortened
    <3>3. axis' = Append(front, i)
      BY <2>3, <2>5
    <3> HIDE DEF front
    <3>4. /\ axis' \in Seq(1..n) /\ Len(axis') = l /\ axis'[l] = n
          /\ \A k \in 1..(l - 1) : axis'[k] = axis[k]
      BY <1>6, <3>1, <3>2, <3>3, AppendProperties
    <3> HIDE DEF l, n
    <3>5. \A k \in 1..l : k \in 1..(l - 1) \/ k = l
      BY <1>6
    <3>6. \A k \in 1..(l - 1) : k \in 1..l /\ k < l
      BY <1>6
    <3>7. \A k \in 1..l : axis'[k] \in new
      BY <1>5, <1>7, <3>1, <3>4, <3>5, <3>6
    <3>8. ASSUME NEW j \in 1..l, NEW k \in 1..l, j < k
          PROVE  axis'[j] < axis'[k] /\ times[axis'[j]] < times[axis'[k]]
      <4>1. j \in 1..(l - 1) /\ axis'[j] = axis[j] /\ axis[j] < i
        BY <1>6, <1>8, <3>4, <3>8
      <4>2. CASE k = l
        <5>1. times[axis[j]] < times[axis[l]]
          BY <1>5, <2>1, <3>8, <4>2
        <5> QED
          BY <2>2, <3>1, <3>4, <4>1, <4>2, <5>1
      <4>3. CASE k \in 1..(l - 1)
        BY <1>5, <3>4, <3>8, <4>1, <4>3
      <4> QED
        BY <3>5, <4>2, <4>3
    <3>9. axis'[1] = 1 \/ (l = 1 /\ axis'[1] = n /\ times[1] = times[n])
      <4>1. 1 \in 1..l /\ axis[1] < n
        BY <1>6, <1>8, <2>1, <3>1
      <4>2. axis[1] = 1
        BY <1>4, <1>5, <1>8, <2>1, <4>1
      <4>3. CASE l = 1
        BY <2>2, <3>1, <3>4, <4>2, <4>3
      <4>4. CASE l # 1
        <5>1. 1 \in 1..(l - 1)
          BY <1>6, <2>1, <4>4
        <5> QED
          BY <3>4, <4>2, <5>1
      <4> QED
        BY <4>3, <4>4
    <3> QED
      BY <1>11, <2>1, <2>2, <3>4, <3>7, <3>8, <3>9
  <2> QED
    BY <2>4, <2>5
<1> QED
  BY <1>12, <1>13

(* An axis of one point has the last trace on it, which shares the first       *)
(* one's time; otherwise it is done.                                           *)
LEMMA FinishKeeps ==
    ASSUME TiepointInv, Finish
    PROVE  TiepointInv'
<1>1. /\ times' = times /\ TimesOK /\ making = "place" /\ kept' = kept /\ axis' = axis
      /\ toPlace' = toPlace /\ toPlace = {} /\ pendingSpans' = pendingSpans
      /\ first' = first /\ last' = last /\ next' = next /\ worst' = worst
      /\ making' = IF Len(axis) < 2 THEN "none" ELSE "made"
  BY DEF Finish, TiepointInv, TiepointTypeOK, TimesOK
<1>2. /\ LastTrace \in Nat /\ LastTrace' = LastTrace /\ (Advancing' <=> Advancing)
      /\ (NoTies' <=> NoTies) /\ \A c, d : InTolerance(c, d)' <=> InTolerance(c, d)
  BY <1>1, TimesAreNatural, SameTimes
<1>3. Chosen' = Chosen /\ \A c, d : Consecutive(c, d)' <=> Consecutive(c, d)
  BY <1>1, SameChosen DEF Consecutive
<1>4. TiepointTypeOK'
  BY <1>1, <1>2 DEF TiepointInv, TiepointTypeOK
<1>5. Len(axis) \in Nat
  BY LenProperties DEF TiepointInv, TiepointTypeOK
<1>6. CASE Len(axis) < 2
  <2>1. making' = "none"
    BY <1>1, <1>6
  <2>2. LastTrace >= 2 /\ kept \subseteq 1..LastTrace /\ {1, LastTrace} \subseteq kept
    BY <1>1 DEF TiepointInv, TiepointTypeOK, Bounded, WithAxis
  <2>3. PlacedPoint(LastTrace) /\ LastTrace \in Chosen
    BY <1>1, <2>2, ChosenAre DEF PlacedPoint
  <2>4. Len(axis) = 1 /\ axis[1] = LastTrace
    <3>1. Placing
      BY DEF TiepointInv
    <3>2. Len(axis) > 0 /\ axis[Len(axis)] = LastTrace
      BY <1>1, <2>3, <3>1 DEF Placing
    <3>3. Len(axis) > 0
      BY <3>2
    <3>4. ASSUME NEW l \in Nat, l < 2, l > 0 PROVE l = 1
      BY <3>4
    <3>5. Len(axis) = 1
      BY <1>5, <1>6, <3>3, <3>4
    <3> QED
      BY <3>2, <3>5
  <2>5. times[1] = times[LastTrace]
    BY <1>1, <1>2, <2>2, <2>4 DEF TiepointInv, Placing
  <2>6. ~(times[1] < times[LastTrace])
    BY <1>1, <1>2, <2>2, <2>5, TimesAreNatural
  <2>7. Bounded'
    BY <1>1, <1>2, <2>1, <2>6 DEF Bounded, WithAxis
  <2> QED
    BY <1>4, <2>1, <2>7 DEF TiepointInv, Reducing, Examining, Placing, WithAxis
<1>7. CASE ~(Len(axis) < 2)
  <2>1. making' = "made" /\ Len(axis) >= 2
    BY <1>1, <1>5, <1>7
  <2>2. Bounded'
    BY <1>1, <1>2, <2>1 DEF TiepointInv, Bounded, WithAxis
  <2>3. Reducing'
    BY <1>1, <1>2, <1>3, <2>1 DEF TiepointInv, Reducing, WithAxis, InHand
  <2>4. (\A i : PlacedPoint(i)' <=> PlacedPoint(i)) /\ \A i : Goes(i)' <=> Goes(i)
    BY <1>1, <1>3 DEF PlacedPoint, Goes
  <2>5. Placing'
    BY <1>1, <1>2, <1>3, <2>1, <2>4 DEF TiepointInv, Placing, PlacedPoint, Goes
  <2> QED
    BY <1>4, <2>1, <2>2, <2>3, <2>5 DEF TiepointInv, Examining
<1> QED
  BY <1>6, <1>7

(* Steps of other parts of the system.                                         *)
LEMMA TiepointsStutter ==
    ASSUME TiepointInv, UNCHANGED tiepointVars
    PROVE  TiepointInv'
<1>1. UNCHANGED <<times, making, kept, pendingSpans, first, last, next, worst, toPlace, axis>>
  BY DEF tiepointVars
<1>2. /\ LastTrace' = LastTrace /\ (Advancing' <=> Advancing) /\ (NoTies' <=> NoTies)
      /\ \A i : Gap(i)' = Gap(i)
      /\ \A a, b, i : OffLine(a, b, i)' = OffLine(a, b, i)
      /\ \A a, b : InTolerance(a, b)' <=> InTolerance(a, b)
  BY <1>1, SameTimes
<1>3. Chosen' = Chosen /\ \A c, d : Consecutive(c, d)' <=> Consecutive(c, d)
  BY <1>1, SameChosen DEF Consecutive
<1>4. TiepointTypeOK' /\ Bounded'
  BY <1>1, <1>2 DEF TiepointInv, TiepointTypeOK, Bounded, WithAxis
<1>5. Reducing'
  BY <1>1, <1>2, <1>3 DEF TiepointInv, Reducing, WithAxis, InHand
<1>6. Examining'
  <2>1. \A i, j : Worse(i, j)' <=> Worse(i, j)
    BY <1>1, <1>2 DEF Worse
  <2>2. making = "examine" => \A i \in first..(next - 1) : ~Worse(i, worst)'
    BY <1>1, <1>2 DEF TiepointInv, Examining, Worse
  <2> QED
    BY <1>1, <1>3, <2>2 DEF TiepointInv, Examining
<1>7. Placing'
  BY <1>1, <1>2, <1>3 DEF TiepointInv, Placing, PlacedPoint, Goes
<1> QED
  BY <1>4, <1>5, <1>6, <1>7 DEF TiepointInv

(* An axis that rises over tiepoints has no more points than there are of those.*)
LEMMA NoMorePoints ==
    ASSUME NEW s, NEW C, IsFiniteSet(C), Cardinality(C) \in Nat, Len(s) \in Nat,
           \A k \in 1..Len(s) : s[k] \in C,
           \A j, k \in 1..Len(s) : j < k => s[j] # s[k]
    PROVE  Len(s) <= Cardinality(C)
<1> DEFINE D == 1..Len(s)  f == [k \in D |-> s[k]]
<1>1. \A j, k \in D : f[j] = f[k] => j = k
  <2> SUFFICES ASSUME NEW j \in D, NEW k \in D, f[j] = f[k], j # k PROVE FALSE
    OBVIOUS
  <2>1. j < k \/ k < j
    OBVIOUS
  <2> QED
    BY <2>1
<1>2. f \in [D -> C]
  OBVIOUS
<1>3. IsFiniteSet(D) /\ Cardinality(D) = Len(s)
  <2>1. 1 \in Int /\ Len(s) \in Int
    OBVIOUS
  <2>2. IsFiniteSet(1..Len(s))
        /\ Cardinality(1..Len(s)) = IF 1 > Len(s) THEN 0 ELSE Len(s) - 1 + 1
    BY <2>1, FS_Interval
  <2> HIDE DEF D
  <2>3. Cardinality(1..Len(s)) = Len(s)
    <3>1. CASE Len(s) = 0
      BY <2>2, <3>1
    <3>2. CASE Len(s) # 0
      BY <2>2, <3>2
    <3> QED
      BY <3>1, <3>2
  <2> QED
    BY <2>2, <2>3 DEF D
<1> HIDE DEF D, f
<1>4. f \in Injection(D, C)
  BY <1>1, <1>2 DEF Injection, IsInjective
<1> QED
  BY <1>3, <1>4, FS_Injection

(* Between which two points of the axis a trace lies.                          *)
LEMMA BetweenPoints ==
    ASSUME NEW s, NEW n \in Nat, Len(s) \in Nat, Len(s) >= 2,
           \A k \in 1..Len(s) : s[k] \in 1..n, s[1] = 1, s[Len(s)] = n, NEW i \in 1..n
    PROVE  \E k \in 1..(Len(s) - 1) : s[k] <= i /\ i <= s[k + 1]
<1>1. CASE i = 1
  <2>1. 1 \in 1..(Len(s) - 1) /\ 2 \in 1..Len(s)
    OBVIOUS
  <2>2. s[1] <= i /\ i <= s[1 + 1]
    BY <1>1, <2>1
  <2> QED
    BY <2>1, <2>2
<1>2. CASE i # 1
  <2> DEFINE T == {k \in 1..Len(s) : i <= s[k]}
  <2>1. T \in SUBSET Nat /\ Len(s) \in T
    OBVIOUS
  <2>2. PICK m \in T : \A k \in T : m <= k
    <3> HIDE DEF T
    <3> QED
      BY <2>1, LeastOf
  <2>3. m # 1 /\ m \in 1..Len(s) /\ i <= s[m]
    BY <1>2, <2>2
  <2>4. m - 1 \in 1..(Len(s) - 1) /\ m - 1 \in 1..Len(s) /\ (m - 1) + 1 = m
    BY <2>3
  <2>5. ~(i <= s[m - 1])
    BY <2>2, <2>4
  <2>6. s[m - 1] \in 1..n
    BY <2>4
  <2>7. s[m - 1] <= i
    BY <2>5, <2>6
  <2> QED
    BY <2>3, <2>4, <2>7
<1> QED
  BY <1>1, <1>2

(* What the steps leave behind is what was promised.                           *)
LEMMA TiepointPromise == TiepointInv => AxisPlacesEveryTrace
<1> SUFFICES ASSUME TiepointInv, making = "made"
             PROVE  /\ LastTrace >= 2 /\ Advancing /\ times[1] < times[LastTrace]
                    /\ axis[1] = 1 /\ axis[Len(axis)] = LastTrace /\ Len(axis) <= MaxTiepoints
                    /\ \A k \in 1..(Len(axis) - 1) :
                         axis[k] < axis[k + 1] /\ times[axis[k]] < times[axis[k + 1]]
                    /\ Cardinality(kept) <= MaxTiepoints /\ NoTies
                         => \A i \in 1..LastTrace : WithinHalfATrace(i)
  BY DEF TiepointInv, Bounded, AxisPlacesEveryTrace, NoTies
<1> DEFINE n == LastTrace  l == Len(axis)
<1>1. /\ TimesOK /\ n \in Nat /\ n >= 2 /\ Advancing
      /\ kept \subseteq 1..n /\ {1, n} \subseteq kept
  <2>1. TimesOK
    BY DEF TiepointInv, TiepointTypeOK, TimesOK
  <2> QED
    BY <2>1, TimesAreNatural DEF TiepointInv, TiepointTypeOK, Bounded, WithAxis
<1>2. /\ Chosen \subseteq kept /\ {1, n} \subseteq Chosen
      /\ IsFiniteSet(Chosen) /\ Cardinality(Chosen) <= MaxTiepoints
      /\ Cardinality(Chosen) \in Nat
      /\ Cardinality(kept) <= MaxTiepoints => Chosen = kept
  BY <1>1, ChosenAre, FS_CardinalityType
<1>3. /\ l \in Nat /\ l >= 2 /\ toPlace = {}
      /\ \A k \in 1..l : axis[k] \in Chosen /\ axis[k] \in 1..n
      /\ \A j, k \in 1..l : j < k => axis[j] < axis[k] /\ times[axis[j]] < times[axis[k]]
      /\ NoTies => \A i \in Chosen : Goes(i)
  <2>1. l \in Nat
    BY LenProperties DEF TiepointInv, TiepointTypeOK
  <2> QED
    BY <1>1, <1>2, <2>1 DEF TiepointInv, Placing, PlacedPoint
<1>4. axis[1] = 1 /\ axis[l] = n
  <2>1. PlacedPoint(n)
    BY <1>2, <1>3 DEF PlacedPoint
  <2> QED
    BY <1>3, <2>1 DEF TiepointInv, Placing
<1>5. 1 \in 1..l /\ l \in 1..l
  BY <1>3
<1>6. times[1] < times[n]
  BY <1>3, <1>4, <1>5
<1>7. l <= MaxTiepoints
  <2>1. \A j, k \in 1..l : j < k => axis[j] # axis[k]
    BY <1>3
  <2>2. l <= Cardinality(Chosen)
    BY <1>2, <1>3, <2>1, NoMorePoints
  <2> QED
    BY <1>2, <1>3, <2>2, TiepointsAssumption
<1>8. ASSUME NEW k \in 1..(l - 1)
      PROVE  /\ k \in 1..l /\ k + 1 \in 1..l
             /\ axis[k] < axis[k + 1] /\ times[axis[k]] < times[axis[k + 1]]
  <2>1. k \in 1..l /\ k + 1 \in 1..l /\ k < k + 1
    BY <1>3
  <2> QED
    BY <1>3, <2>1
<1>9. ASSUME Cardinality(kept) <= MaxTiepoints, NoTies, NEW i \in 1..n
      PROVE  WithinHalfATrace(i)
  <2>1. PICK k \in 1..(l - 1) : axis[k] <= i /\ i <= axis[k + 1]
    BY <1>1, <1>3, <1>4, BetweenPoints
  <2> DEFINE a == axis[k]  b == axis[k + 1]
  <2>2. a \in kept /\ b \in kept /\ a < b /\ a \in 1..n /\ b \in 1..n
    BY <1>2, <1>3, <1>8
  <2>3. ASSUME NEW j \in kept, a < j, j < b PROVE FALSE
    <3>1. PICK m \in 1..l : axis[m] = j
      BY <1>2, <1>3, <1>9 DEF Goes
    <3>2. ~(m < k) /\ ~(k + 1 < m) /\ m # k /\ m # k + 1
      <4>1. axis[m] \in 1..n
        BY <1>3
      <4>2. ~(axis[m] < a) /\ ~(b < axis[m]) /\ axis[m] # a /\ axis[m] # b
        BY <2>2, <2>3, <3>1, <4>1
      <4> QED
        BY <1>3, <1>8, <4>2
    <3> QED
      BY <1>3, <3>2
  <2>4. Consecutive(a, b)
    BY <2>2, <2>3 DEF Consecutive
  <2>5. InTolerance(a, b)
    BY <2>2, <2>4 DEF TiepointInv, Reducing, WithAxis, InHand
  <2>6. i \in a..b
    BY <2>1, <2>2
  <2> QED
    BY <2>1, <2>5, <2>6 DEF WithinHalfATrace, InTolerance
<1> QED
  BY <1>1, <1>4, <1>6, <1>7, <1>8, <1>9

(* AxisPlacesEveryTrace, whatever the times, however many traces and points.   *)
THEOREM AxisPlaces == TiepointsSpec => []AxisPlacesEveryTrace
<1>1. ASSUME TiepointInv, [TiepointsNext]_tiepointVars PROVE TiepointInv'
  BY <1>1, BeginKeeps, TakeSpanKeeps, ExamineKeeps, SplitKeeps, ThinKeeps, PlaceKeeps,
     FinishKeeps, TiepointsStutter DEF TiepointsNext
<1> QED
  BY <1>1, InitTiepoints, TiepointPromise, PTL DEF TiepointsSpec
=============================================================================
