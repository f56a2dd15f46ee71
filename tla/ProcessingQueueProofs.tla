------------------------ MODULE ProcessingQueueProofs ------------------------
(***************************************************************************)
(* Theorems about the processing queue, for any requests and limits. The   *)
(* invariants that count (limits, memory) rest on finite sets of job ids,  *)
(* so a sum of estimates is the cardinality of a set of bytes.             *)
(***************************************************************************)
EXTENDS Drafts, FiniteSetTheorems, WellFoundedInduction, TLAPS

USE LimitsAssumption, UnsetAssumption, RequestsAssumption

\* A job exists once its id was given out; a later id names none yet.
Fresh == \A id \in Ids : state[id] = "absent" <=> id > nextId

Typed == TypeOK /\ Fresh

LEMMA InitTyped == Init => Typed
<1>1. (CHOOSE r \in Requests : TRUE) \in Requests
  BY RequestsNonEmpty
<1>2. QED
  BY <1>1 DEF Init, Typed, Fresh, TypeOK, Ids, JobStates, EndStates

LEMMA NextTyped ==
  ASSUME Typed, [Next]_vars
  PROVE  Typed'
<1> USE DEF Typed, Fresh, TypeOK, JobStates, EndStates
<1>1. ASSUME NEW r \in Requests, Submit(r) PROVE Typed'
  BY <1>1 DEF Submit, Ids
<1>2. CASE Dispatch
  <2>1. PICK old \in SUBSET Ended, S \in SUBSET Waiting :
          /\ Started(S)
          /\ state' = [id \in Ids |->
                        IF id \in S THEN "running"
                        ELSE IF id \in old THEN "forgotten"
                        ELSE state[id]]
    BY <1>2 DEF Dispatch
  <2>2. state' \in [Ids -> JobStates]
    BY <2>1
  <2>3. \A id \in Ids : returned[id] # "nothing" => state'[id] = "running"
    BY <2>1 DEF Ended
  <2>4. QED
    BY <1>2, <2>1, <2>2, <2>3 DEF Dispatch, Waiting, InState, Ended
<1>3. ASSUME NEW id \in Ids, CancelQueued(id) PROVE Typed'
  BY <1>3 DEF CancelQueued
<1>4. ASSUME NEW id \in Ids, CancelRunning(id) PROVE Typed'
  BY <1>4 DEF CancelRunning
<1>5. ASSUME NEW id \in Ids, NEW outcome \in EndStates, RunReturns(id, outcome)
      PROVE  Typed'
  BY <1>5 DEF RunReturns
<1>6. ASSUME NEW id \in Ids, Finish(id) PROVE Typed'
  <2>1. EndOf(id) \in EndStates
    BY <1>6 DEF Finish, EndOf
  <2>2. QED
    BY <1>6, <2>1 DEF Finish
<1>7. CASE TakeFinished
  BY <1>7 DEF TakeFinished
<1>8. CASE UNCHANGED vars
  BY <1>8 DEF vars
<1>9. QED
  BY <1>1, <1>2, <1>3, <1>4, <1>5, <1>6, <1>7, <1>8 DEF Next

\* The queue's state keeps its types, and only a running job has a return
\* value that finish has yet to read.
THEOREM TypeCorrect == Spec => []TypeOK
<1>1. Init => Typed
  BY InitTyped
<1>2. Typed /\ [Next]_vars => Typed'
  BY NextTyped
<1>3. Typed => TypeOK
  BY DEF Typed
<1>4. QED
  BY <1>1, <1>2, <1>3, PTL DEF Spec

-----------------------------------------------------------------------------
(***************************************************************************)
(* One key, one job                                                        *)
(***************************************************************************)

\* A step that queues nothing has no unfinished job it did not have.
OnlyEnds ==
    /\ request' = request
    /\ Unfinished' \subseteq Unfinished

LEMMA StepsOnlyEnd ==
  ASSUME Typed, [Next]_vars
  PROVE  OnlyEnds \/ \E r \in Requests : Submit(r)
<1> USE DEF Typed, TypeOK, OnlyEnds, Unfinished
<1>1. CASE Dispatch
  BY <1>1 DEF Dispatch, Waiting, InState
<1>2. ASSUME NEW id \in Ids, CancelQueued(id) PROVE OnlyEnds
  BY <1>2 DEF CancelQueued
<1>3. ASSUME NEW id \in Ids, CancelRunning(id) PROVE OnlyEnds
  BY <1>3 DEF CancelRunning
<1>4. ASSUME NEW id \in Ids, NEW outcome \in EndStates, RunReturns(id, outcome)
      PROVE  OnlyEnds
  BY <1>4 DEF RunReturns
<1>5. ASSUME NEW id \in Ids, Finish(id) PROVE OnlyEnds
  <2>1. EndOf(id) \notin {"queued", "running"}
    BY <1>5 DEF Finish, EndOf, EndStates
  <2>2. QED
    BY <1>5, <2>1 DEF Finish
<1>6. CASE TakeFinished
  BY <1>6 DEF TakeFinished
<1>7. CASE UNCHANGED vars
  BY <1>7 DEF vars
<1>8. QED
  BY <1>1, <1>2, <1>3, <1>4, <1>5, <1>6, <1>7 DEF Next

\* What a submission adds to the unfinished jobs, and to a request.
LEMMA SubmitAdds ==
  ASSUME Typed, NEW r \in Requests, Submit(r)
  PROVE  LET id == nextId + 1 IN
           /\ id \in Ids
           /\ id \notin Unfinished
           /\ Unfinished' = Unfinished \cup {id}
           /\ request'[id] = r
           /\ \A other \in Ids \ {id} : request'[other] = request[other]
BY DEF Typed, TypeOK, Fresh, Submit, Unfinished, Ids

\* Two requests with one key are one job: no interleaving has two unfinished
\* jobs with one key.
THEOREM OneJobPerKeyHolds == Spec => []OneJobPerKey
<1> DEFINE IInv == Typed /\ OneJobPerKey
<1>1. Init => IInv
  BY InitTyped DEF Init, OneJobPerKey, Unfinished
<1>2. IInv /\ [Next]_vars => IInv'
  <2> SUFFICES ASSUME Typed, OneJobPerKey, [Next]_vars
               PROVE  IInv'
    OBVIOUS
  <2>1. Typed'
    BY NextTyped
  <2>2. CASE OnlyEnds
    BY <2>1, <2>2 DEF OnlyEnds, OneJobPerKey
  <2>3. ASSUME NEW r \in Requests, Submit(r) PROVE OneJobPerKey'
    <3>1. \A other \in Unfinished : request[other].key # r.key
      BY <2>3 DEF Submit, SameKey
    <3>2. QED
      BY <2>3, <3>1, SubmitAdds DEF OneJobPerKey, Unfinished
  <2>4. QED
    BY <2>1, <2>2, <2>3, StepsOnlyEnd
<1>3. QED
  BY <1>1, <1>2, PTL DEF Spec

-----------------------------------------------------------------------------
(***************************************************************************)
(* The limits of a person and of a project                                 *)
(***************************************************************************)

\* Sets of job ids are finite.
LEMMA IdsFinite ==
  ASSUME NEW S \in SUBSET Ids
  PROVE  /\ IsFiniteSet(S)
         /\ Cardinality(S) \in Nat
         /\ \A T \in SUBSET S : IsFiniteSet(T) /\ Cardinality(T) <= Cardinality(S)
<1>1. IsFiniteSet(Ids)
  BY FS_Interval DEF Ids
<1>2. IsFiniteSet(S)
  BY <1>1, FS_Subset
<1>3. QED
  BY <1>2, FS_Subset, FS_CardinalityType

LEMMA ProjectCapBounded ==
  ASSUME NEW r \in Requests
  PROVE  ProjectCap(r) \in Nat /\ ProjectCap(r) <= AtLeastOne(MaxPerProject)
BY DEF ProjectCap, AtLeastOne

\* The limits held for everybody, whether they have unfinished jobs or not.
AllSharesHeld ==
    /\ \A o : UnfinishedOf(o) # {} => Cardinality(UnfinishedOf(o)) <= MaxPerUser
    /\ \A p : UnfinishedIn(p) # {} =>
          Cardinality(UnfinishedIn(p)) <= AtLeastOne(MaxPerProject)

\* Nobody, and no project, ever has more unfinished jobs than allowed.
THEOREM SharesHeldAlways == Spec => []SharesHeld
<1> DEFINE IInv == Typed /\ AllSharesHeld
<1>1. Init => IInv
  BY InitTyped DEF Init, AllSharesHeld, UnfinishedOf, UnfinishedIn, Unfinished
<1>2. IInv /\ [Next]_vars => IInv'
  <2> SUFFICES ASSUME Typed, AllSharesHeld, [Next]_vars
               PROVE  IInv'
    OBVIOUS
  <2>1. Typed'
    BY NextTyped
  <2>2. CASE OnlyEnds
    <3>1. ASSUME NEW o, UnfinishedOf(o)' # {}
          PROVE  Cardinality(UnfinishedOf(o)') <= MaxPerUser
      <4>1. UnfinishedOf(o)' \in SUBSET UnfinishedOf(o)
        BY <2>2 DEF OnlyEnds, UnfinishedOf
      <4>2. UnfinishedOf(o) \in SUBSET Ids
        BY DEF UnfinishedOf, Unfinished
      <4>3. Cardinality(UnfinishedOf(o)') <= Cardinality(UnfinishedOf(o))
        BY <4>1, <4>2, IdsFinite
      <4>4. Cardinality(UnfinishedOf(o)') \in Nat /\ Cardinality(UnfinishedOf(o)) \in Nat
        BY <4>1, <4>2, IdsFinite
      <4>5. QED
        BY <3>1, <4>1, <4>3, <4>4 DEF AllSharesHeld
    <3>2. ASSUME NEW p, UnfinishedIn(p)' # {}
          PROVE  Cardinality(UnfinishedIn(p)') <= AtLeastOne(MaxPerProject)
      <4>1. UnfinishedIn(p)' \in SUBSET UnfinishedIn(p)
        BY <2>2 DEF OnlyEnds, UnfinishedIn
      <4>2. UnfinishedIn(p) \in SUBSET Ids
        BY DEF UnfinishedIn, Unfinished
      <4>3. Cardinality(UnfinishedIn(p)') <= Cardinality(UnfinishedIn(p))
        BY <4>1, <4>2, IdsFinite
      <4>4. Cardinality(UnfinishedIn(p)') \in Nat /\ Cardinality(UnfinishedIn(p)) \in Nat
        BY <4>1, <4>2, IdsFinite
      <4>5. QED
        BY <3>2, <4>1, <4>3, <4>4 DEF AllSharesHeld, AtLeastOne
    <3>3. QED
      BY <2>1, <3>1, <3>2 DEF AllSharesHeld
  <2>3. ASSUME NEW r \in Requests, Submit(r) PROVE IInv'
    <3> DEFINE id == nextId + 1
    <3>1. /\ id \in Ids
          /\ id \notin Unfinished
          /\ Unfinished' = Unfinished \cup {id}
          /\ request'[id] = r
          /\ \A other \in Ids \ {id} : request'[other] = request[other]
      BY <2>3, SubmitAdds
    <3>2. Admissible(r)
      BY <2>3 DEF Submit
    <3>3. ASSUME NEW o, UnfinishedOf(o)' # {}
          PROVE  Cardinality(UnfinishedOf(o)') <= MaxPerUser
      <4>1. UnfinishedOf(o) \in SUBSET Ids /\ id \notin UnfinishedOf(o)
        BY <3>1 DEF UnfinishedOf, Unfinished
      <4>2. CASE o = r.owner
        <5>1. UnfinishedOf(o)' = UnfinishedOf(o) \cup {id}
          BY <3>1, <4>2 DEF UnfinishedOf, Unfinished
        <5>2. Cardinality(UnfinishedOf(o)') = Cardinality(UnfinishedOf(o)) + 1
          BY <4>1, <5>1, IdsFinite, FS_AddElement
        <5>3. Cardinality(UnfinishedOf(o)) < MaxPerUser
          BY <3>2, <4>2 DEF Admissible
        <5>4. QED
          BY <4>1, <5>2, <5>3, IdsFinite
      <4>3. CASE o # r.owner
        <5>1. UnfinishedOf(o)' = UnfinishedOf(o)
          BY <3>1, <4>3 DEF UnfinishedOf, Unfinished
        <5>2. QED
          BY <3>3, <5>1 DEF AllSharesHeld
      <4>4. QED
        BY <4>2, <4>3
    <3>4. ASSUME NEW p, UnfinishedIn(p)' # {}
          PROVE  Cardinality(UnfinishedIn(p)') <= AtLeastOne(MaxPerProject)
      <4>1. UnfinishedIn(p) \in SUBSET Ids /\ id \notin UnfinishedIn(p)
        BY <3>1 DEF UnfinishedIn, Unfinished
      <4>2. CASE p = r.project
        <5>1. UnfinishedIn(p)' = UnfinishedIn(p) \cup {id}
          BY <3>1, <4>2 DEF UnfinishedIn, Unfinished
        <5>2. Cardinality(UnfinishedIn(p)') = Cardinality(UnfinishedIn(p)) + 1
          BY <4>1, <5>1, IdsFinite, FS_AddElement
        <5>3. Cardinality(UnfinishedIn(p)) < ProjectCap(r)
          BY <3>2, <4>2 DEF Admissible
        <5>4. AtLeastOne(MaxPerProject) \in Nat
          BY DEF AtLeastOne
        <5>5. QED
          BY <4>1, <5>2, <5>3, <5>4, ProjectCapBounded, IdsFinite
      <4>3. CASE p # r.project
        <5>1. UnfinishedIn(p)' = UnfinishedIn(p)
          BY <3>1, <4>3 DEF UnfinishedIn, Unfinished
        <5>2. QED
          BY <3>4, <5>1 DEF AllSharesHeld
      <4>4. QED
        BY <4>2, <4>3
    <3>5. QED
      BY <2>1, <3>3, <3>4 DEF AllSharesHeld
  <2>4. QED
    BY <2>2, <2>3, StepsOnlyEnd
<1>3. IInv => SharesHeld
  BY DEF AllSharesHeld, SharesHeld, UnfinishedOf, UnfinishedIn
<1>4. QED
  BY <1>1, <1>2, <1>3, PTL DEF Spec

-----------------------------------------------------------------------------
(***************************************************************************)
(* The order of the queue                                                  *)
(***************************************************************************)

\* A set of natural numbers that is not empty has a smallest one.
LEMMA SmallestOf ==
  ASSUME NEW T, T \subseteq Nat, T # {}
  PROVE  \E least \in T : \A n \in T : least <= n
<1>1. PICK least \in T : \A n \in T : ~(<<n, least>> \in OpToRel(<, Nat))
  BY NatLessThanWellFounded, WFMin, Zenon
<1>2. ASSUME NEW n \in T PROVE ~(n < least)
  <2>1. n \in Nat /\ least \in Nat /\ ~(<<n, least>> \in OpToRel(<, Nat))
    BY <1>1
  <2>2. QED
    BY <2>1, Zenon DEF OpToRel
<1>3. QED
  BY <1>2

\* A set of job ids has a first and a last one by age.
LEMMA Oldest ==
  ASSUME NEW T \in SUBSET Ids, T # {}
  PROVE  \E first \in T : \A id \in T : first <= id
<1>1. T \subseteq Nat
  BY DEF Ids
<1>2. QED
  BY <1>1, SmallestOf

LEMMA Youngest ==
  ASSUME NEW T \in SUBSET Ids, T # {}
  PROVE  \E last \in T : \A id \in T : id <= last
<1> DEFINE Bounds == {n \in Nat : \A id \in T : id <= n}
<1>1. MaxSubmissions \in Bounds
  BY DEF Ids
<1>2. PICK least \in Bounds : \A n \in Bounds : least <= n
  BY <1>1, SmallestOf
<1>3. PICK any \in T : TRUE
  OBVIOUS
<1>4. ASSUME least \notin T PROVE FALSE
  <2>1. \A id \in T : id <= least - 1
    BY <1>4 DEF Ids
  <2>2. least - 1 \in Nat
    BY <1>3, <2>1 DEF Ids
  <2>3. least - 1 \in Bounds
    BY <2>1, <2>2
  <2>4. QED
    BY <1>2, <2>3
<1>5. QED
  BY <1>2, <1>4

\* The queue's order has a first and a last job in every set of them.
LEMMA FirstInOrder ==
  ASSUME TypeOK, NEW T \in SUBSET Ids, T # {}
  PROVE  \E first \in T : \A id \in T : id # first => ~Before(id, first)
<1> DEFINE Drafts == {id \in T : request[id].priority = "draft"}
<1>1. \A id \in T : id \in Nat /\ request[id].priority \in Priorities
  BY DEF TypeOK, Ids
<1>2. CASE Drafts # {}
  <2>1. PICK first \in Drafts : \A id \in Drafts : first <= id
    BY <1>2, Oldest
  <2>2. QED
    BY <1>1, <2>1 DEF Before, Priorities
<1>3. CASE Drafts = {}
  <2>1. PICK first \in T : \A id \in T : first <= id
    BY Oldest
  <2>2. QED
    BY <1>1, <1>3, <2>1 DEF Before, Priorities
<1>4. QED
  BY <1>2, <1>3

LEMMA LastInOrder ==
  ASSUME TypeOK, NEW T \in SUBSET Ids, T # {}
  PROVE  \E last \in T : /\ ~Before(last, last)
                         /\ \A id \in T : id # last => Before(id, last)
<1> DEFINE Batch == {id \in T : request[id].priority = "batch"}
<1>1. \A id \in T : id \in Nat /\ request[id].priority \in Priorities
  BY DEF TypeOK, Ids
<1>2. CASE Batch # {}
  <2>1. PICK last \in Batch : \A id \in Batch : id <= last
    BY <1>2, Youngest
  <2>2. QED
    BY <1>1, <2>1 DEF Before, Priorities
<1>3. CASE Batch = {}
  <2>1. PICK last \in T : \A id \in T : id <= last
    BY Youngest
  <2>2. QED
    BY <1>1, <1>3, <2>1 DEF Before, Priorities
<1>4. QED
  BY <1>2, <1>3

-----------------------------------------------------------------------------
(***************************************************************************)
(* No wakeup is lost                                                       *)
(***************************************************************************)

\* A dispatch with nothing running leaves nothing waiting, or starts a job:
\* the first of the queue always fits an idle server.
LEMMA IdleDispatchStarts ==
  ASSUME TypeOK, Running = {}, NEW S, Started(S), S = {}
  PROVE  Waiting = {}
<1>1. SUFFICES ASSUME Waiting # {} PROVE FALSE
  OBVIOUS
<1>2. Waiting \in SUBSET Ids
  BY DEF Waiting, InState
<1>3. PICK first \in Waiting : \A id \in Waiting : id # first => ~Before(id, first)
  BY <1>1, <1>2, FirstInOrder
<1>4. ~Before(first, first)
  BY <1>2 DEF TypeOK, Before, Ids, Priorities
<1>5. ~Fits({}, first)
  BY <1>3, <1>4 DEF Started
<1>6. QED
  BY <1>5, FS_EmptySet DEF Fits, AtLeastOne

\* There is no scheduler loop, and none is needed: when no dispatch is due
\* and nothing runs, nothing waits.
THEOREM NoLostWakeupEver == Spec => []NoLostWakeup
<1> DEFINE IInv == Typed /\ NoLostWakeup
<1>1. Init => IInv
  BY InitTyped DEF Init, NoLostWakeup, Waiting, InState
<1>2. IInv /\ [Next]_vars => IInv'
  <2> SUFFICES ASSUME Typed, NoLostWakeup, [Next]_vars
               PROVE  NoLostWakeup'
    BY NextTyped
  <2> USE DEF Typed, TypeOK, NoLostWakeup, Running, Waiting, InState
  <2>1. ASSUME NEW r \in Requests, Submit(r) PROVE NoLostWakeup'
    BY <2>1 DEF Submit
  <2>2. CASE Dispatch
    <3>1. PICK old \in SUBSET Ended, S \in SUBSET Waiting :
            /\ Started(S)
            /\ state' = [id \in Ids |->
                          IF id \in S THEN "running"
                          ELSE IF id \in old THEN "forgotten"
                          ELSE state[id]]
      BY <2>2 DEF Dispatch
    <3>2. SUFFICES ASSUME Running' = {} PROVE Waiting' = {}
      OBVIOUS
    <3>3. S = {}
      BY <3>1, <3>2
    <3>4. Running = {}
      BY <3>1, <3>2 DEF Ended, EndStates
    <3>5. Waiting = {}
      BY <3>1, <3>3, <3>4, IdleDispatchStarts
    <3>6. QED
      BY <3>1, <3>5
  <2>3. ASSUME NEW id \in Ids, CancelQueued(id) PROVE NoLostWakeup'
    BY <2>3 DEF CancelQueued
  <2>4. ASSUME NEW id \in Ids, CancelRunning(id) PROVE NoLostWakeup'
    BY <2>4 DEF CancelRunning
  <2>5. ASSUME NEW id \in Ids, NEW outcome \in EndStates, RunReturns(id, outcome)
        PROVE  NoLostWakeup'
    BY <2>5 DEF RunReturns
  <2>6. ASSUME NEW id \in Ids, Finish(id) PROVE NoLostWakeup'
    BY <2>6 DEF Finish
  <2>7. CASE TakeFinished
    BY <2>7 DEF TakeFinished
  <2>8. CASE UNCHANGED vars
    BY <2>8 DEF vars
  <2>9. QED
    BY <2>1, <2>2, <2>3, <2>4, <2>5, <2>6, <2>7, <2>8 DEF Next
<1>3. QED
  BY <1>1, <1>2, PTL DEF Spec

-----------------------------------------------------------------------------
(***************************************************************************)
(* The budget                                                              *)
(***************************************************************************)

\* What is queued fits the budget alone: submit refused anything larger.
EachFits == \A id \in Unfinished : request[id].estimate <= MemoryBytes

LEMMA IntervalSize ==
  ASSUME NEW n \in Nat
  PROVE  IsFiniteSet(1 .. n) /\ Cardinality(1 .. n) = n
<1>1. IsFiniteSet(1 .. n) /\ Cardinality(1 .. n) = IF 1 > n THEN 0 ELSE n - 1 + 1
  BY FS_Interval
<1>2. QED
  BY <1>1

LEMMA BytesFinite ==
  ASSUME TypeOK, EachFits, NEW S \in SUBSET Unfinished
  PROVE  /\ IsFiniteSet(BytesOf(S))
         /\ Cardinality(BytesOf(S)) \in Nat
<1>1. IsFiniteSet(S) /\ IsFiniteSet(1 .. MemoryBytes)
  BY IdsFinite, FS_Interval DEF Unfinished
<1>2. IsFiniteSet(S \X (1 .. MemoryBytes))
  BY <1>1, FS_Product
<1>3. BytesOf(S) \in SUBSET (S \X (1 .. MemoryBytes))
  BY DEF BytesOf, EachFits, TypeOK, Unfinished
<1>4. QED
  BY <1>2, <1>3, FS_Subset, FS_CardinalityType

\* One more job adds its estimate.
LEMMA BytesAdd ==
  ASSUME TypeOK, EachFits, NEW S \in SUBSET Unfinished,
         NEW id \in Unfinished, id \notin S
  PROVE  Cardinality(BytesOf(S \cup {id}))
           = Cardinality(BytesOf(S)) + request[id].estimate
<1> DEFINE own == {id} \X (1 .. request[id].estimate)
<1>1. request[id].estimate \in Nat
  BY DEF TypeOK, Unfinished
<1>2. IsFiniteSet(own) /\ Cardinality(own) = request[id].estimate
  <2>1. /\ IsFiniteSet(1 .. request[id].estimate)
        /\ Cardinality(1 .. request[id].estimate) = request[id].estimate
    BY <1>1, IntervalSize
  <2>2. IsFiniteSet({id}) /\ Cardinality({id}) = 1
    BY FS_Singleton
  <2>3. Cardinality(own) = 1 * request[id].estimate
    BY <2>1, <2>2, FS_Product
  <2>4. QED
    BY <1>1, <2>1, <2>2, <2>3, FS_Product
<1>3. BytesOf(S \cup {id}) = BytesOf(S) \cup own
  BY DEF BytesOf
<1>4. BytesOf(S) \cap own = {}
  BY DEF BytesOf
<1>5. Cardinality(BytesOf(S) \cap own) = 0
  BY <1>4, FS_EmptySet
<1>6. IsFiniteSet(BytesOf(S)) /\ Cardinality(BytesOf(S)) \in Nat
  BY BytesFinite
<1>7. Cardinality(BytesOf(S) \cup own)
        = Cardinality(BytesOf(S)) + Cardinality(own) - Cardinality(BytesOf(S) \cap own)
  BY <1>2, <1>6, FS_Union
<1> HIDE DEF own
<1>8. Cardinality(BytesOf(S \cup {id})) = Cardinality(BytesOf(S) \cup own)
  BY <1>3
<1>9. QED
  BY <1>1, <1>2, <1>5, <1>6, <1>7, <1>8

\* However many jobs a dispatch starts, they fit: the last of them was
\* weighed with all the others.
LEMMA StartedFit ==
  ASSUME TypeOK, EachFits, WithinBudget, NEW S \in SUBSET Waiting, Started(S)
  PROVE  /\ Cardinality(Running \cup S) <= AtLeastOne(JobsAtOnce)
         /\ Cardinality(BytesOf(Running \cup S)) <= MemoryBytes
<1>1. CASE S = {}
  <2>1. Running \cup S = Running
    BY <1>1
  <2>2. QED
    BY <2>1 DEF WithinBudget
<1>2. CASE S # {}
  <2>1. S \in SUBSET Ids
    BY DEF Waiting, InState
  <2>2. PICK last \in S : /\ ~Before(last, last)
                          /\ \A id \in S : id # last => Before(id, last)
    BY <1>2, <2>1, LastInOrder
  <2> DEFINE rest == Running \cup (S \ {last})
  <2>3. Fits(rest, last)
    <3>1. {x \in S : Before(x, last)} = S \ {last}
      BY <2>2
    <3>2. Fits(Running \cup {x \in S : Before(x, last)}, last)
      BY DEF Started
    <3>3. QED
      BY <3>1, <3>2
  <2>4. Running \cup S = rest \cup {last}
    OBVIOUS
  <2>5. last \notin rest /\ last \in Unfinished /\ rest \in SUBSET Unfinished
    BY <2>1 DEF Waiting, Running, InState, Unfinished
  <2>6. rest \in SUBSET Ids
    BY <2>5 DEF Unfinished
  <2>7. Cardinality(rest) < AtLeastOne(JobsAtOnce) /\ Cardinality(rest) \in Nat
    BY <2>3, <2>6, IdsFinite DEF Fits
  <2>8. Cardinality(rest \cup {last}) = Cardinality(rest) + 1
    BY <2>5, <2>6, IdsFinite, FS_AddElement
  <2>9. AtLeastOne(JobsAtOnce) \in Nat
    BY DEF AtLeastOne
  <2>10. Cardinality(Running \cup S) <= AtLeastOne(JobsAtOnce)
    BY <2>4, <2>7, <2>8, <2>9
  <2>11. Cardinality(BytesOf(rest \cup {last}))
           = Cardinality(BytesOf(rest)) + request[last].estimate
    BY <2>5, BytesAdd
  <2>12. request[last].estimate \in Nat /\ request[last].estimate <= MemoryBytes
    BY <2>5 DEF EachFits, TypeOK, Unfinished
  <2>13. Cardinality(BytesOf(rest)) + request[last].estimate <= MemoryBytes
    <3>1. CASE rest = {}
      <4>1. BytesOf(rest) = {}
        BY <3>1 DEF BytesOf
      <4>2. Cardinality(BytesOf(rest)) = 0
        BY <4>1, FS_EmptySet
      <4>3. QED
        BY <2>12, <4>2
    <3>2. CASE rest # {}
      BY <2>3, <3>2 DEF Fits
    <3>3. QED
      BY <3>1, <3>2
  <2>14. QED
    BY <2>4, <2>10, <2>11, <2>13
<1>3. QED
  BY <1>1, <1>2

\* A step that starts nothing keeps within the budget.
LEMMA FewerRunningFit ==
  ASSUME TypeOK, EachFits, WithinBudget, NEW R \in SUBSET Running
  PROVE  /\ Cardinality(R) <= AtLeastOne(JobsAtOnce)
         /\ Cardinality(BytesOf(R)) <= MemoryBytes
<1>1. Running \in SUBSET Unfinished /\ Running \in SUBSET Ids
  BY DEF Running, InState, Unfinished
<1>2. Cardinality(R) <= Cardinality(Running) /\ Cardinality(R) \in Nat
      /\ Cardinality(Running) \in Nat
  BY <1>1, IdsFinite
<1>3. BytesOf(R) \in SUBSET BytesOf(Running)
  BY DEF BytesOf
<1>4. Cardinality(BytesOf(R)) <= Cardinality(BytesOf(Running))
  BY <1>1, <1>3, BytesFinite, FS_Subset
<1>5. Cardinality(BytesOf(R)) \in Nat /\ Cardinality(BytesOf(Running)) \in Nat
  BY <1>1, BytesFinite
<1>6. QED
  BY <1>2, <1>4, <1>5 DEF WithinBudget, AtLeastOne

\* Never more children than --processing-jobs, never more memory expected of
\* them together than --processing-memory-mb.
THEOREM WithinBudgetAlways == Spec => []WithinBudget
<1> DEFINE IInv == Typed /\ EachFits /\ WithinBudget
<1>1. Init => IInv
  <2> SUFFICES ASSUME Init PROVE IInv
    OBVIOUS
  <2>1. Running = {} /\ Unfinished = {}
    BY DEF Init, Running, InState, Unfinished
  <2>2. BytesOf(Running) = {}
    BY <2>1 DEF BytesOf
  <2>3. Cardinality(Running) = 0 /\ Cardinality(BytesOf(Running)) = 0
    BY <2>1, <2>2, FS_EmptySet
  <2>4. QED
    BY <2>1, <2>3, InitTyped DEF EachFits, WithinBudget, AtLeastOne
<1>2. IInv /\ [Next]_vars => IInv'
  <2> SUFFICES ASSUME Typed, EachFits, WithinBudget, [Next]_vars
               PROVE  EachFits' /\ WithinBudget'
    BY NextTyped
  <2> USE DEF Typed, TypeOK
  <2>1. EachFits'
    <3>1. CASE OnlyEnds
      BY <3>1 DEF OnlyEnds, EachFits
    <3>2. ASSUME NEW r \in Requests, Submit(r) PROVE EachFits'
      BY <3>2, SubmitAdds DEF Submit, Admissible, EachFits, Unfinished
    <3>3. QED
      BY <3>1, <3>2, StepsOnlyEnd
  <2>2. ASSUME Running' \in SUBSET Running,
               \A id \in Running' : request'[id] = request[id]
        PROVE  WithinBudget'
    <3>1. BytesOf(Running)' = BytesOf(Running')
      BY <2>2 DEF BytesOf
    <3>2. QED
      BY <2>2, <3>1, FewerRunningFit DEF WithinBudget
  <2>3. ASSUME NEW r \in Requests, Submit(r) PROVE WithinBudget'
    <3>1. Running' = Running /\ nextId + 1 \notin Running
      BY <2>3 DEF Submit, Running, InState, Fresh, Ids
    <3>2. QED
      BY <2>2, <2>3, <3>1, SubmitAdds DEF Running, InState
  <2>4. CASE Dispatch
    <3>1. PICK old \in SUBSET Ended, S \in SUBSET Waiting :
            /\ Started(S)
            /\ state' = [id \in Ids |->
                          IF id \in S THEN "running"
                          ELSE IF id \in old THEN "forgotten"
                          ELSE state[id]]
      BY <2>4 DEF Dispatch
    <3>2. Running' = Running \cup S
      BY <3>1 DEF Running, Waiting, InState, Ended, EndStates
    <3>3. BytesOf(Running)' = BytesOf(Running \cup S)
      BY <2>4, <3>2 DEF Dispatch, BytesOf
    <3>4. /\ Cardinality(Running \cup S) <= AtLeastOne(JobsAtOnce)
          /\ Cardinality(BytesOf(Running \cup S)) <= MemoryBytes
      BY <3>1, StartedFit
    <3>5. QED
      BY <2>1, <3>2, <3>3, <3>4 DEF WithinBudget
  <2>9. CASE request' = request /\ state' = state
    <3>1. Running' = Running
      BY <2>9 DEF Running, InState
    <3>2. QED
      BY <2>1, <2>2, <2>9, <3>1
  <2> USE DEF Running, InState
  <2>5. ASSUME NEW id \in Ids, CancelQueued(id) PROVE WithinBudget'
    BY <2>2, <2>5 DEF CancelQueued
  <2>6. ASSUME NEW id \in Ids, CancelRunning(id) PROVE WithinBudget'
    BY <2>2, <2>6 DEF CancelRunning
  <2>7. ASSUME NEW id \in Ids, NEW outcome \in EndStates, RunReturns(id, outcome)
        PROVE  WithinBudget'
    BY <2>2, <2>7 DEF RunReturns
  <2>8. ASSUME NEW id \in Ids, Finish(id) PROVE WithinBudget'
    <3>1. EndOf(id) # "running"
      BY <2>8 DEF Finish, EndOf, EndStates
    <3>2. QED
      BY <2>2, <2>8, <3>1 DEF Finish
  <2>10. QED
    BY <2>1, <2>3, <2>4, <2>5, <2>6, <2>7, <2>8, <2>9
    DEF Next, TakeFinished, vars
<1>3. QED
  BY <1>1, <1>2, PTL DEF Spec

(***************************************************************************)
(* LimitsHeld: what keeps a server from being overwhelmed, and one person  *)
(* or project from keeping the others out of it.                           *)
(***************************************************************************)
THEOREM LimitsHeldAlways == Spec => []LimitsHeld
<1>1. WithinBudget /\ SharesHeld <=> LimitsHeld
  BY DEF LimitsHeld
<1>2. QED
  BY <1>1, WithinBudgetAlways, SharesHeldAlways, PTL

-----------------------------------------------------------------------------
(***************************************************************************)
(* How jobs end and start                                                  *)
(***************************************************************************)

\* What a step may make of a job: ends stay, and a run that was cancelled
\* ends cancelled.
LEMMA StepKeepsEnds ==
  ASSUME Typed, [Next]_vars
  PROVE  /\ \A id \in Ended : state'[id] \in {state[id], "forgotten"}
         /\ \A id \in cancelled :
              state[id] = "running" /\ state'[id] # "running"
                 => state'[id] = "cancelled"
<1> USE DEF Typed, TypeOK, Ended, EndStates
<1>1. ASSUME NEW r \in Requests, Submit(r) PROVE \A id \in Ids : state'[id] = state[id] \/ state[id] = "absent"
  BY <1>1 DEF Submit, Fresh
<1>2. ASSUME Dispatch
      PROVE  \A id \in Ids : \/ state'[id] = state[id]
                             \/ state[id] = "queued"
                             \/ id \in Ended /\ state'[id] = "forgotten"
  BY <1>2 DEF Dispatch, Waiting, InState
<1>3. ASSUME NEW one \in Ids, CancelQueued(one)
      PROVE  \A id \in Ids : state'[id] = state[id] \/ state[id] = "queued"
  BY <1>3 DEF CancelQueued
<1>4. ASSUME NEW one \in Ids, Finish(one)
      PROVE  \A id \in Ids :
                \/ state'[id] = state[id]
                \/ state[id] = "running" /\ (id \in cancelled => state'[id] = "cancelled")
  BY <1>4 DEF Finish, EndOf
<1>5. ASSUME NEW one \in Ids, CancelRunning(one) PROVE state' = state
  BY <1>5 DEF CancelRunning
<1>6. ASSUME NEW one \in Ids, NEW outcome \in EndStates, RunReturns(one, outcome)
      PROVE  state' = state
  BY <1>6 DEF RunReturns
<1>7. TakeFinished \/ UNCHANGED vars => state' = state
  BY DEF TakeFinished, vars
<1>8. \A id \in Ids :
         \/ state'[id] = state[id]
         \/ state[id] \in {"absent", "queued"}
         \/ id \in Ended /\ state'[id] = "forgotten"
         \/ state[id] = "running" /\ (id \in cancelled => state'[id] = "cancelled")
  BY <1>1, <1>2, <1>3, <1>4, <1>5, <1>6, <1>7 DEF Next
<1>9. QED
  BY <1>8

\* How a job ended is final, and a cancel that was answered with true is
\* kept: whatever later cancels, ends and dispatches meet.
THEOREM EndsAreAlwaysFinal == Spec => EndsAreFinal
<1>1. Init => Typed
  BY InitTyped
<1>2. Typed /\ [Next]_vars => Typed'
  BY NextTyped
<1>3. Typed /\ [Next]_vars =>
         [/\ \A id \in Ended : state'[id] \in {state[id], "forgotten"}
          /\ \A id \in cancelled :
               state[id] = "running" /\ state'[id] # "running"
                  => state'[id] = "cancelled"]_vars
  BY StepKeepsEnds
<1>4. QED
  BY <1>1, <1>2, <1>3, PTL DEF Spec, EndsAreFinal

\* Only a dispatch starts jobs, and it starts a set of them that is closed
\* under going before.
LEMMA StepOvertakesNobody ==
  ASSUME Typed, [Next]_vars,
         NEW a \in InState("queued"), NEW b \in InState("queued"),
         state'[a] = "queued", state'[b] = "running"
  PROVE  /\ request[a].priority = "draft" => request[b].priority = "draft"
         /\ request[a].priority = request[b].priority => b < a
<1> USE DEF Typed, TypeOK, InState
<1>1. CASE Dispatch
  <2>1. PICK S \in SUBSET Waiting :
          /\ Started(S)
          /\ \A id \in Ids : id \in S => state'[id] = "running"
          /\ \A id \in Ids : id \notin S => state'[id] \in {state[id], "forgotten"}
    BY <1>1 DEF Dispatch
  <2>2. b \in S /\ a \notin S /\ a \in Waiting
    BY <2>1 DEF Waiting
  <2>3. ~Before(a, b)
    BY <2>1, <2>2 DEF Started
  <2>4. a \in Nat /\ b \in Nat /\ a # b
    BY DEF Ids
  <2>5. request[a].priority \in Priorities /\ request[b].priority \in Priorities
    OBVIOUS
  <2>6. QED
    BY <2>3, <2>4, <2>5 DEF Before, Priorities
<1>2. ASSUME NEW r \in Requests, Submit(r) PROVE FALSE
  BY <1>2 DEF Submit, Fresh, Ids
<1>3. ASSUME NEW id \in Ids, CancelQueued(id) PROVE FALSE
  BY <1>3 DEF CancelQueued
<1>4. ASSUME NEW id \in Ids, Finish(id) PROVE FALSE
  BY <1>4 DEF Finish
<1>5. QED
  BY <1>1, <1>2, <1>3, <1>4 DEF Next, CancelRunning, RunReturns, TakeFinished, vars

\* A job that starts overtakes no draft and nothing older of its priority,
\* however small it is and whatever the budget.
THEOREM NobodyIsOvertaken == Spec => NoOvertaking
<1>1. Init => Typed
  BY InitTyped
<1>2. Typed /\ [Next]_vars => Typed'
  BY NextTyped
<1>3. Typed /\ [Next]_vars =>
         [\A a, b \in InState("queued") :
            state'[a] = "queued" /\ state'[b] = "running" =>
              /\ request[a].priority = "draft" => request[b].priority = "draft"
              /\ request[a].priority = request[b].priority => b < a]_vars
  BY StepOvertakesNobody
<1>4. QED
  BY <1>1, <1>2, <1>3, PTL DEF Spec, NoOvertaking

-----------------------------------------------------------------------------
(***************************************************************************)
(* What the heartbeat reports                                              *)
(***************************************************************************)

Over == {id \in Ids : state[id] \in EndStates \cup {"forgotten"}}

CountedEnds ==
    reported + finished["done"] + finished["failed"]
      + finished["timed_out"] + finished["cancelled"]

\* One end, and one more is counted.
LEMMA EndIsCounted ==
  ASSUME Typed, Cardinality(Over) = CountedEnds,
         NEW id \in Ids, state[id] \in {"queued", "running"},
         NEW end \in EndStates,
         state' = [state EXCEPT ![id] = end],
         finished' = [finished EXCEPT ![end] = @ + 1],
         reported' = reported
  PROVE  Cardinality(Over') = CountedEnds'
<1> USE DEF Typed, TypeOK, EndStates
<1>1. id \notin Over /\ Over' = Over \cup {id}
  BY DEF Over
<1>2. IsFiniteSet(Over)
  BY IdsFinite DEF Over
<1>3. Cardinality(Over') = Cardinality(Over) + 1
  BY <1>1, <1>2, FS_AddElement
<1>4. CountedEnds' = CountedEnds + 1
  BY DEF CountedEnds
<1>5. QED
  BY <1>3, <1>4

\* Every job that ended is counted once, also when a cancel meets its end.
THEOREM EveryEndIsCountedOnce == Spec => []EveryEndCountedOnce
<1> DEFINE IInv == Typed /\ Cardinality(Over) = CountedEnds
<1>1. Init => IInv
  <2> SUFFICES ASSUME Init PROVE Cardinality(Over) = CountedEnds
    BY InitTyped
  <2>1. Over = {}
    BY DEF Init, Over, EndStates
  <2>2. QED
    BY <2>1, FS_EmptySet DEF Init, CountedEnds, EndStates
<1>2. IInv /\ [Next]_vars => IInv'
  <2> SUFFICES ASSUME Typed, Cardinality(Over) = CountedEnds, [Next]_vars
               PROVE  Cardinality(Over') = CountedEnds'
    BY NextTyped
  <2> USE DEF Typed, TypeOK
  <2>1. CASE Over' = Over /\ CountedEnds' = CountedEnds
    BY <2>1
  <2>2. ASSUME NEW r \in Requests, Submit(r)
        PROVE  Over' = Over /\ CountedEnds' = CountedEnds
    BY <2>2 DEF Submit, Over, CountedEnds, Fresh, Ids, EndStates
  <2>3. CASE Dispatch
    <3>1. Over' = Over
      BY <2>3 DEF Dispatch, Over, Waiting, InState, Ended, EndStates
    <3>2. QED
      BY <2>1, <2>3, <3>1 DEF Dispatch, CountedEnds
  <2>4. ASSUME NEW id \in Ids, CancelQueued(id) PROVE Cardinality(Over') = CountedEnds'
    BY <2>4, EndIsCounted DEF CancelQueued, EndStates
  <2>5. ASSUME NEW id \in Ids, Finish(id) PROVE Cardinality(Over') = CountedEnds'
    <3>1. EndOf(id) \in EndStates /\ state[id] = "running"
      BY <2>5 DEF Finish, EndOf, EndStates
    <3>2. QED
      BY <2>5, <3>1, EndIsCounted DEF Finish
  <2>6. CASE TakeFinished
    <3>1. CountedEnds' = CountedEnds
      BY <2>6 DEF TakeFinished, CountedEnds, EndStates
    <3>2. QED
      BY <2>1, <2>6, <3>1 DEF TakeFinished, Over
  <2>7. ASSUME NEW id \in Ids, CancelRunning(id)
        PROVE  Over' = Over /\ CountedEnds' = CountedEnds
    BY <2>7 DEF CancelRunning, Over, CountedEnds
  <2>8. ASSUME NEW id \in Ids, NEW outcome \in EndStates, RunReturns(id, outcome)
        PROVE  Over' = Over /\ CountedEnds' = CountedEnds
    BY <2>8 DEF RunReturns, Over, CountedEnds
  <2>9. ASSUME UNCHANGED vars PROVE Over' = Over /\ CountedEnds' = CountedEnds
    BY <2>9 DEF vars, Over, CountedEnds
  <2>10. QED
    BY <2>1, <2>2, <2>3, <2>4, <2>5, <2>6, <2>7, <2>8, <2>9 DEF Next
<1>3. IInv => EveryEndCountedOnce
  BY DEF EveryEndCountedOnce, Over, CountedEnds
<1>4. QED
  BY <1>1, <1>2, <1>3, PTL DEF Spec

----------------------------------------------------------------------------
(***************************************************************************)
(* The drafts and batch items that ride on the queue (Drafts).             *)
(***************************************************************************)
\* What each call has to show for how far it has come.
Asked ==
    /\ \A r \in Requests :
         /\ phase[r] \in {"new", "laid out", "refused"} => job[r] = 0
         /\ phase[r] \in {"submitted", "registered", "processing"} => job[r] # 0
         /\ phase[r] = "registered" => r \in DraftCalls
         /\ phase[r] \in {"processing"} \cup ItemEnds => r \in ItemCalls
         /\ job[r] # 0 => job[r] <= nextId /\ request[job[r]].key = r.key
         /\ phase[r] \in ItemEnds /\ job[r] # 0 => IsFinished(job[r])
    /\ \A id \in Ids : id <= nextId => job[request[id]] = id

\* What the map of drafts has to show, and what is left of a draft that is gone.
Entries ==
    /\ \A id \in Ids : drafts[id] # NoDraft =>
          phase[drafts[id]] = "registered" /\ job[drafts[id]] = id
    /\ \A id \in deleting : id <= nextId /\ (IsFinished(id) \/ id \in cancelled)
    /\ \A r \in Requests : phase[r] = "registered" /\ drafts[job[r]] = NoDraft
            => IsFinished(job[r]) \/ job[r] \in cancelled

\* A job cancelled while it ran is told so when it ends.
CancelledIsKept == \A id \in cancelled : state[id] \in {"running", "cancelled", "forgotten"}

\* Raw files are there from when they are laid out until the call has been answered.
Laid == \A r \in Requests : phase[r] \in {"laid out", "submitted"} => r \in laidOut

CallsInv == Typed /\ DraftsTypeOK /\ Asked /\ Entries /\ CancelledIsKept /\ Laid

\* The steps of the calls that leave the queue alone.
Aside ==
    \/ \E r \in Requests : Drop(r) \/ LayOut(r) \/ SubmitJoins(r) \/ SubmitRefused(r)
                           \/ Register(r) \/ RegisterItem(r) \/ ItemFinishes(r)
    \/ Tidy \/ (\E id \in Ids : DeleteRemoves(id))

\* And the steps of the queue that leave the calls alone.
Within ==
    \/ QueueNext \/ (\E id \in Ids : DeleteCancels(id))
    \/ \E id \in Ids, result \in EndStates : JobReturns(id, result)

LEMMA DraftKinds ==
    ASSUME NextDrafts
    PROVE  Aside \/ Within \/ \E r \in Requests : SubmitNew(r)
BY DEF NextDrafts, CallNext, Aside, Within

LEMMA AsideKeeps == ASSUME Aside PROVE UNCHANGED queueVars
BY DEF Aside, Drop, LayOut, SubmitJoins, SubmitRefused, Register, RegisterItem, ItemFinishes, Tidy, DeleteRemoves

LEMMA WithinKeeps ==
    ASSUME Within
    PROVE  /\ UNCHANGED <<phase, job, drafts, laidOut>> /\ [Next]_vars
           /\ nextId' = nextId /\ request' = request /\ cancelled \subseteq cancelled'
<1>1. CASE QueueNext
    BY <1>1 DEF QueueNext, Next, Dispatch, Finish, callVars
<1>2. ASSUME NEW id \in Ids, DeleteCancels(id)
      PROVE  /\ UNCHANGED <<phase, job, drafts, laidOut>> /\ [Next]_vars
             /\ nextId' = nextId /\ request' = request /\ cancelled \subseteq cancelled'
  <2>1. CancelQueued(id) \/ CancelRunning(id) \/ UNCHANGED vars
    BY <1>2 DEF DeleteCancels, queueVars
  <2>2. [Next]_vars BY <2>1 DEF Next
  <2>3. nextId' = nextId /\ request' = request /\ cancelled \subseteq cancelled'
    BY <2>1 DEF CancelQueued, CancelRunning, vars
  <2> QED BY <1>2, <2>2, <2>3 DEF DeleteCancels
<1>3. ASSUME NEW id \in Ids, NEW result \in EndStates, JobReturns(id, result)
      PROVE  /\ UNCHANGED <<phase, job, drafts, laidOut>> /\ [Next]_vars
             /\ nextId' = nextId /\ request' = request /\ cancelled \subseteq cancelled'
  <2>1. RunReturns(id, result) BY <1>3 DEF JobReturns
  <2>2. [Next]_vars BY <2>1 DEF Next
  <2> QED BY <1>3, <2>1, <2>2 DEF JobReturns, RunReturns
<1> QED BY <1>1, <1>2, <1>3 DEF Within

\* What a submission of a call's own makes of the queue.
LEMMA SubmitNewMakes ==
    ASSUME Typed, NEW r \in Requests, SubmitNew(r)
    PROVE  /\ Typed' /\ nextId' = nextId + 1 /\ nextId' \in Ids /\ UNCHANGED <<cancelled, returned>>
           /\ nextId' \notin Unfinished /\ state[nextId'] = "absent"
           /\ Unfinished' = Unfinished \cup {nextId'} /\ request'[nextId'] = r
           /\ \A id \in Ids \ {nextId'} : request'[id] = request[id] /\ state'[id] = state[id]
           /\ state'[nextId'] = "queued"
<1>1. Submit(r) BY DEF SubmitNew
<1>2. Typed' BY <1>1, NextTyped DEF Next
<1>3. nextId' = nextId + 1 /\ UNCHANGED <<cancelled, returned>> /\ nextId < MaxSubmissions
      /\ state' = [state EXCEPT ![nextId + 1] = "queued"]
    BY <1>1 DEF Submit
<1>4. nextId + 1 \in Ids /\ state[nextId + 1] = "absent"
    BY <1>3 DEF Typed, TypeOK, Fresh, Ids
<1>5. \A id \in Ids \ {nextId + 1} : state'[id] = state[id]
    BY <1>3 DEF Typed, TypeOK
<1>6. state'[nextId + 1] = "queued" BY <1>3, <1>4 DEF Typed, TypeOK
<1> QED BY <1>1, <1>2, <1>3, <1>4, <1>5, <1>6, SubmitAdds

\* A job that is given out is one of the queue's.
LEMMA GivenOut ==
    ASSUME CallsInv
    PROVE  /\ \A r \in Requests : job[r] # 0 => job[r] \in Ids /\ job[r] \in 1 .. nextId
           /\ \A id \in Unfinished : id \in Ids /\ id <= nextId
           /\ \A id \in Ids : drafts[id] # NoDraft =>
                drafts[id] \in DraftCalls /\ drafts[id] \in Requests
           /\ Unfinished \subseteq Ids /\ nextId \in Nat
<1>1. nextId \in Nat /\ Unfinished \subseteq Ids BY DEF CallsInv, Typed, TypeOK, Unfinished
<1>2. ASSUME NEW r \in Requests, job[r] # 0 PROVE job[r] \in Ids /\ job[r] \in 1 .. nextId
  <2>1. job[r] \in Ids /\ job[r] <= nextId BY <1>2 DEF CallsInv, DraftsTypeOK, Asked
  <2> QED BY <1>1, <2>1 DEF Ids
<1>3. ASSUME NEW id \in Unfinished PROVE id <= nextId
  <2>1. id \in Ids /\ state[id] # "absent" BY <1>3 DEF Unfinished
  <2>2. ~(id > nextId) BY <2>1 DEF CallsInv, Typed, Fresh
  <2> QED BY <1>1, <2>1, <2>2 DEF Ids
<1>4. \A id \in Ids : drafts[id] # NoDraft => drafts[id] \in DraftCalls /\ drafts[id] \in Requests
    BY DEF CallsInv, DraftsTypeOK, DraftCalls
<1> QED BY <1>1, <1>2, <1>3, <1>4

LEMMA AsideIsTyped == ASSUME CallsInv, Aside PROVE Typed' /\ DraftsTypeOK' /\ CancelledIsKept'
<1>1. UNCHANGED vars BY AsideKeeps DEF queueVars
<1>2. Typed' BY <1>1, NextTyped DEF CallsInv
<1>3. CancelledIsKept' BY <1>1 DEF vars, CallsInv, CancelledIsKept
<1> USE DEF CallsInv, DraftsTypeOK
<1>4. ASSUME NEW r \in Requests,
             Drop(r) \/ LayOut(r) \/ SubmitRefused(r) \/ RegisterItem(r) \/ ItemFinishes(r)
      PROVE  DraftsTypeOK'
  <2>1. PICK p \in Phases : phase' = [phase EXCEPT ![r] = p]
    BY <1>4 DEF Drop, LayOut, SubmitRefused, RegisterItem, ItemFinishes, Phases, ItemEnds
  <2>2. /\ UNCHANGED <<job, drafts, deleting>> /\ laidOut' \subseteq laidOut \cup {r}
        /\ outputs' \subseteq outputs
    BY <1>4 DEF Drop, LayOut, SubmitRefused, RegisterItem, ItemFinishes
  <2> QED BY <2>1, <2>2
<1>5. ASSUME NEW r \in Requests, SubmitJoins(r) PROVE DraftsTypeOK'
    BY <1>5 DEF SubmitJoins, SameKey, Unfinished, Phases
<1>6. ASSUME NEW r \in Requests, Register(r) PROVE DraftsTypeOK'
  <2>1. job[r] # 0 /\ r \in DraftCalls BY <1>6 DEF Register, Asked
  <2>2. phase' = [phase EXCEPT ![r] = "registered"] /\ UNCHANGED <<job, deleting, outputs>>
    BY <1>6 DEF Register
  <2>3. drafts' \in [Ids -> DraftCalls \cup {NoDraft}] /\ laidOut' \subseteq laidOut
    BY <1>6, <2>1 DEF Register
  <2> QED BY <2>2, <2>3 DEF Phases
<1>7. ASSUME Tidy PROVE DraftsTypeOK'
    BY <1>7 DEF Tidy
<1>8. ASSUME NEW id \in Ids, DeleteRemoves(id) PROVE DraftsTypeOK'
    BY <1>8 DEF DeleteRemoves
<1> QED BY <1>2, <1>3, <1>4, <1>5, <1>6, <1>7, <1>8 DEF Aside

\* How far a call gets at a step, and what it then has to show.
Moves(r, p, id) ==
    /\ phase' = [phase EXCEPT ![r] = p] /\ job' = [job EXCEPT ![r] = id]
    /\ phase[r] \in {"new", "laid out", "submitted", "processing"}
    /\ p \in {"new", "laid out", "refused"} => id = 0
    /\ p \in {"submitted", "registered", "processing"} => id # 0
    /\ p = "registered" => r \in DraftCalls
    /\ p \in {"processing"} \cup ItemEnds => r \in ItemCalls
    /\ id # 0 => id <= nextId /\ request[id].key = r.key
    /\ p \in ItemEnds /\ id # 0 => IsFinished(id)
    /\ id = job[r] \/ (phase[r] = "laid out" /\ job[r] = 0 /\ id \in SameKey(r) /\ p = "submitted")
    /\ p = "laid out" => phase[r] = "new" /\ r \in laidOut'
    /\ p = "submitted" => phase[r] = "laid out"
    /\ p = "registered" => Register(r)

LEMMA AsideMoves ==
    ASSUME CallsInv, NEW r \in Requests,
           \/ Drop(r) \/ LayOut(r) \/ SubmitJoins(r) \/ SubmitRefused(r)
           \/ Register(r) \/ RegisterItem(r) \/ ItemFinishes(r)
    PROVE  \E p \in Phases, id \in Ids \cup {0} : Moves(r, p, id)
<1>1. job[r] \in Ids \cup {0} /\ job = [job EXCEPT ![r] = job[r]]
      /\ (job[r] # 0 => job[r] <= nextId /\ request[job[r]].key = r.key)
      /\ (phase[r] \in {"new", "laid out", "refused"} => job[r] = 0)
      /\ (phase[r] \in {"submitted", "registered", "processing"} => job[r] # 0)
    BY DEF CallsInv, DraftsTypeOK, Asked
<1>2. CASE Drop(r)
  <2>1. PICK p \in {"refused", "failed", "skipped"} :
           /\ phase' = [phase EXCEPT ![r] = p] /\ phase[r] = "new" /\ UNCHANGED job
           /\ p = "refused" \/ r \in ItemCalls
    BY <1>2 DEF Drop
  <2>2. Moves(r, p, job[r]) BY <1>1, <2>1 DEF Moves, ItemEnds
  <2> QED BY <1>1, <2>1, <2>2 DEF Phases, ItemEnds
<1>3. CASE LayOut(r)
  <2>1. Moves(r, "laid out", job[r]) BY <1>1, <1>3 DEF LayOut, Moves, ItemEnds
  <2> QED BY <1>1, <2>1 DEF Phases
<1>4. CASE SubmitJoins(r)
  <2>1. PICK id \in SameKey(r) : job' = [job EXCEPT ![r] = id] BY <1>4 DEF SubmitJoins
  <2>2. id \in Ids /\ id <= nextId /\ request[id].key = r.key /\ id # 0
    BY <2>1, GivenOut DEF SameKey, Ids
  <2>3. phase[r] = "laid out" /\ phase' = [phase EXCEPT ![r] = "submitted"]
    BY <1>4 DEF SubmitJoins
  <2>4. Moves(r, "submitted", id)
    BY <1>1, <2>1, <2>2, <2>3 DEF Moves, ItemEnds
  <2> QED BY <2>2, <2>4 DEF Phases
<1>5. CASE SubmitRefused(r)
  <2>1. PICK p \in {"refused", "failed", "new"} :
           /\ phase' = [phase EXCEPT ![r] = p] /\ phase[r] = "laid out" /\ UNCHANGED job
           /\ p # "failed" \/ r \in ItemCalls
    BY <1>5 DEF SubmitRefused
  <2>2. Moves(r, p, job[r]) BY <1>1, <2>1 DEF Moves, ItemEnds
  <2> QED BY <1>1, <2>1, <2>2 DEF Phases, ItemEnds
<1>6. CASE Register(r)
  <2>1. phase' = [phase EXCEPT ![r] = "registered"] /\ phase[r] = "submitted" /\ UNCHANGED job /\ r \in DraftCalls
    BY <1>6 DEF Register
  <2>2. Moves(r, "registered", job[r]) BY <1>1, <1>6, <2>1 DEF Moves, ItemEnds
  <2> QED BY <1>1, <2>2 DEF Phases
<1>7. CASE RegisterItem(r)
  <2>1. Moves(r, "processing", job[r]) BY <1>1, <1>7 DEF RegisterItem, Moves, ItemEnds
  <2> QED BY <1>1, <2>1 DEF Phases
<1>8. CASE ItemFinishes(r)
  <2>1. PICK p \in ItemEnds : phase' = [phase EXCEPT ![r] = p]
    BY <1>8 DEF ItemFinishes
  <2>2. UNCHANGED job /\ phase[r] = "processing" /\ IsFinished(job[r])
    BY <1>8 DEF ItemFinishes
  <2>3. r \in ItemCalls BY <2>2 DEF CallsInv, Asked
  <2>4. Moves(r, p, job[r]) BY <1>1, <2>1, <2>2, <2>3 DEF Moves, ItemEnds
  <2> QED BY <1>1, <2>1, <2>4 DEF Phases
<1> QED BY <1>2, <1>3, <1>4, <1>5, <1>6, <1>7, <1>8

LEMMA AsideIsAsked == ASSUME CallsInv, Aside PROVE Asked'
<1>1. UNCHANGED vars /\ Unfinished' = Unfinished
    BY AsideKeeps DEF queueVars, vars, Unfinished
<1>2. CASE UNCHANGED <<phase, job>>
    BY <1>1, <1>2 DEF vars, CallsInv, Asked, IsFinished
<1>3. ASSUME NEW r \in Requests,
             \/ Drop(r) \/ LayOut(r) \/ SubmitJoins(r) \/ SubmitRefused(r)
             \/ Register(r) \/ RegisterItem(r) \/ ItemFinishes(r)
      PROVE  Asked'
  <2>1. PICK p \in Phases, id \in Ids \cup {0} : Moves(r, p, id)
    BY <1>3, AsideMoves
  <2>2. ASSUME NEW q \in Requests
        PROVE  /\ phase'[q] = IF q = r THEN p ELSE phase[q]
               /\ job'[q] = IF q = r THEN id ELSE job[q]
    BY <2>1 DEF CallsInv, DraftsTypeOK, Moves
  <2>3. UNCHANGED <<nextId, request>> BY <1>1 DEF vars
  <2>4. ASSUME NEW x \in Ids, x <= nextId PROVE job'[request[x]] = x
    <3>1. request[x] \in Requests BY DEF CallsInv, Typed, TypeOK
    <3>2. job[request[x]] = x BY <2>4 DEF CallsInv, Asked
    <3>3. x # 0 BY DEF Ids
    <3>4. id = job[r] \/ job[r] = 0 BY <2>1 DEF Moves
    <3> QED BY <2>2, <3>1, <3>2, <3>3, <3>4
  <2>5. ASSUME NEW q \in Requests
        PROVE  /\ phase'[q] \in {"new", "laid out", "refused"} => job'[q] = 0
               /\ phase'[q] \in {"submitted", "registered", "processing"} => job'[q] # 0
               /\ phase'[q] = "registered" => q \in DraftCalls
               /\ phase'[q] \in {"processing"} \cup ItemEnds => q \in ItemCalls
               /\ job'[q] # 0 => job'[q] <= nextId /\ request[job'[q]].key = q.key
               /\ phase'[q] \in ItemEnds /\ job'[q] # 0 => job'[q] \notin Unfinished
    <3>1. CASE q = r BY <2>1, <2>2, <3>1 DEF IsFinished, Moves
    <3>2. CASE q # r BY <2>2, <3>2 DEF CallsInv, Asked, IsFinished
    <3> QED BY <3>1, <3>2
  <2> QED BY <1>1, <2>3, <2>4, <2>5 DEF Asked, IsFinished
<1> QED BY <1>2, <1>3 DEF Aside, Tidy, DeleteRemoves

LEMMA AsideIsEntered == ASSUME CallsInv, Aside PROVE Entries' /\ Laid'
<1>1. UNCHANGED vars /\ Unfinished' = Unfinished /\ cancelled' = cancelled /\ nextId' = nextId
    BY AsideKeeps DEF queueVars, vars, Unfinished
<1>2. ASSUME NEW r \in Requests, ~Register(r),
             \/ Drop(r) \/ LayOut(r) \/ SubmitJoins(r) \/ SubmitRefused(r)
             \/ Register(r) \/ RegisterItem(r) \/ ItemFinishes(r)
      PROVE  Entries' /\ Laid'
  <2>1. PICK p \in Phases, id \in Ids \cup {0} : Moves(r, p, id)
    BY <1>2, AsideMoves
  <2>2. ASSUME NEW q \in Requests
        PROVE  /\ phase'[q] = IF q = r THEN p ELSE phase[q]
               /\ job'[q] = IF q = r THEN id ELSE job[q]
    BY <2>1 DEF CallsInv, DraftsTypeOK, Moves
  <2>3. /\ UNCHANGED <<drafts, deleting>>
        /\ \A q \in laidOut : q = r \/ q \in laidOut'
        /\ p = "submitted" => laidOut' = laidOut
    <3>1. UNCHANGED <<drafts, deleting>> /\ \A q \in laidOut : q = r \/ q \in laidOut'
        BY <1>2 DEF Drop, LayOut, SubmitJoins, SubmitRefused, RegisterItem, ItemFinishes
    <3>2. SubmitJoins(r) \/ phase'[r] # "submitted"
        BY <1>2, <2>2 DEF CallsInv, DraftsTypeOK, Drop, LayOut, SubmitRefused, RegisterItem, ItemFinishes, ItemEnds
    <3> QED BY <2>2, <3>1, <3>2 DEF SubmitJoins
  <2>4. phase[r] # "registered" /\ p # "registered" BY <1>2, <2>1 DEF Moves
  <2>5. Laid'
    <3>1. p = "submitted" => r \in laidOut' BY <2>1, <2>3 DEF Moves, CallsInv, Laid
    <3>2. p = "laid out" => r \in laidOut' BY <2>1 DEF Moves
    <3> QED BY <2>2, <2>3, <3>1, <3>2 DEF CallsInv, Laid
  <2>6. ASSUME NEW x \in Ids, drafts'[x] # NoDraft
        PROVE  phase'[drafts'[x]] = "registered" /\ job'[drafts'[x]] = x
    <3>1. drafts[x] \in Requests /\ phase[drafts[x]] = "registered" /\ job[drafts[x]] = x
        BY <2>3, <2>6, GivenOut DEF CallsInv, Entries
    <3> QED BY <2>2, <2>3, <2>4, <3>1
  <2>7. ASSUME NEW q \in Requests, phase'[q] = "registered", drafts'[job'[q]] = NoDraft
        PROVE  job'[q] \notin Unfinished \/ job'[q] \in cancelled
    BY <2>2, <2>3, <2>4, <2>7 DEF CallsInv, Entries, IsFinished
  <2> QED BY <1>1, <2>3, <2>5, <2>6, <2>7 DEF CallsInv, Entries, IsFinished
<1>3. ASSUME NEW r \in Requests, Register(r) PROVE Entries' /\ Laid'
  <2>1. /\ r \in DraftCalls /\ phase[r] = "submitted" /\ phase' = [phase EXCEPT ![r] = "registered"]
        /\ UNCHANGED <<job, deleting>>
        /\ IF drafts[job[r]] = NoDraft
           THEN drafts' = [drafts EXCEPT ![job[r]] = r] /\ UNCHANGED laidOut
           ELSE laidOut' = laidOut \ {r} /\ UNCHANGED drafts
    BY <1>3 DEF Register
  <2>2. job[r] \in Ids /\ r # NoDraft
    BY <2>1, GivenOut, NoDraftAssumption DEF CallsInv, Asked
  <2>3. ASSUME NEW q \in Requests PROVE phase'[q] = IF q = r THEN "registered" ELSE phase[q]
    BY <2>1 DEF CallsInv, DraftsTypeOK
  <2>4. ASSUME NEW x \in Ids
        PROVE  drafts'[x] = IF x = job[r] /\ drafts[x] = NoDraft THEN r ELSE drafts[x]
    BY <2>1, <2>2 DEF CallsInv, DraftsTypeOK
  <2>5. Laid'
    <3>1. \A q \in laidOut : q = r \/ q \in laidOut' BY <2>1
    <3>2. \A q \in Requests : phase[q] \in {"laid out", "submitted"} => q \in laidOut BY DEF CallsInv, Laid
    <3> QED BY <2>3, <3>1, <3>2 DEF Laid
  <2>6. ASSUME NEW x \in Ids, drafts'[x] # NoDraft
        PROVE  phase'[drafts'[x]] = "registered" /\ job'[drafts'[x]] = x
    <3>1. CASE x = job[r] /\ drafts[x] = NoDraft BY <2>1, <2>3, <2>4, <3>1
    <3>2. CASE drafts[x] # NoDraft
      <4>1. drafts[x] \in Requests /\ phase[drafts[x]] = "registered" /\ job[drafts[x]] = x
        BY <3>2, GivenOut DEF CallsInv, Entries
      <4> QED BY <2>1, <2>3, <2>4, <3>2, <4>1
    <3> QED BY <2>4, <2>6, <3>1, <3>2
  <2>7. ASSUME NEW q \in Requests, phase'[q] = "registered", drafts'[job[q]] = NoDraft
        PROVE  job[q] \notin Unfinished \/ job[q] \in cancelled
    <3>1. q # r BY <2>2, <2>4, <2>7
    <3>2. phase[q] = "registered" BY <2>3, <2>7, <3>1
    <3>3. job[q] \in Ids BY <3>2, GivenOut DEF CallsInv, Asked
    <3>4. drafts[job[q]] = NoDraft BY <2>2, <2>4, <2>7, <3>3
    <3> QED BY <3>2, <3>4 DEF CallsInv, Entries, IsFinished
  <2> QED BY <1>1, <2>1, <2>5, <2>6, <2>7 DEF CallsInv, Entries, IsFinished
<1>4. ASSUME UNCHANGED <<phase, job>>, deleting' \subseteq deleting, NEW gone \in SUBSET Ids,
             drafts' = [x \in Ids |-> IF x \in gone THEN NoDraft ELSE drafts[x]],
             \A x \in gone : IsFinished(x) \/ x \in cancelled,
             \A q \in laidOut : q \in laidOut' \/ \E x \in Ids : q = drafts[x] /\ q # NoDraft
      PROVE  Entries' /\ Laid'
  <2>1. ASSUME NEW q \in Requests, phase[q] \in {"laid out", "submitted"} PROVE q \in laidOut'
    <3>1. q \in laidOut BY <2>1 DEF CallsInv, Laid
    <3>2. \A x \in Ids : q # drafts[x] \/ q = NoDraft BY <2>1 DEF CallsInv, Entries
    <3> QED BY <1>4, <3>1, <3>2
  <2>2. Laid' BY <1>4, <2>1 DEF Laid
  <2>3. ASSUME NEW q \in Requests, phase[q] = "registered", drafts'[job[q]] = NoDraft
        PROVE  job[q] \notin Unfinished \/ job[q] \in cancelled
    <3>1. job[q] \in Ids BY <2>3, GivenOut DEF CallsInv, Asked
    <3> QED BY <1>4, <2>3, <3>1 DEF CallsInv, Entries, IsFinished
  <2>4. ASSUME NEW x \in Ids, drafts'[x] # NoDraft
        PROVE  phase[drafts'[x]] = "registered" /\ job[drafts'[x]] = x
    BY <1>4, <2>4 DEF CallsInv, Entries
  <2>5. \A x \in deleting' : x <= nextId /\ (x \notin Unfinished \/ x \in cancelled)
    BY <1>4 DEF CallsInv, Entries, IsFinished
  <2> QED BY <1>1, <1>4, <2>2, <2>3, <2>4, <2>5 DEF Entries, IsFinished
<1>5. ASSUME Tidy PROVE Entries' /\ Laid'
  <2>1. PICK old \in SUBSET Finished : drafts' = [id \in Ids |-> IF id \in old THEN NoDraft ELSE drafts[id]]
    BY <1>5 DEF Tidy
  <2>2. UNCHANGED <<phase, job, deleting>> /\ laidOut' = laidOut \ {drafts[id] : id \in Finished}
    BY <1>5 DEF Tidy
  <2>3. \A x \in Finished : x \in Ids /\ drafts[x] # NoDraft /\ IsFinished(x) BY DEF Finished
  <2>4. old \in SUBSET Ids /\ (\A x \in old : IsFinished(x) \/ x \in cancelled) BY <2>1, <2>3
  <2>5. \A q \in laidOut : q \in laidOut' \/ \E x \in Ids : q = drafts[x] /\ q # NoDraft
    BY <2>2, <2>3
  <2> QED BY <1>4, <2>1, <2>2, <2>4, <2>5
<1>6. ASSUME NEW id \in Ids, DeleteRemoves(id) PROVE Entries' /\ Laid'
  <2>1. drafts' = [x \in Ids |-> IF x \in {id} THEN NoDraft ELSE drafts[x]]
    BY <1>6 DEF DeleteRemoves, CallsInv, DraftsTypeOK
  <2>2. IsFinished(id) \/ id \in cancelled
    BY <1>6 DEF DeleteRemoves, CallsInv, Entries
  <2>3. /\ UNCHANGED <<phase, job>> /\ deleting' \subseteq deleting
        /\ \A q \in laidOut : q \in laidOut' \/ \E x \in Ids : q = drafts[x] /\ q # NoDraft
    BY <1>6, NoDraftAssumption DEF DeleteRemoves, CallsInv, DraftsTypeOK
  <2>4. {id} \in SUBSET Ids /\ \A x \in {id} : IsFinished(x) \/ x \in cancelled BY <2>2
  <2> QED BY <1>4, <2>1, <2>3, <2>4
<1> QED BY <1>2, <1>3, <1>5, <1>6 DEF Aside

LEMMA WithinOnlyEnds == ASSUME Typed, Within PROVE Typed' /\ OnlyEnds
<1>1. [Next]_vars /\ nextId' = nextId BY WithinKeeps
<1>2. nextId \in Nat BY DEF Typed, TypeOK
<1>3. ASSUME NEW r \in Requests, Submit(r) PROVE FALSE BY <1>1, <1>2, <1>3 DEF Submit
<1> QED BY <1>1, <1>3, NextTyped, StepsOnlyEnd

LEMMA QueueKeepsCancelled ==
    ASSUME Typed, CancelledIsKept,
           \/ Dispatch \/ (\E id \in Ids : CancelQueued(id) \/ CancelRunning(id) \/ Finish(id))
           \/ (\E id \in Ids, result \in EndStates : RunReturns(id, result))
    PROVE  CancelledIsKept'
<1> USE DEF CancelledIsKept, Typed, TypeOK
<1>1. CASE Dispatch
  <2>1. PICK old \in SUBSET Ended, S \in SUBSET Waiting :
           state' = [id \in Ids |-> IF id \in S THEN "running"
                                    ELSE IF id \in old THEN "forgotten" ELSE state[id]]
    BY <1>1 DEF Dispatch
  <2>2. UNCHANGED cancelled BY <1>1 DEF Dispatch
  <2>3. \A id \in S : state[id] = "queued" BY DEF Waiting, InState
  <2>4. \A id \in old : state[id] \in EndStates BY DEF Ended
  <2> QED BY <2>1, <2>2, <2>3, <2>4
<1>2. ASSUME NEW id \in Ids, CancelQueued(id) PROVE CancelledIsKept'
    BY <1>2 DEF CancelQueued
<1>3. ASSUME NEW id \in Ids, CancelRunning(id) PROVE CancelledIsKept'
    BY <1>3 DEF CancelRunning
<1>4. ASSUME NEW id \in Ids, Finish(id) PROVE CancelledIsKept'
    BY <1>4 DEF Finish, EndOf
<1>5. ASSUME NEW id \in Ids, NEW result \in EndStates, RunReturns(id, result) PROVE CancelledIsKept'
    BY <1>5 DEF RunReturns
<1> QED BY <1>1, <1>2, <1>3, <1>4, <1>5

LEMMA WithinKeepsCalls == ASSUME CallsInv, Within PROVE CallsInv'
<1>1. /\ UNCHANGED <<phase, job, drafts, laidOut>> /\ Typed' /\ cancelled \subseteq cancelled'
      /\ nextId' = nextId /\ request' = request /\ Unfinished' \subseteq Unfinished
    BY WithinKeeps, WithinOnlyEnds DEF CallsInv, OnlyEnds
<1>2. Asked' BY <1>1 DEF CallsInv, Asked, IsFinished
<1>3. Laid' BY <1>1 DEF CallsInv, Laid
<1>4. CancelledIsKept'
  <2>1. \/ UNCHANGED vars \/ Dispatch \/ (\E id \in Ids : CancelQueued(id) \/ CancelRunning(id) \/ Finish(id))
        \/ (\E id \in Ids, result \in EndStates : RunReturns(id, result))
    BY DEF Within, QueueNext, DeleteCancels, JobReturns, queueVars
  <2> QED BY <2>1, QueueKeepsCancelled DEF CallsInv, vars, CancelledIsKept
<1>5. DraftsTypeOK'
  <2>1. deleting' \in SUBSET Ids /\ outputs' \in SUBSET Requests
    BY DEF Within, QueueNext, DeleteCancels, JobReturns, callVars, CallsInv, Typed, TypeOK, DraftsTypeOK
  <2> QED BY <1>1, <2>1 DEF CallsInv, DraftsTypeOK
<1>6. Entries'
  <2>1. ASSUME NEW id \in deleting' PROVE id <= nextId /\ (id \notin Unfinished' \/ id \in cancelled')
    <3>1. CASE id \in deleting BY <1>1, <3>1 DEF CallsInv, Entries, IsFinished
    <3>2. CASE id \notin deleting
      <4>1. id \in Ids /\ DeleteCancels(id)
        BY <3>2, <2>1 DEF Within, QueueNext, DeleteCancels, JobReturns, callVars
      <4>5. drafts[id] # NoDraft BY <4>1 DEF DeleteCancels
      <4>6. drafts[id] \in Requests /\ job[drafts[id]] = id /\ id # 0
        BY <4>1, <4>5, GivenOut DEF CallsInv, Entries, Ids
      <4>7. id <= nextId BY <4>6 DEF CallsInv, Asked
      <4>2. CASE CancelQueued(id)
        <5>1. id \notin Unfinished'
            BY <4>1, <4>2 DEF CancelQueued, Unfinished, CallsInv, Typed, TypeOK
        <5> QED BY <4>7, <5>1
      <4>3. CASE CancelRunning(id)
        <5>1. id \in cancelled' BY <4>3 DEF CancelRunning
        <5> QED BY <4>7, <5>1
      <4>4. CASE IsFinished(id) /\ UNCHANGED queueVars
        BY <1>1, <4>4, <4>7 DEF IsFinished
      <4> QED BY <4>1, <4>2, <4>3, <4>4, <4>7 DEF DeleteCancels
    <3> QED BY <3>1, <3>2
  <2> QED BY <1>1, <2>1 DEF CallsInv, Entries, IsFinished
<1> QED BY <1>1, <1>2, <1>3, <1>4, <1>5, <1>6 DEF CallsInv

LEMMA SubmitNewKeepsCalls == ASSUME CallsInv, NEW r \in Requests, SubmitNew(r) PROVE CallsInv'
<1>1. /\ Typed' /\ nextId' = nextId + 1 /\ nextId' \in Ids /\ UNCHANGED <<cancelled, returned>>
      /\ nextId' \notin Unfinished /\ state[nextId'] = "absent"
      /\ Unfinished' = Unfinished \cup {nextId'} /\ request'[nextId'] = r
      /\ \A id \in Ids \ {nextId'} : request'[id] = request[id] /\ state'[id] = state[id]
    BY SubmitNewMakes DEF CallsInv
<1>2. /\ phase[r] = "laid out" /\ phase' = [phase EXCEPT ![r] = "submitted"]
      /\ job' = [job EXCEPT ![r] = nextId'] /\ UNCHANGED <<drafts, deleting, laidOut, outputs>>
    BY <1>1 DEF SubmitNew
<1>3. nextId \in Nat /\ job[r] = 0 BY <1>2, GivenOut DEF CallsInv, Asked
<1>4. ASSUME NEW q \in Requests
      PROVE  /\ phase'[q] = IF q = r THEN "submitted" ELSE phase[q]
             /\ job'[q] = IF q = r THEN nextId' ELSE job[q]
    BY <1>2 DEF CallsInv, DraftsTypeOK
<1>5. DraftsTypeOK' BY <1>1, <1>2 DEF CallsInv, DraftsTypeOK, Phases
<1>6. Laid' BY <1>2, <1>4 DEF CallsInv, Laid
<1>7. \A q \in Requests : job[q] # 0 => job[q] \in Ids /\ job[q] # nextId' /\ job[q] <= nextId
                                       /\ request'[job[q]] = request[job[q]]
  <2>1. ASSUME NEW q \in Requests, job[q] # 0 PROVE job[q] \in Ids /\ job[q] # nextId' /\ job[q] <= nextId
    <3>1. job[q] \in Ids /\ job[q] \in 1 .. nextId BY <2>1, GivenOut
    <3> QED BY <1>1, <1>3, <3>1
  <2> QED BY <1>1, <2>1
<1>8. Asked'
  <2>1. ASSUME NEW q \in Requests
        PROVE  /\ phase'[q] \in {"new", "laid out", "refused"} => job'[q] = 0
               /\ phase'[q] \in {"submitted", "registered", "processing"} => job'[q] # 0
               /\ phase'[q] = "registered" => q \in DraftCalls
               /\ phase'[q] \in {"processing"} \cup ItemEnds => q \in ItemCalls
               /\ job'[q] # 0 => job'[q] <= nextId' /\ request'[job'[q]].key = q.key
               /\ phase'[q] \in ItemEnds /\ job'[q] # 0 => job'[q] \notin Unfinished'
    <3>1. CASE q = r
      <4>1. phase'[q] = "submitted" /\ job'[q] = nextId' BY <1>4, <3>1
      <4>2. nextId' # 0 /\ nextId' <= nextId' /\ request'[nextId'] = q BY <1>1, <3>1 DEF Ids
      <4> QED BY <4>1, <4>2 DEF ItemEnds
    <3>2. CASE q # r
      <4>1. job'[q] = job[q] /\ phase'[q] = phase[q] BY <1>4, <3>2
      <4>2. job[q] # 0 => job[q] <= nextId' BY <1>1, <1>3, <1>7 DEF Ids
      <4>3. job[q] \notin Unfinished' \/ job[q] \in Unfinished \/ job[q] = 0 BY <1>1, <1>7
      <4>4. job[q] # 0 => request'[job[q]] = request[job[q]] BY <1>7
      <4>5. /\ phase[q] \in {"new", "laid out", "refused"} => job[q] = 0
            /\ phase[q] \in {"submitted", "registered", "processing"} => job[q] # 0
            /\ phase[q] = "registered" => q \in DraftCalls
            /\ phase[q] \in {"processing"} \cup ItemEnds => q \in ItemCalls
            /\ job[q] # 0 => request[job[q]].key = q.key
            /\ phase[q] \in ItemEnds /\ job[q] # 0 => job[q] \notin Unfinished
        BY DEF CallsInv, Asked, IsFinished
      <4> QED BY <4>1, <4>2, <4>3, <4>4, <4>5
    <3> QED BY <3>1, <3>2
  <2>2. ASSUME NEW id \in Ids, id <= nextId' PROVE job'[request'[id]] = id
    <3>1. CASE id = nextId' BY <1>1, <1>4, <3>1
    <3>2. CASE id # nextId'
      <4>1. id <= nextId /\ id # 0 BY <1>1, <1>3, <2>2, <3>2 DEF Ids
      <4>2. request'[id] = request[id] /\ request[id] \in Requests /\ job[request[id]] = id
        BY <1>1, <3>2, <4>1 DEF CallsInv, Asked, Typed, TypeOK
      <4> QED BY <1>3, <1>4, <4>1, <4>2
    <3> QED BY <3>1, <3>2
  <2> QED BY <2>1, <2>2 DEF Asked, IsFinished
<1>9. Entries'
  <2>1. ASSUME NEW x \in Ids, drafts[x] # NoDraft
        PROVE  phase'[drafts[x]] = "registered" /\ job'[drafts[x]] = x
    <3>1. drafts[x] \in Requests /\ phase[drafts[x]] = "registered" /\ job[drafts[x]] = x
        BY <2>1, GivenOut DEF CallsInv, Entries
    <3> QED BY <1>2, <1>4, <3>1
  <2>2. ASSUME NEW x \in deleting PROVE x <= nextId' /\ (x \notin Unfinished' \/ x \in cancelled)
    <3>1. x \in Ids BY DEF CallsInv, DraftsTypeOK
    <3>2. x <= nextId BY DEF CallsInv, Entries
    <3>3. x # nextId' BY <1>1, <1>3, <3>1, <3>2 DEF Ids
    <3>4. x <= nextId' BY <1>1, <1>3, <3>1, <3>2 DEF Ids
    <3> QED BY <1>1, <3>3, <3>4 DEF CallsInv, Entries, IsFinished
  <2>3. ASSUME NEW q \in Requests, phase'[q] = "registered", drafts[job'[q]] = NoDraft
        PROVE  job'[q] \notin Unfinished' \/ job'[q] \in cancelled
    <3>1. q # r /\ phase[q] = "registered" /\ job'[q] = job[q] BY <1>4, <2>3
    <3>2. job[q] # 0 BY <3>1 DEF CallsInv, Asked
    <3> QED BY <1>1, <1>7, <2>3, <3>1, <3>2 DEF CallsInv, Entries, IsFinished
  <2> QED BY <1>1, <1>2, <2>1, <2>2, <2>3 DEF Entries, IsFinished
<1>10. CancelledIsKept'
  <2>1. nextId' \notin cancelled BY <1>1 DEF CallsInv, CancelledIsKept
  <2> QED BY <1>1, <2>1 DEF CallsInv, CancelledIsKept, Typed, TypeOK
<1> QED BY <1>1, <1>5, <1>6, <1>8, <1>9, <1>10 DEF CallsInv

LEMMA InitCalls == InitDrafts => CallsInv
<1> SUFFICES ASSUME InitDrafts PROVE CallsInv OBVIOUS
<1>1. Typed BY InitTyped DEF InitDrafts
<1>2. DraftsTypeOK BY DEF InitDrafts, DraftsTypeOK, Phases
<1>3. \A id \in Ids : ~(id <= nextId) BY DEF InitDrafts, Init, Ids
<1>4. Asked BY <1>3 DEF InitDrafts, Asked, ItemEnds
<1>5. Entries /\ Laid BY DEF InitDrafts, Entries, Laid
<1>6. CancelledIsKept BY DEF InitDrafts, Init, CancelledIsKept
<1> QED BY <1>1, <1>2, <1>4, <1>5, <1>6 DEF CallsInv

LEMMA StepsKeepCalls == ASSUME CallsInv, NextDrafts PROVE CallsInv'
<1>1. CASE Aside BY <1>1, AsideIsTyped, AsideIsAsked, AsideIsEntered DEF CallsInv
<1> QED BY <1>1, WithinKeepsCalls, SubmitNewKeepsCalls, DraftKinds

LEMMA CallsStutter == ASSUME CallsInv, UNCHANGED allVars PROVE CallsInv'
<1>1. UNCHANGED vars /\ UNCHANGED callVars BY DEF allVars, queueVars
<1>2. Typed' BY <1>1, NextTyped DEF CallsInv
<1>3. Unfinished' = Unfinished BY <1>1 DEF vars, Unfinished
<1>4. DraftsTypeOK' BY <1>1 DEF callVars, CallsInv, DraftsTypeOK
<1>5. Asked' BY <1>1, <1>3 DEF vars, callVars, CallsInv, Asked, IsFinished
<1>6. Entries' BY <1>1, <1>3 DEF vars, callVars, CallsInv, Entries, IsFinished
<1>7. CancelledIsKept' /\ Laid' BY <1>1 DEF vars, callVars, CallsInv, CancelledIsKept, Laid
<1> QED BY <1>2, <1>4, <1>5, <1>6, <1>7 DEF CallsInv

LEMMA AlwaysCalls == SpecDrafts => []CallsInv
<1>1. CallsInv /\ [NextDrafts]_allVars => CallsInv' BY StepsKeepCalls, CallsStutter
<1> QED BY InitCalls, <1>1, PTL DEF SpecDrafts

\* Calls, their jobs, drafts, raw files and outputs keep their types, and the
\* queue under them its own.
THEOREM DraftsTyped == SpecDrafts => [](DraftsTypeOK /\ TypeOK)
<1>1. CallsInv => DraftsTypeOK /\ TypeOK BY DEF CallsInv, Typed
<1> QED BY <1>1, AlwaysCalls, PTL

-----------------------------------------------------------------------------
(* What is written, and what is laid out *)

\* What a job has written is at its own call's path from when it is done, and
\* so at the path of its draft, when that is the call's own.
Written ==
    /\ \A id \in Ids : id <= nextId /\ returned[id] = "done" /\ id \notin cancelled
                          => request[id] \in outputs
    /\ \A id \in Ids : id <= nextId /\ state[id] = "done" /\ phase[request[id]] = "submitted"
                          => request[id] \in outputs
    /\ \A id \in Ids : drafts[id] # NoDraft /\ ~Taken(id) /\ state[id] = "done"
                          => drafts[id] \in outputs

DraftsInv == CallsInv /\ Written /\ LaidOutWhileNeeded

\* A call's own job, and the job its draft stands for.
LEMMA OwnJob ==
    ASSUME CallsInv
    PROVE  /\ \A id \in Ids : id <= nextId => request[id] \in Requests /\ job[request[id]] = id /\ id # 0
           /\ \A id \in Ids : drafts[id] # NoDraft =>
                 /\ drafts[id] \in Requests /\ phase[drafts[id]] = "registered"
                 /\ job[drafts[id]] = id /\ id <= nextId
           /\ \A id \in Ids : returned[id] # "nothing" => id \in Unfinished /\ id <= nextId
           /\ \A id \in Unfinished : id \in Ids /\ id <= nextId
<1>1. ASSUME NEW id \in Ids, id <= nextId
      PROVE  request[id] \in Requests /\ job[request[id]] = id /\ id # 0
  <2>1. id # 0 BY DEF Ids
  <2> QED BY <1>1, <2>1 DEF CallsInv, Typed, TypeOK, Asked
<1>2. ASSUME NEW id \in Ids, drafts[id] # NoDraft
      PROVE  /\ drafts[id] \in Requests /\ phase[drafts[id]] = "registered"
             /\ job[drafts[id]] = id /\ id <= nextId
  <2>1. drafts[id] \in Requests /\ phase[drafts[id]] = "registered" /\ job[drafts[id]] = id
    BY <1>2, GivenOut DEF CallsInv, Entries
  <2>2. id # 0 BY DEF Ids
  <2> QED BY <2>1, <2>2 DEF CallsInv, Asked
<1>3. ASSUME NEW id \in Ids, returned[id] # "nothing" PROVE id \in Unfinished
  <2>1. state[id] = "running" BY <1>3 DEF CallsInv, Typed, TypeOK
  <2> QED BY <2>1 DEF Unfinished
<1> QED BY <1>1, <1>2, <1>3, GivenOut

LEMMA AsideKeepsWritten ==
    ASSUME DraftsInv, NEW r \in Requests,
           \/ Drop(r) \/ LayOut(r) \/ SubmitJoins(r) \/ SubmitRefused(r)
           \/ Register(r) \/ RegisterItem(r) \/ ItemFinishes(r)
    PROVE  Written'
<1>1. UNCHANGED <<nextId, request, state, returned, cancelled>>
  <2>1. Aside BY DEF Aside
  <2> QED BY <2>1, AsideKeeps DEF queueVars, vars
<1>2. PICK p \in Phases, i \in Ids \cup {0} : Moves(r, p, i) BY AsideMoves DEF DraftsInv
<1>3. ASSUME NEW q \in Requests PROVE phase'[q] = IF q = r THEN p ELSE phase[q]
    BY <1>2 DEF DraftsInv, CallsInv, DraftsTypeOK, Moves
<1>4. ASSUME NEW q \in outputs PROVE q \in outputs' \/ (q = r /\ ItemFinishes(r))
    BY <1>1 DEF Drop, LayOut, SubmitJoins, SubmitRefused, Register, RegisterItem, ItemFinishes
<1>5. ASSUME ItemFinishes(r) PROVE phase[r] = "processing" /\ IsFinished(job[r]) /\ phase'[r] \in ItemEnds
    BY <1>5 DEF ItemFinishes, DraftsInv, CallsInv, DraftsTypeOK
<1>6. ASSUME NEW id \in Ids, id <= nextId, returned[id] = "done", id \notin cancelled
      PROVE  request[id] \in outputs'
  <2>1. request[id] \in outputs BY <1>6 DEF DraftsInv, Written
  <2>2. job[request[id]] = id /\ id \in Unfinished BY <1>6, OwnJob DEF DraftsInv
  <2> QED BY <1>4, <1>5, <2>1, <2>2 DEF IsFinished
<1>7. ASSUME NEW id \in Ids, id <= nextId, state[id] = "done", phase'[request[id]] = "submitted"
      PROVE  request[id] \in outputs'
  <2>1. request[id] \in Requests /\ job[request[id]] = id /\ id # 0 BY <1>7, OwnJob DEF DraftsInv
  <2>2. phase[request[id]] = "submitted"
    <3>1. CASE request[id] # r BY <1>3, <1>7, <2>1, <3>1
    <3>2. CASE request[id] = r
      <4>1. p = "submitted" BY <1>3, <1>7, <3>2
      <4>2. phase[r] = "laid out" BY <1>2, <4>1 DEF Moves
      <4> QED BY <2>1, <3>2, <4>2 DEF DraftsInv, CallsInv, Asked
    <3> QED BY <3>1, <3>2
  <2>3. request[id] \in outputs BY <1>7, <2>2 DEF DraftsInv, Written
  <2>4. request[id] # r \/ ~ItemFinishes(r) BY <1>5, <2>2
  <2> QED BY <1>4, <2>3, <2>4
<1>8. ASSUME NEW id \in Ids, drafts'[id] # NoDraft, drafts'[id] = request[id], state[id] = "done"
      PROVE  drafts'[id] \in outputs'
  <2>1. CASE drafts'[id] = drafts[id]
    <3>1. drafts[id] \in outputs /\ phase[drafts[id]] = "registered"
        BY <1>8, <2>1, OwnJob DEF DraftsInv, Written, Taken
    <3> QED BY <1>4, <1>5, <2>1, <3>1
  <2>2. CASE drafts'[id] # drafts[id]
    <3>1. Register(r)
        BY <2>2 DEF Drop, LayOut, SubmitJoins, SubmitRefused, RegisterItem, ItemFinishes
    <3>2. phase[r] = "submitted" /\ UNCHANGED outputs /\ id = job[r] /\ drafts'[id] = r
        BY <2>2, <3>1 DEF Register, DraftsInv, CallsInv, DraftsTypeOK
    <3>3. job[r] # 0 BY <3>2 DEF DraftsInv, CallsInv, Asked
    <3>4. id <= nextId BY <3>2, <3>3 DEF DraftsInv, CallsInv, Asked
    <3> QED BY <1>8, <3>2, <3>4 DEF DraftsInv, Written
  <2> QED BY <2>1, <2>2
<1> QED BY <1>1, <1>6, <1>7, <1>8 DEF Written, Taken

\* Entries go from the map only when their job is over or thrown away.
LEMMA GoingKeepsWritten ==
    ASSUME DraftsInv, UNCHANGED <<vars, phase>>, NEW gone \in SUBSET Ids,
           drafts' = [x \in Ids |-> IF x \in gone THEN NoDraft ELSE drafts[x]],
           \A x \in gone : IsFinished(x) \/ x \in cancelled,
           \A q \in outputs : q \in outputs' \/ \E x \in gone : q = drafts[x]
    PROVE  Written'
<1>1. UNCHANGED <<nextId, request, state, returned, cancelled>> BY DEF vars
<1>2. \A q \in outputs : q \in Requests /\ q # NoDraft
    BY NoDraftAssumption DEF DraftsInv, CallsInv, DraftsTypeOK
<1>3. ASSUME NEW id \in Ids, id <= nextId, returned[id] = "done", id \notin cancelled
      PROVE  request[id] \in outputs'
  <2>1. request[id] \in outputs BY <1>3 DEF DraftsInv, Written
  <2>2. job[request[id]] = id /\ id \in Unfinished BY <1>3, OwnJob DEF DraftsInv
  <2>3. ASSUME NEW x \in gone, request[id] = drafts[x] PROVE FALSE
    <3>1. x = id BY <1>2, <2>1, <2>2, <2>3, OwnJob DEF DraftsInv
    <3> QED BY <1>3, <2>2, <3>1 DEF IsFinished
  <2> QED BY <2>1, <2>3
<1>4. ASSUME NEW id \in Ids, id <= nextId, state[id] = "done", phase[request[id]] = "submitted"
      PROVE  request[id] \in outputs'
  <2>1. request[id] \in outputs BY <1>4 DEF DraftsInv, Written
  <2>2. ASSUME NEW x \in gone, request[id] = drafts[x] PROVE FALSE
    BY <1>2, <1>4, <2>1, <2>2, OwnJob DEF DraftsInv
  <2> QED BY <2>1, <2>2
<1>5. ASSUME NEW id \in Ids, drafts'[id] # NoDraft, drafts'[id] = request[id], state[id] = "done"
      PROVE  drafts'[id] \in outputs'
  <2>1. id \notin gone /\ drafts'[id] = drafts[id] BY <1>5
  <2>2. drafts[id] \in outputs /\ drafts[id] # NoDraft BY <1>5, <2>1 DEF DraftsInv, Written, Taken
  <2>3. ASSUME NEW x \in gone, drafts[id] = drafts[x] PROVE FALSE
    <3>1. job[drafts[id]] = id /\ job[drafts[x]] = x BY <2>2, <2>3, OwnJob DEF DraftsInv
    <3> QED BY <2>1, <2>3, <3>1
  <2> QED BY <2>1, <2>2, <2>3
<1> QED BY <1>1, <1>3, <1>4, <1>5 DEF Written, Taken

\* What goes when drafts are tidied, or one is deleted.
LEMMA Goes ==
    ASSUME DraftsInv, Tidy \/ \E id \in Ids : DeleteRemoves(id)
    PROVE  \E gone \in SUBSET Ids :
              /\ UNCHANGED <<vars, phase, job>>
              /\ drafts' = [x \in Ids |-> IF x \in gone THEN NoDraft ELSE drafts[x]]
              /\ \A x \in gone : IsFinished(x) \/ x \in cancelled
              /\ \A q \in outputs : q \in outputs' \/ \E x \in gone : q = drafts[x]
              /\ laidOut' \subseteq laidOut
              /\ \A q \in laidOut : q \in laidOut' \/ \E x \in Ids :
                    drafts[x] = q /\ (IsFinished(x) \/ x \in cancelled)
              /\ \A x \in gone : drafts[x] \notin laidOut'
<1>1. CASE Tidy
  <2>1. PICK old \in SUBSET Finished :
           /\ drafts' = [id \in Ids |-> IF id \in old THEN NoDraft ELSE drafts[id]]
           /\ outputs' = outputs \ {drafts[id] : id \in old}
    BY <1>1 DEF Tidy
  <2>2. UNCHANGED <<vars, phase, job>> /\ laidOut' = laidOut \ {drafts[id] : id \in Finished}
    BY <1>1 DEF Tidy, queueVars
  <2>3. old \in SUBSET Ids /\ (\A x \in Finished : x \in Ids /\ IsFinished(x)) BY <2>1 DEF Finished
  <2>4. \A x \in old : drafts[x] \notin laidOut' BY <2>1, <2>2
  <2> QED BY <2>1, <2>2, <2>3, <2>4
<1>2. ASSUME NEW id \in Ids, DeleteRemoves(id)
      PROVE  \E gone \in SUBSET Ids :
                /\ UNCHANGED <<vars, phase, job>>
                /\ drafts' = [x \in Ids |-> IF x \in gone THEN NoDraft ELSE drafts[x]]
                /\ \A x \in gone : IsFinished(x) \/ x \in cancelled
                /\ \A q \in outputs : q \in outputs' \/ \E x \in gone : q = drafts[x]
                /\ laidOut' \subseteq laidOut
                /\ \A q \in laidOut : q \in laidOut' \/ \E x \in Ids :
                      drafts[x] = q /\ (IsFinished(x) \/ x \in cancelled)
                /\ \A x \in gone : drafts[x] \notin laidOut'
  <2>1. /\ UNCHANGED <<vars, phase, job>>
        /\ laidOut' = laidOut \ {drafts[id]} /\ outputs' = outputs \ {drafts[id]}
    BY <1>2 DEF DeleteRemoves, queueVars
  <2>2. drafts' = [x \in Ids |-> IF x \in {id} THEN NoDraft ELSE drafts[x]]
    BY <1>2 DEF DeleteRemoves, DraftsInv, CallsInv, DraftsTypeOK
  <2>3. IsFinished(id) \/ id \in cancelled BY <1>2 DEF DeleteRemoves, DraftsInv, CallsInv, Entries
  <2>4. {id} \in SUBSET Ids /\ (\A x \in {id} : IsFinished(x) \/ x \in cancelled) BY <2>3
  <2> QED BY <2>1, <2>2, <2>3, <2>4
<1> QED BY <1>1, <1>2

LEMMA WithinKeepsWritten == ASSUME DraftsInv, Within PROVE Written'
<1>1. UNCHANGED <<phase, job, drafts>> /\ nextId' = nextId /\ request' = request
      /\ cancelled \subseteq cancelled'
    BY WithinKeeps
\* A step that only has to show what it makes of outputs, of how a run
\* returned and of what is done.
<1>2. ASSUME outputs \subseteq outputs',
             \A x \in Ids : returned'[x] = "done" => returned[x] = "done" \/ request[x] \in outputs',
             \A x \in Ids : state'[x] = "done" =>
                state[x] = "done" \/ (returned[x] = "done" /\ x \notin cancelled)
      PROVE  Written'
  <2>1. ASSUME NEW id \in Ids, id <= nextId, returned'[id] = "done", id \notin cancelled'
        PROVE  request[id] \in outputs'
    BY <1>1, <1>2, <2>1 DEF DraftsInv, Written
  <2>2. ASSUME NEW id \in Ids, id <= nextId, state'[id] = "done", phase[request[id]] = "submitted"
        PROVE  request[id] \in outputs'
    BY <1>2, <2>2 DEF DraftsInv, Written
  <2>3. ASSUME NEW id \in Ids, drafts[id] # NoDraft, drafts[id] = request[id], state'[id] = "done"
        PROVE  drafts[id] \in outputs'
    <3>1. CASE state[id] = "done" BY <1>2, <2>3, <3>1 DEF DraftsInv, Written, Taken
    <3>2. CASE returned[id] = "done" /\ id \notin cancelled
      <4>1. id <= nextId BY <2>3, OwnJob DEF DraftsInv
      <4> QED BY <1>2, <2>3, <3>2, <4>1 DEF DraftsInv, Written
    <3> QED BY <1>2, <2>3, <3>1, <3>2
  <2> QED BY <1>1, <2>1, <2>2, <2>3 DEF Written, Taken
<1> USE DEF DraftsInv, CallsInv, Typed, TypeOK
<1>3. CASE QueueNext
  <2>1. outputs' = outputs BY <1>3 DEF QueueNext, callVars
  <2>2. CASE Dispatch
    <3>1. returned' = returned BY <2>2 DEF Dispatch
    <3>2. \A x \in Ids : state'[x] = "done" => state[x] = "done" BY <2>2 DEF Dispatch
    <3> QED BY <1>2, <2>1, <3>1, <3>2
  <2>3. ASSUME NEW id \in Ids, Finish(id) PROVE Written'
    <3>1. \A x \in Ids : returned'[x] = "done" => returned[x] = "done" BY <2>3 DEF Finish
    <3>2. \A x \in Ids : state'[x] = "done" =>
             state[x] = "done" \/ (returned[x] = "done" /\ x \notin cancelled)
        BY <2>3 DEF Finish, EndOf
    <3> QED BY <1>2, <2>1, <3>1, <3>2
  <2> QED BY <1>3, <2>2, <2>3 DEF QueueNext
<1>4. ASSUME NEW id \in Ids, DeleteCancels(id) PROVE Written'
  <2>1. outputs' = outputs /\ returned' = returned
    BY <1>4 DEF DeleteCancels, CancelQueued, CancelRunning, queueVars, vars
  <2>2. \A x \in Ids : state'[x] = "done" => state[x] = "done"
    BY <1>4 DEF DeleteCancels, CancelQueued, CancelRunning, queueVars, vars
  <2> QED BY <1>2, <2>1, <2>2
<1>5. ASSUME NEW id \in Ids, NEW result \in EndStates, JobReturns(id, result) PROVE Written'
  <2>1. state' = state /\ returned' = [returned EXCEPT ![id] = result]
    BY <1>5 DEF JobReturns, RunReturns
  <2>2. outputs \subseteq outputs' /\ (result = "done" => request[id] \in outputs')
    BY <1>5 DEF JobReturns
  <2>3. \A x \in Ids : returned'[x] = "done" => returned[x] = "done" \/ request[x] \in outputs'
    BY <2>1, <2>2
  <2> QED BY <1>2, <2>1, <2>2, <2>3
<1> QED BY <1>3, <1>4, <1>5 DEF Within

LEMMA SubmitNewKeepsWritten ==
    ASSUME DraftsInv, NEW r \in Requests, SubmitNew(r)
    PROVE  Written' /\ LaidOutWhileNeeded'
<1>1. /\ nextId' = nextId + 1 /\ nextId' \in Ids /\ UNCHANGED <<cancelled, returned>>
      /\ state[nextId'] = "absent" /\ state'[nextId'] = "queued"
      /\ Unfinished' = Unfinished \cup {nextId'} /\ request'[nextId'] = r
      /\ \A id \in Ids \ {nextId'} : request'[id] = request[id] /\ state'[id] = state[id]
    BY SubmitNewMakes DEF DraftsInv, CallsInv
<1>2. /\ phase[r] = "laid out" /\ phase' = [phase EXCEPT ![r] = "submitted"] /\ job[r] = 0
      /\ job' = [job EXCEPT ![r] = nextId'] /\ UNCHANGED <<drafts, laidOut, outputs>> /\ r \in laidOut
    BY <1>1 DEF SubmitNew, DraftsInv, CallsInv, Asked, Laid
<1>3. ASSUME NEW q \in Requests
      PROVE  /\ phase'[q] = IF q = r THEN "submitted" ELSE phase[q]
             /\ q # r => job'[q] = job[q]
    BY <1>2 DEF DraftsInv, CallsInv, DraftsTypeOK
<1>4. returned[nextId'] = "nothing" BY <1>1 DEF DraftsInv, CallsInv, Typed, TypeOK
<1>5. ASSUME NEW id \in Ids, id <= nextId', id # nextId'
      PROVE  id <= nextId /\ request'[id] = request[id] /\ state'[id] = state[id] /\ request[id] # r
             /\ request[id] \in Requests
  <2>1. nextId \in Nat /\ id \in Nat BY DEF DraftsInv, CallsInv, Typed, TypeOK, Ids
  <2>2. id <= nextId BY <1>1, <1>5, <2>1
  <2>3. request[id] \in Requests /\ job[request[id]] = id /\ id # 0 BY <2>2, OwnJob DEF DraftsInv
  <2> QED BY <1>1, <1>2, <1>5, <2>2, <2>3
<1>6. Written'
  <2>1. ASSUME NEW id \in Ids, id <= nextId', returned[id] = "done", id \notin cancelled
        PROVE  request'[id] \in outputs
    BY <1>4, <1>5, <2>1 DEF DraftsInv, Written
  <2>2. ASSUME NEW id \in Ids, id <= nextId', state'[id] = "done", phase'[request'[id]] = "submitted"
        PROVE  request'[id] \in outputs
    <3>1. id # nextId' BY <1>1, <2>2
    <3> QED BY <1>3, <1>5, <2>2, <3>1 DEF DraftsInv, Written
  <2>3. ASSUME NEW id \in Ids, drafts[id] # NoDraft, drafts[id] = request'[id], state'[id] = "done"
        PROVE  drafts[id] \in outputs
    <3>1. id # nextId' BY <1>1, <2>3
    <3> QED BY <1>1, <2>3, <3>1 DEF DraftsInv, Written, Taken
  <2> QED BY <1>1, <1>2, <2>1, <2>2, <2>3 DEF Written, Taken
<1>7. LaidOutWhileNeeded'
  <2>1. ASSUME NEW id \in Unfinished', id \notin cancelled
        PROVE  \/ request'[id] \in laidOut
               \/ phase'[request'[id]] = "registered" /\ drafts[id] \notin {NoDraft, request'[id]}
    <3>1. CASE id = nextId' BY <1>1, <1>2, <3>1
    <3>2. CASE id # nextId'
      <4>1. id \in Unfinished /\ id \in Ids BY <1>1, <3>2, OwnJob DEF DraftsInv
      <4>2. request'[id] = request[id] /\ request[id] \in Requests BY <1>1, <3>2, <4>1, OwnJob DEF DraftsInv
      <4>3. phase[request[id]] = "registered" => phase'[request[id]] = "registered"
        BY <1>2, <1>3, <4>2
      <4> QED BY <2>1, <4>1, <4>2, <4>3 DEF DraftsInv, LaidOutWhileNeeded, Taken
    <3> QED BY <3>1, <3>2
  <2>2. ASSUME NEW q \in laidOut
        PROVE  \/ phase'[q] \in {"laid out", "submitted", "processing", "refused"}
               \/ phase'[q] = "registered" /\ drafts[job'[q]] = q
    <3>1. q \in Requests BY DEF DraftsInv, CallsInv, DraftsTypeOK
    <3>2. CASE q = r BY <1>3, <3>1, <3>2
    <3>3. CASE q # r
      <4>1. phase'[q] = phase[q] /\ job'[q] = job[q] BY <1>3, <3>1, <3>3
      <4> QED BY <4>1 DEF DraftsInv, LaidOutWhileNeeded
    <3> QED BY <3>2, <3>3
  <2> QED BY <1>2, <1>1, <2>1, <2>2 DEF LaidOutWhileNeeded, Taken
<1> QED BY <1>6, <1>7

LEMMA WithinKeepsLaid == ASSUME DraftsInv, Within PROVE LaidOutWhileNeeded'
<1>1. UNCHANGED <<phase, job, drafts, laidOut>> /\ request' = request /\ cancelled \subseteq cancelled'
    BY WithinKeeps
<1>2. Unfinished' \subseteq Unfinished
    BY WithinOnlyEnds DEF DraftsInv, CallsInv, OnlyEnds
<1> QED BY <1>1, <1>2 DEF DraftsInv, LaidOutWhileNeeded, Taken

LEMMA GoingKeepsLaid ==
    ASSUME DraftsInv, UNCHANGED <<vars, phase, job>>, NEW gone \in SUBSET Ids,
           drafts' = [x \in Ids |-> IF x \in gone THEN NoDraft ELSE drafts[x]],
           laidOut' \subseteq laidOut,
           \A q \in laidOut : q \in laidOut' \/ \E x \in Ids :
              drafts[x] = q /\ (IsFinished(x) \/ x \in cancelled),
           \A x \in gone : IsFinished(x) \/ x \in cancelled,
           \A x \in gone : drafts[x] \notin laidOut'
    PROVE  LaidOutWhileNeeded'
<1>1. UNCHANGED <<request, cancelled>> /\ Unfinished' = Unfinished BY DEF vars, Unfinished
<1>2. ASSUME NEW id \in Unfinished, id \notin cancelled
      PROVE  \/ request[id] \in laidOut'
             \/ phase[request[id]] = "registered" /\ drafts'[id] \notin {NoDraft, request[id]}
  <2>1. \/ request[id] \in laidOut
        \/ phase[request[id]] = "registered" /\ drafts[id] \notin {NoDraft, request[id]}
    BY <1>2 DEF DraftsInv, LaidOutWhileNeeded, Taken
  <2>2. id \in Ids /\ request[id] \in Requests /\ job[request[id]] = id BY OwnJob DEF DraftsInv
  <2>4. drafts'[id] = drafts[id] BY <1>2, <2>2 DEF IsFinished
  <2>3. ASSUME NEW x \in Ids, drafts[x] = request[id], IsFinished(x) \/ x \in cancelled PROVE FALSE
    <3>1. drafts[x] # NoDraft BY <2>2, <2>3, NoDraftAssumption
    <3>2. job[drafts[x]] = x BY <3>1, OwnJob DEF DraftsInv
    <3>3. x = id BY <2>2, <2>3, <3>2
    <3> QED BY <1>2, <2>3, <3>3 DEF IsFinished
  <2> QED BY <2>1, <2>3, <2>4
<1>3. ASSUME NEW q \in laidOut'
      PROVE  \/ phase[q] \in {"laid out", "submitted", "processing", "refused"}
             \/ phase[q] = "registered" /\ drafts'[job[q]] = q
  <2>1. q \in laidOut /\ q \in Requests BY DEF DraftsInv, CallsInv, DraftsTypeOK
  <2>2. CASE phase[q] = "registered"
    <3>1. drafts[job[q]] = q BY <2>1, <2>2 DEF DraftsInv, LaidOutWhileNeeded
    <3>2. job[q] \in Ids BY <2>1, <2>2, GivenOut DEF DraftsInv, CallsInv, Asked
    <3>3. job[q] \notin gone BY <3>1
    <3> QED BY <2>2, <3>1, <3>2, <3>3
  <2>3. CASE phase[q] # "registered" BY <2>1, <2>3 DEF DraftsInv, LaidOutWhileNeeded
  <2> QED BY <2>2, <2>3
<1> QED BY <1>1, <1>2, <1>3 DEF LaidOutWhileNeeded, Taken

LEMMA AsideKeepsLaid ==
    ASSUME DraftsInv, NEW r \in Requests,
           \/ Drop(r) \/ LayOut(r) \/ SubmitJoins(r) \/ SubmitRefused(r)
           \/ Register(r) \/ RegisterItem(r) \/ ItemFinishes(r)
    PROVE  LaidOutWhileNeeded'
<1>1. UNCHANGED <<request, cancelled>> /\ Unfinished' = Unfinished
  <2>1. Aside BY DEF Aside
  <2> QED BY <2>1, AsideKeeps DEF queueVars, vars, Unfinished
<1>2. PICK p \in Phases, i \in Ids \cup {0} : Moves(r, p, i) BY AsideMoves DEF DraftsInv
<1>3. ASSUME NEW q \in Requests
      PROVE  /\ phase'[q] = IF q = r THEN p ELSE phase[q]
             /\ job'[q] = IF q = r THEN i ELSE job[q]
    BY <1>2 DEF DraftsInv, CallsInv, DraftsTypeOK, Moves
<1>4. ASSUME NEW q \in laidOut
      PROVE  \/ q \in laidOut'
             \/ q = r /\ SubmitRefused(r)
             \/ q = r /\ Register(r) /\ drafts[job[r]] # NoDraft
             \/ q = r /\ ItemFinishes(r)
    BY DEF Drop, LayOut, SubmitJoins, SubmitRefused, Register, RegisterItem, ItemFinishes
<1>5. ASSUME NEW id \in Unfinished, id \notin cancelled
      PROVE  \/ request[id] \in laidOut'
             \/ phase'[request[id]] = "registered" /\ drafts'[id] \notin {NoDraft, request[id]}
  <2>1. id \in Ids /\ request[id] \in Requests /\ job[request[id]] = id /\ id # 0 BY OwnJob DEF DraftsInv
  <2>2. drafts[id] # NoDraft => drafts'[id] = drafts[id]
    BY <2>1 DEF Drop, LayOut, SubmitJoins, SubmitRefused, Register, RegisterItem, ItemFinishes,
                DraftsInv, CallsInv, DraftsTypeOK
  <2>3. CASE request[id] \in laidOut
    <3>1. ~(request[id] = r /\ SubmitRefused(r))
        BY <2>1 DEF SubmitRefused, DraftsInv, CallsInv, Asked
    <3>2. ~(request[id] = r /\ ItemFinishes(r)) BY <2>1 DEF ItemFinishes, IsFinished
    <3>3. CASE request[id] = r /\ Register(r) /\ drafts[job[r]] # NoDraft
      <4>1. drafts[id] # NoDraft /\ phase[r] = "submitted" /\ phase'[r] = "registered"
        BY <2>1, <3>3 DEF Register, DraftsInv, CallsInv, DraftsTypeOK
      <4>2. phase[drafts[id]] = "registered" BY <2>1, <4>1, OwnJob DEF DraftsInv
      <4>3. drafts[id] # r BY <4>1, <4>2
      <4> QED BY <2>2, <3>3, <4>1, <4>3
    <3> QED BY <1>4, <2>3, <3>1, <3>2, <3>3
  <2>4. CASE phase[request[id]] = "registered" /\ drafts[id] \notin {NoDraft, request[id]}
    <3>1. phase[r] # "registered" \/ phase'[r] = "registered"
        BY DEF Drop, LayOut, SubmitJoins, SubmitRefused, Register, RegisterItem, ItemFinishes,
               DraftsInv, CallsInv, DraftsTypeOK
    <3>2. phase'[request[id]] = "registered" BY <1>3, <2>1, <2>4, <3>1
    <3> QED BY <2>2, <2>4, <3>2
  <2> QED BY <1>5, <2>3, <2>4 DEF DraftsInv, LaidOutWhileNeeded, Taken
<1>6. ASSUME NEW q \in laidOut'
      PROVE  \/ phase'[q] \in {"laid out", "submitted", "processing", "refused"}
             \/ phase'[q] = "registered" /\ drafts'[job'[q]] = q
  <2>1. q \in Requests /\ (q \in laidOut \/ (q = r /\ LayOut(r)))
    <3>1. q \in laidOut \/ (q = r /\ LayOut(r))
        BY DEF Drop, LayOut, SubmitJoins, SubmitRefused, Register, RegisterItem, ItemFinishes
    <3> QED BY <3>1 DEF DraftsInv, CallsInv, DraftsTypeOK
  <2>2. CASE q = r
    <3>1. CASE Drop(r)
      <4>1. q \in laidOut /\ phase[q] = "new" BY <2>1, <2>2, <3>1 DEF Drop, LayOut
      <4> QED BY <4>1 DEF DraftsInv, LaidOutWhileNeeded
    <3>2. CASE LayOut(r) \/ SubmitJoins(r) \/ RegisterItem(r)
      <4>1. phase'[r] \in {"laid out", "submitted", "processing"}
        BY <3>2 DEF LayOut, SubmitJoins, RegisterItem, DraftsInv, CallsInv, DraftsTypeOK
      <4> QED BY <2>2, <4>1
    <3>3. CASE SubmitRefused(r)
        BY <2>2, <3>3 DEF SubmitRefused, DraftsInv, CallsInv, DraftsTypeOK
    <3>4. CASE Register(r)
      <4>1. phase'[r] = "registered" /\ job' = job BY <3>4 DEF Register, DraftsInv, CallsInv, DraftsTypeOK
      <4>2. job[r] \in Ids BY <3>4, GivenOut DEF Register, DraftsInv, CallsInv, Asked
      <4>3. drafts'[job[r]] = r BY <2>2, <3>4, <4>2 DEF Register, DraftsInv, CallsInv, DraftsTypeOK
      <4> QED BY <2>2, <4>1, <4>3
    <3>5. CASE ItemFinishes(r) BY <2>2, <3>5 DEF ItemFinishes
    <3> QED BY <3>1, <3>2, <3>3, <3>4, <3>5
  <2>3. CASE q # r
    <3>1. phase'[q] = phase[q] /\ job'[q] = job[q] /\ q \in laidOut BY <1>3, <2>1, <2>3
    <3>2. CASE phase[q] = "registered"
      <4>1. drafts[job[q]] = q /\ q # NoDraft BY <2>1, <3>1, <3>2, NoDraftAssumption DEF DraftsInv, LaidOutWhileNeeded
      <4>2. job[q] \in Ids BY <2>1, <3>2, GivenOut DEF DraftsInv, CallsInv, Asked
      <4>3. drafts'[job[q]] = q
        BY <4>1, <4>2 DEF Drop, LayOut, SubmitJoins, SubmitRefused, Register, RegisterItem,
                          ItemFinishes, DraftsInv, CallsInv, DraftsTypeOK
      <4> QED BY <3>1, <3>2, <4>3
    <3>3. CASE phase[q] # "registered" BY <3>1, <3>3 DEF DraftsInv, LaidOutWhileNeeded
    <3> QED BY <3>2, <3>3
  <2> QED BY <2>2, <2>3
<1> QED BY <1>1, <1>5, <1>6 DEF LaidOutWhileNeeded, Taken

LEMMA InitDraftsInv == InitDrafts => DraftsInv
<1> SUFFICES ASSUME InitDrafts PROVE DraftsInv OBVIOUS
<1>1. CallsInv BY InitCalls
<1>2. Written
  <2>1. \A id \in Ids : drafts[id] = NoDraft /\ state[id] = "absent" /\ returned[id] = "nothing"
    BY DEF InitDrafts, Init
  <2> QED BY <2>1 DEF Written
<1>3. LaidOutWhileNeeded
  <2>1. Unfinished = {} BY DEF InitDrafts, Init, Unfinished
  <2> QED BY <2>1 DEF InitDrafts, LaidOutWhileNeeded
<1> QED BY <1>1, <1>2, <1>3 DEF DraftsInv

LEMMA StepsKeepDrafts == ASSUME DraftsInv, NextDrafts PROVE DraftsInv'
<1>1. CallsInv' BY StepsKeepCalls DEF DraftsInv
<1>2. Written' /\ LaidOutWhileNeeded'
  <2>1. CASE Within BY <2>1, WithinKeepsWritten, WithinKeepsLaid
  <2>2. ASSUME NEW r \in Requests, SubmitNew(r) PROVE Written' /\ LaidOutWhileNeeded'
    BY <2>2, SubmitNewKeepsWritten
  <2>3. ASSUME NEW r \in Requests,
               \/ Drop(r) \/ LayOut(r) \/ SubmitJoins(r) \/ SubmitRefused(r)
               \/ Register(r) \/ RegisterItem(r) \/ ItemFinishes(r)
        PROVE  Written' /\ LaidOutWhileNeeded'
    BY <2>3, AsideKeepsWritten, AsideKeepsLaid
  <2>4. ASSUME Tidy \/ \E id \in Ids : DeleteRemoves(id) PROVE Written' /\ LaidOutWhileNeeded'
    <3>1. PICK gone \in SUBSET Ids :
              /\ UNCHANGED <<vars, phase, job>>
              /\ drafts' = [x \in Ids |-> IF x \in gone THEN NoDraft ELSE drafts[x]]
              /\ \A x \in gone : IsFinished(x) \/ x \in cancelled
              /\ \A q \in outputs : q \in outputs' \/ \E x \in gone : q = drafts[x]
              /\ laidOut' \subseteq laidOut
              /\ \A q \in laidOut : q \in laidOut' \/ \E x \in Ids :
                    drafts[x] = q /\ (IsFinished(x) \/ x \in cancelled)
              /\ \A x \in gone : drafts[x] \notin laidOut'
        BY <2>4, Goes
    <3>2. UNCHANGED <<vars, phase>> /\ UNCHANGED <<vars, phase, job>> BY <3>1
    <3>3. Written' BY <3>1, <3>2, GoingKeepsWritten
    <3>4. LaidOutWhileNeeded' BY <3>1, <3>2, GoingKeepsLaid
    <3> QED BY <3>3, <3>4
  <2> QED BY <2>1, <2>2, <2>3, <2>4, DraftKinds DEF Aside
<1> QED BY <1>1, <1>2 DEF DraftsInv

LEMMA AlwaysDrafts == SpecDrafts => []DraftsInv
<1>1. ASSUME DraftsInv, UNCHANGED allVars PROVE DraftsInv'
  <2>1. UNCHANGED vars /\ UNCHANGED callVars BY <1>1 DEF allVars, queueVars
  <2>2. CallsInv' BY <1>1, CallsStutter DEF DraftsInv
  <2>3. Unfinished' = Unfinished BY <2>1 DEF vars, Unfinished
  <2>4. Written' BY <1>1, <2>1 DEF vars, callVars, DraftsInv, Written, Taken
  <2>5. LaidOutWhileNeeded' BY <1>1, <2>1, <2>3 DEF vars, callVars, DraftsInv, LaidOutWhileNeeded, Taken
  <2> QED BY <2>2, <2>4, <2>5 DEF DraftsInv
<1>2. DraftsInv /\ [NextDrafts]_allVars => DraftsInv' BY <1>1, StepsKeepDrafts
<1> QED BY InitDraftsInv, <1>2, PTL DEF SpecDrafts

\* A job that nobody cancelled finds its raw files, and raw files are only
\* there for somebody who still needs them, however calls, jobs, deletions and
\* tidying interleave and however often one thing is asked for: only a job
\* whose entry another call made may lose them, once its own call registered
\* (MCDraftsTwice.cfg).
THEOREM RawFilesStayWhileNeeded == SpecDrafts => []LaidOutWhileNeeded
<1>1. DraftsInv => LaidOutWhileNeeded BY DEF DraftsInv
<1> QED BY <1>1, AlwaysDrafts, PTL

\* A done draft has its processed file, unless its entry has another call's
\* paths than its job, and a draft that is gone took its job with it.
THEOREM DraftsAgreeWithJobs == SpecDrafts => []DraftAgreesWithJob
<1>1. DraftsInv => DraftAgreesWithJob
  <2> SUFFICES ASSUME DraftsInv PROVE DraftAgreesWithJob OBVIOUS
  <2>1. \A id \in Ids : drafts[id] # NoDraft /\ ~Taken(id) /\ state[id] = "done" => drafts[id] \in outputs
    BY DEF DraftsInv, Written
  <2>2. \A r \in DraftCalls : r \in Requests BY DEF DraftCalls
  <2> QED BY <2>1, <2>2 DEF DraftAgreesWithJob, DraftsInv, CallsInv, Entries
<1> QED BY <1>1, AlwaysDrafts, PTL

=============================================================================
