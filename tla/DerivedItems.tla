----------------------------- MODULE DerivedItems -----------------------------
(***************************************************************************)
(* Derived items that use each other: src/project/derived.rs.              *)
(*                                                                         *)
(* An item's expression may name other items.  Before anything is inferred *)
(* or evaluated the set is searched for a cycle, then put in an order in   *)
(* which every item comes after the ones it names; an item that fails      *)
(* takes the items that name it along, and no other.                       *)
(*                                                                         *)
(* The two depth-first searches are taken a call and a return at a time;   *)
(* path is the calls that have not returned.  The items a search goes on   *)
(* to are chosen freely among those it has still to visit: each is visited *)
(* once, so this is every order the set may be stored in and an expression *)
(* may name its items in.                                                  *)
(***************************************************************************)
EXTENDS Integers, Sequences, FiniteSets, SequencesExt

CONSTANT Items   \* the ids of the set; validate refuses one that is there twice

VARIABLES
    uses,        \* [id -> the other items its expression names]
    pass,        \* what is being done: searching for a cycle, ordering, evaluating
    marks,       \* find_cycle: what was visited
    path,        \* the items a search is within, outermost first
    loop,        \* the cycle the set is refused for
    ordered,     \* evaluation_order: the items put in order so far
    evaluated,   \* how many of those were evaluated
    results,     \* items that evaluated
    failures,    \* items that failed
    broken       \* of those, the ones that failed though all they name evaluated

derivedVars == <<uses, pass, marks, path, loop, ordered, evaluated, results, failures, broken>>

Marks == {"unvisited", "inProgress", "done"}
Passes == {"search", "order", "evaluate", "done", "refused"}

\* A set as DerivedSet::dependencies reads it: whatever the identifiers in
\* the expression, an item does not depend on itself.
DerivedInit ==
    /\ uses \in {u \in [Items -> SUBSET Items] : \A i \in Items : i \notin u[i]}
    /\ pass = "search"
    /\ marks = [i \in Items |-> "unvisited"]
    /\ path = <<>> /\ loop = <<>> /\ ordered = <<>>
    /\ evaluated = 0
    /\ results = {} /\ failures = {} /\ broken = {}

Innermost == path[Len(path)]
Outer == SubSeq(path, 1, Len(path) - 1)

\* An item the search may go to: from the outside any, from within an item
\* one that it names.
IsNext(i) == path # <<>> => i \in uses[Innermost]

(***************************************************************************)
(* find_cycle: depth first, marking what is on the path to here.           *)
(***************************************************************************)

\* Seeded fault: an item finished earlier is taken for one on the path.
MetAgain(mark) == mark \in {"inProgress", "done"}

\* The item was reached over itself.
MetItself(mark) == mark = "inProgress"

Visit(i) ==
    /\ pass = "search" /\ marks[i] = "unvisited" /\ IsNext(i)
    /\ marks' = [marks EXCEPT ![i] = "inProgress"]
    /\ path' = Append(path, i)
    /\ UNCHANGED <<uses, pass, loop, ordered, evaluated, results, failures, broken>>

\* The path is closed: it starts and ends with the item met again.
RefuseLoop(dep) ==
    LET start == IF \E k \in 1..Len(path) : path[k] = dep
                 THEN CHOOSE k \in 1..Len(path) : path[k] = dep
                 ELSE 1
    IN /\ pass = "search" /\ path # <<>> /\ dep \in uses[Innermost] /\ MetItself(marks[dep])
       /\ loop' = Append(SubSeq(path, start, Len(path)), dep)
       /\ pass' = "refused"
       /\ UNCHANGED <<uses, marks, path, ordered, evaluated, results, failures, broken>>

Leave ==
    /\ pass = "search" /\ path # <<>>
    /\ \A dep \in uses[Innermost] : marks[dep] = "done"
    /\ marks' = [marks EXCEPT ![Innermost] = "done"]
    /\ path' = Outer
    /\ UNCHANGED <<uses, pass, loop, ordered, evaluated, results, failures, broken>>

NoCycle ==
    /\ pass = "search" /\ path = <<>> /\ \A i \in Items : marks[i] = "done"
    /\ pass' = "order"
    /\ UNCHANGED <<uses, marks, path, loop, ordered, evaluated, results, failures, broken>>

(***************************************************************************)
(* evaluation_order, and inferring or evaluating along it.                 *)
(***************************************************************************)

VisitInOrder(i) ==
    /\ pass = "order" /\ i \notin ToSet(ordered) /\ IsNext(i)
    /\ path' = Append(path, i)
    /\ UNCHANGED <<uses, pass, marks, loop, ordered, evaluated, results, failures, broken>>

PutInOrder ==
    /\ pass = "order" /\ path # <<>> /\ uses[Innermost] \subseteq ToSet(ordered)
    /\ ordered' = Append(ordered, Innermost)
    /\ path' = Outer
    /\ UNCHANGED <<uses, pass, marks, loop, evaluated, results, failures, broken>>

InOrder ==
    /\ pass = "order" /\ path = <<>> /\ Items = ToSet(ordered)
    /\ pass' = "evaluate"
    /\ UNCHANGED <<uses, marks, path, loop, ordered, evaluated, results, failures, broken>>

\* compile_item: an item that names one without a result fails for it.
AllItNames(i) == uses[i] \subseteq results

Evaluate(i) ==
    /\ pass = "evaluate" /\ evaluated < Len(ordered) /\ i = ordered[evaluated + 1]
    /\ evaluated' = evaluated + 1
    /\ \/ AllItNames(i) /\ results' = results \union {i} /\ UNCHANGED <<failures, broken>>
       \/ /\ failures' = failures \union {i}
          /\ broken' = IF AllItNames(i) THEN broken \union {i} ELSE broken
          /\ UNCHANGED results
    /\ UNCHANGED <<uses, pass, marks, path, loop, ordered>>

Evaluated ==
    /\ pass = "evaluate" /\ evaluated = Len(ordered)
    /\ pass' = "done"
    /\ UNCHANGED <<uses, marks, path, loop, ordered, evaluated, results, failures, broken>>

DerivedNext ==
    \/ \E i \in Items : Visit(i) \/ RefuseLoop(i) \/ VisitInOrder(i) \/ Evaluate(i)
    \/ Leave \/ NoCycle \/ PutInOrder \/ InOrder \/ Evaluated

DerivedSpec == DerivedInit /\ [][DerivedNext]_derivedVars

(***************************************************************************)
(* What evaluating promises.                                               *)
(***************************************************************************)

\* Item d is in every set that has what i names and what its own items name.
Closed(S) == \A i \in S : uses[i] \subseteq S
Reaches(i, d) == \A S \in SUBSET Items : uses[i] \subseteq S /\ Closed(S) => d \in S

\* A set is refused exactly when an item reaches itself, with a loop of its
\* own that is a path of the graph; otherwise every item is evaluated once,
\* after all it names, and fails exactly when its own expression or that of
\* an item it reaches is wrong.
OnlyItsOwnChainBreaksIt ==
    /\ pass = "refused" =>
         /\ \E i \in Items : Reaches(i, i)
         /\ Len(loop) > 2 /\ loop[1] = loop[Len(loop)]
         /\ \A j, k \in 2..Len(loop) : loop[j] = loop[k] => j = k
         /\ \A k \in 1..(Len(loop) - 1) : loop[k + 1] \in uses[loop[k]]
    /\ pass = "done" =>
         /\ \A i \in Items : ~Reaches(i, i)
         /\ ToSet(ordered) = Items
         /\ \A j, k \in 1..Len(ordered) :
              (ordered[j] = ordered[k] => j = k) /\ (ordered[j] \in uses[ordered[k]] => j < k)
         /\ results \union failures = Items /\ results \intersect failures = {}
         /\ \A i \in Items : i \in failures <=> i \in broken \/ \E d \in broken : Reaches(i, d)
=============================================================================
