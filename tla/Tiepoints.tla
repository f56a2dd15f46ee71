------------------------------ MODULE Tiepoints ------------------------------
(***************************************************************************)
(* How a radargram's trace times become the x anchor that its picks are    *)
(* carried through: trace_time_axis of src/interp/anchors.rs.              *)
(*                                                                         *)
(* The times are reduced to tiepoints between which every trace is found   *)
(* by a straight line to within half a trace, thinned when there are too   *)
(* many, and freed of ties.  Times are integers here, and every comparison *)
(* of quotients is made by cross-multiplying.                              *)
(***************************************************************************)
EXTENDS Integers, Sequences, FiniteSets, FiniteSetsExt

CONSTANTS
    Traces,        \* bound: traces of a radargram
    Latest,        \* bound: the time of the last trace
    MaxTiepoints   \* MAX_TIEPOINTS

ASSUME TiepointsAssumption ==
    Traces \in Nat /\ Latest \in Nat /\ MaxTiepoints \in Nat /\ MaxTiepoints >= 2

VARIABLES
    times,         \* [1..n -> when the trace was recorded]
    making,        \* how far the axis is
    kept,          \* traces that are needed as tiepoints
    pendingSpans,  \* stretches between two of them still to be examined
    first, last,   \* the ends of the stretch being examined
    next, worst,   \* the trace to look at next, and the worst one so far
    toPlace,       \* tiepoints not yet looked at for ties
    axis           \* tiepoints that advance

tiepointVars ==
    <<times, making, kept, pendingSpans, first, last, next, worst, toPlace, axis>>

LastTrace == Len(times)

TiepointsInit ==
    /\ times \in UNION {[1..n -> 0..Latest] : n \in 0..Traces}
    /\ making = "begin"
    /\ kept = {} /\ pendingSpans = <<>>
    /\ first = 0 /\ last = 0 /\ next = 0 /\ worst = 0
    /\ toPlace = {} /\ axis = <<>>

(***************************************************************************)
(* The tolerance at each trace.                                            *)
(***************************************************************************)

GapAfter(j) == times[j + 1] - times[j]
Advances == {j \in 1..(LastTrace - 1) : GapAfter(j) > 0}

\* The gap in the middle, of those that advance.
TypicalGaps ==
    LET middle == Cardinality(Advances) \div 2
    IN {g \in {GapAfter(j) : j \in Advances} :
          /\ Cardinality({j \in Advances : GapAfter(j) < g}) <= middle
          /\ middle < Cardinality({j \in Advances : GapAfter(j) <= g})}
TypicalGap == IF Advances = {} THEN 1 ELSE Min(TypicalGaps)

\* How long one trace took here; half of it is the tolerance.
GapsAbout(i) == {GapAfter(j) : j \in {i - 1, i} \intersect Advances}
Gap(i) == IF GapsAbout(i) = {} THEN TypicalGap ELSE Min(GapsAbout(i))

Advancing == \A i \in 1..(LastTrace - 1) : times[i] <= times[i + 1]

Begin ==
    /\ making = "begin"
    /\ IF LastTrace < 2 \/ ~Advancing
       THEN making' = "none" /\ UNCHANGED <<kept, pendingSpans>>
       ELSE /\ making' = "reduce"
            /\ kept' = {1, LastTrace}
            /\ pendingSpans' = <<<<1, LastTrace>>>>
    /\ UNCHANGED <<times, first, last, next, worst, toPlace, axis>>

(***************************************************************************)
(* reduce_tiepoints.                                                       *)
(***************************************************************************)

Distance(a, b) == IF a < b THEN b - a ELSE a - b

\* How far trace i is from the straight line between two others, times the
\* number of traces between those.
OffLine(a, b, i) ==
    Distance(times[i] * (b - a), times[a] * (b - a) + (times[b] - times[a]) * (i - a))

\* Seeded fault: the worst in seconds, not in traces.
WorseInSeconds(i, j) == OffLine(first, last, i) > OffLine(first, last, j)

\* Trace i is further past its own tolerance than j is past its.
Worse(i, j) == OffLine(first, last, i) * Gap(j) > OffLine(first, last, j) * Gap(i)

\* Further from the line than half of what a trace took here.
PastTolerance(a, b, i) == 2 * OffLine(a, b, i) > (b - a) * Gap(i)

TakeSpan ==
    LET span == pendingSpans[Len(pendingSpans)] IN
    /\ making = "reduce" /\ pendingSpans # <<>>
    /\ pendingSpans' = SubSeq(pendingSpans, 1, Len(pendingSpans) - 1)
    /\ IF span[2] <= span[1] + 1 THEN UNCHANGED <<making, first, last, next, worst>>
       ELSE /\ making' = "examine"
            /\ first' = span[1] /\ last' = span[2]
            /\ next' = span[1] + 1 /\ worst' = span[1]
    /\ UNCHANGED <<times, kept, toPlace, axis>>

Examine ==
    /\ making = "examine" /\ next < last
    /\ worst' = IF Worse(next, worst) THEN next ELSE worst
    /\ next' = next + 1
    /\ UNCHANGED <<times, making, kept, pendingSpans, first, last, toPlace, axis>>

Split ==
    /\ making = "examine" /\ next = last
    /\ IF PastTolerance(first, last, worst)
       THEN /\ kept' = kept \union {worst}
            /\ pendingSpans' = pendingSpans \o <<<<first, worst>>, <<worst, last>>>>
       ELSE UNCHANGED <<kept, pendingSpans>>
    /\ making' = "reduce"
    /\ UNCHANGED <<times, first, last, next, worst, toPlace, axis>>

(***************************************************************************)
(* thin: evenly over the list, rounding to the nearest, without repeats.   *)
(***************************************************************************)

Rank(i) == Cardinality({j \in kept : j < i})
Picked(k) ==
    LET n == Cardinality(kept) - 1  m == MaxTiepoints - 1 IN (2 * k * n + m) \div (2 * m)

Chosen ==
    IF Cardinality(kept) <= MaxTiepoints THEN kept
    ELSE {i \in kept : \E k \in 0..(MaxTiepoints - 1) : Rank(i) = Picked(k)}

Thin ==
    /\ making = "reduce" /\ pendingSpans = <<>>
    /\ making' = "place"
    /\ toPlace' = Chosen
    /\ UNCHANGED <<times, kept, pendingSpans, first, last, next, worst, axis>>

(***************************************************************************)
(* strictly_increasing: at a tie the earlier trace stays, unless the later *)
(* is the last.                                                            *)
(***************************************************************************)

Place ==
    /\ making = "place"
    /\ \E i \in toPlace :
         /\ \A j \in toPlace : i <= j
         /\ toPlace' = toPlace \ {i}
         /\ axis' =
              CASE axis # <<>> => times[axis[Len(axis)]] < times[i] -> Append(axis, i)
                [] axis # <<>> /\ times[i] <= times[axis[Len(axis)]] ->
                     IF toPlace = {i} THEN Append(SubSeq(axis, 1, Len(axis) - 1), i)
                     ELSE axis
    /\ UNCHANGED <<times, making, kept, pendingSpans, first, last, next, worst>>

Finish ==
    /\ making = "place" /\ toPlace = {}
    /\ making' = IF Len(axis) < 2 THEN "none" ELSE "made"
    /\ UNCHANGED <<times, kept, pendingSpans, first, last, next, worst, toPlace, axis>>

TiepointsNext == Begin \/ TakeSpan \/ Examine \/ Split \/ Thin \/ Place \/ Finish

TiepointsSpec == TiepointsInit /\ [][TiepointsNext]_tiepointVars

(***************************************************************************)
(* What the axis promises.                                                 *)
(***************************************************************************)

Tied(i) == \E j \in {i - 1, i + 1} \intersect DOMAIN times : times[j] = times[i]
WithinHalfATrace(i) ==
    \E k \in 1..(Len(axis) - 1) :
        axis[k] <= i /\ i <= axis[k + 1] /\ ~PastTolerance(axis[k], axis[k + 1], i)

\* There is an axis exactly when the times never go back and do advance; it
\* starts at the first trace, ends at the last, rises in trace and in time,
\* and has no more points than it may.  Unless points were thinned away or two
\* traces share a time, every trace is found to within half of what a trace
\* took there, also where the profile is faster or slower than elsewhere.
AxisPlacesEveryTrace ==
    /\ making = "none" => ~(LastTrace >= 2 /\ Advancing /\ times[1] < times[LastTrace])
    /\ making = "made" =>
         /\ LastTrace >= 2 /\ Advancing /\ times[1] < times[LastTrace]
         /\ axis[1] = 1 /\ axis[Len(axis)] = LastTrace /\ Len(axis) <= MaxTiepoints
         /\ \A k \in 1..(Len(axis) - 1) :
              axis[k] < axis[k + 1] /\ times[axis[k]] < times[axis[k + 1]]
         /\ Cardinality(kept) <= MaxTiepoints /\ (\A i \in 1..LastTrace : ~Tied(i))
              => \A i \in 1..LastTrace : WithinHalfATrace(i)

\* strictly_increasing's comment: what exceeds the tolerance where two traces
\* share a time "is the tied trace itself".
OnlyTheTiedMiss ==
    making = "made" /\ Cardinality(kept) <= MaxTiepoints =>
        \A i \in 1..LastTrace : Tied(i) \/ WithinHalfATrace(i)
=============================================================================
