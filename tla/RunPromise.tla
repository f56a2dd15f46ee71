------------------------------ MODULE RunPromise ------------------------------
(***************************************************************************)
(* What the processing queue and the routes that read a job's output rely  *)
(* on from one run of a job, whatever its child process does               *)
(* (ProcessingQueue::run, src/src/server/processing.rs).                   *)
(***************************************************************************)
CONSTANT Outcomes

VARIABLES
    alive,     \* the job's child process may still write
    inPlace,   \* the processed file is at the job's output path
    asked,     \* somebody cancelled the job
    outcome    \* what the run returned, or nothing yet

promised == <<alive, inPlace, asked, outcome>>

Init == alive = FALSE /\ inPlace = FALSE /\ asked = FALSE /\ outcome = "nothing"

Start ==
    /\ ~alive /\ outcome = "nothing"
    /\ alive' = TRUE
    /\ UNCHANGED <<inPlace, asked, outcome>>

Produce ==
    /\ alive
    /\ inPlace' = TRUE
    /\ UNCHANGED <<alive, asked, outcome>>

End ==
    /\ alive
    /\ alive' = FALSE
    /\ UNCHANGED <<inPlace, asked, outcome>>

Ask ==
    /\ asked' = TRUE
    /\ UNCHANGED <<alive, inPlace, outcome>>

\* A run returns once, when nothing can write the output any more; it is
\* done only with the output in place, and cancelled only when asked.
Return(result) ==
    /\ ~alive /\ outcome = "nothing"
    /\ result = "done" => inPlace
    /\ result = "cancelled" => asked
    /\ outcome' = result
    /\ UNCHANGED <<alive, inPlace, asked>>

Next == Start \/ Produce \/ End \/ Ask \/ \E o \in Outcomes : Return(o)

Spec == Init /\ [][Next]_promised
===============================================================================
