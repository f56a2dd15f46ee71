-------------------------- MODULE MCProcessingQueue --------------------------
(***************************************************************************)
(* The requests the processing queue is checked with: a person's draft of  *)
(* what their batch is processing too, one key in two projects, estimates  *)
(* that fill the whole budget and exceed it, and projects that ask for a   *)
(* limit above the site's, of zero, and not at all.                        *)
(***************************************************************************)
EXTENDS ProcessingQueue

CONSTANTS k1, k2, k3, k4, anna, bert, glac, other, third

Ask(key, owner, project, limit, priority, estimate) ==
    [key |-> key, owner |-> owner, project |-> project,
     projectLimit |-> limit, priority |-> priority, estimate |-> estimate]

MCRequests ==
    { Ask(k1, anna, glac, 5, "batch", 1),
      Ask(k1, anna, glac, 5, "draft", 1),
      Ask(k2, anna, glac, 5, "draft", 2),
      Ask(k3, bert, glac, 5, "batch", 1),
      Ask(k3, bert, other, 0, "draft", 1),
      Ask(k4, anna, third, Unset, "draft", 3) }
=============================================================================
