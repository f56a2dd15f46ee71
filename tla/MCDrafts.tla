------------------------------- MODULE MCDrafts -------------------------------
(***************************************************************************)
(* Calls for drafts and items of a batch, all of one person unless said    *)
(* otherwise: with a limit of one job, the next is refused.                *)
(***************************************************************************)
EXTENDS Drafts

CONSTANTS k1, k3, anna, glac

Call(n, key, owner, priority) ==
    [call |-> n, key |-> key, owner |-> owner, project |-> glac,
     projectLimit |-> Unset, priority |-> priority, estimate |-> 1]

\* A draft, the same asked for again, and an item of the same person's batch:
\* with a limit of one job, each draft keeps the item out of the queue.
MCCalls ==
    { Call(1, k1, anna, "draft"), Call(2, k1, anna, "draft"),
      Call(3, k3, anna, "batch") }

\* One draft asked for twice at once.
MCTwice == { Call(1, k1, anna, "draft"), Call(2, k1, anna, "draft") }

===============================================================================
