--------------------------- MODULE AtomicTransfer ---------------------------
(***************************************************************************)
(* What Client promises of one blob transfer, whatever the API used and    *)
(* however often it is retried: the call ends, and it ends without an      *)
(* exception only if the destination holds exactly the blob that the       *)
(* digest describes.  A call that fails promises nothing: the blob may     *)
(* still reach the destination later.                                      *)
(***************************************************************************)
VARIABLES
    delivered,  \* the destination holds the blob
    outcome     \* of the call: "pending", "ok" or "failed"

vars == <<delivered, outcome>>

TypeOK ==
    /\ delivered \in BOOLEAN
    /\ outcome \in {"pending", "ok", "failed"}

Init ==
    /\ delivered \in BOOLEAN
    /\ outcome = "pending"

\* Data moves; once the call succeeded the blob stays where it is.
Move ==
    /\ outcome # "ok"
    /\ delivered' \in BOOLEAN
    /\ UNCHANGED outcome

Succeed ==
    /\ outcome = "pending"
    /\ outcome' = "ok"
    /\ delivered' = TRUE

Fail ==
    /\ outcome = "pending"
    /\ outcome' = "failed"
    /\ delivered' \in BOOLEAN

Next == Move \/ Succeed \/ Fail

Spec == Init /\ [][Next]_vars /\ WF_vars(Succeed \/ Fail)
=============================================================================
