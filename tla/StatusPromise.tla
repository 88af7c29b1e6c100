--------------------------- MODULE StatusPromise ---------------------------
(***************************************************************************)
(* What bmd-check promises of the two statuses that judge a calculation:   *)
(* COMPLETED and INCOMPLETE are claims about a finished execution, resting *)
(* on evidence that is there, and every question gets an answer.  The      *)
(* README's list of statuses, as a specification of its own; how evidence  *)
(* is acquired does not appear.                                            *)
(***************************************************************************)

Grounds == {"complete", "gap"}

VARIABLES
    settled,    \* has execution ended with success?
    grounds,    \* what the final files support: completion, a gap, both?
    answer      \* the answer to the question asked, "none" before it

promise == <<settled, grounds, answer>>

Init ==
    /\ settled = FALSE
    /\ grounds = {}
    /\ answer = "none"

\* Execution ends, once, and the evidence does not change after it.
Settle ==
    /\ ~settled
    /\ settled' = TRUE
    /\ grounds' \in SUBSET Grounds
    /\ UNCHANGED answer

Warranted ==
    {"OTHER"} \cup {a \in {"COMPLETED"} : settled /\ "complete" \in grounds}
              \cup {a \in {"INCOMPLETE"} : settled /\ "gap" \in grounds}

Answer ==
    /\ answer = "none"
    /\ answer' \in Warranted
    /\ UNCHANGED <<settled, grounds>>

Ask ==
    /\ answer # "none"
    /\ answer' = "none"
    /\ UNCHANGED <<settled, grounds>>

Next == Settle \/ Answer \/ Ask

Spec == Init /\ [][Next]_promise /\ WF_promise(Answer)
=============================================================================
