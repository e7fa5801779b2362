---------------------------- MODULE Reservation ----------------------------
(***************************************************************************)
(* What an image task promises its user and the provider's account: the    *)
(* points reserved for it are settled once, captured only against work the *)
(* provider carried out, and no second attempt is submitted while an       *)
(* earlier one was, or may still be, carried out.  Nothing is submitted    *)
(* for a task that is paid for or cancelled; a task that failed while a    *)
(* run was about to call the provider may still be submitted by that run.  *)
(***************************************************************************)
CONSTANT Attempts

VARIABLES
    outcome,   \* "open", or how the task ended
    billing,   \* what became of the reserved points
    work       \* what the provider did with each attempt

vars == <<outcome, billing, work>>

Outstanding == {a \in Attempts : work[a] \in {"sent", "rendered"}}

Init ==
    /\ outcome = "open"
    /\ billing = "RESERVED"
    /\ work = [a \in Attempts |-> "unsent"]

Submit(a) ==
    /\ outcome \in {"open", "FAILED"} /\ Outstanding = {} /\ work[a] = "unsent"
    /\ work' = [work EXCEPT ![a] = "sent"]
    /\ UNCHANGED <<outcome, billing>>

Answer(a) ==
    /\ work[a] = "sent"
    /\ \E answer \in {"rendered", "rejected"} : work' = [work EXCEPT ![a] = answer]
    /\ UNCHANGED <<outcome, billing>>

Capture ==
    /\ outcome = "open" /\ billing = "RESERVED"
    /\ \E a \in Attempts : work[a] = "rendered"
    /\ outcome' = "SUCCEEDED" /\ billing' = "CAPTURED"
    /\ UNCHANGED work

Release ==
    /\ outcome = "open" /\ billing = "RESERVED"
    /\ outcome' \in {"FAILED", "CANCELLED"} /\ billing' = "RELEASED"
    /\ UNCHANGED work

Next == (\E a \in Attempts : Submit(a) \/ Answer(a)) \/ Capture \/ Release

Spec == Init /\ [][Next]_vars

=============================================================================
