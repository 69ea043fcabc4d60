--------------------------- MODULE DraftRegister ---------------------------
(***************************************************************************)
(* What DocumentSyncCoordinator promises, with everything but generations  *)
(* taken away: the editor's drafts are numbered, at most one number is     *)
(* outstanding at the host, it was the newest one when it was sent, and    *)
(* the confirmed number only moves to the outstanding one or, when the     *)
(* user gives the draft up for a replacement, to the newest one.           *)
(***************************************************************************)
EXTENDS Naturals

VARIABLES
    newest,       \* number of the newest local draft
    confirmed,    \* newest draft known to be in the host's document
    outstanding   \* the draft the host is being asked to store, 0 for none

vars == <<newest, confirmed, outstanding>>

Init == newest = 0 /\ confirmed = 0 /\ outstanding = 0

\* A new draft; it is sent at once, or waits for the outstanding one or for
\* the user.
Write ==
    /\ newest' = newest + 1
    /\ UNCHANGED confirmed
    /\ \/ UNCHANGED outstanding
       \/ outstanding = 0 /\ outstanding' = newest'

\* The user insists on the local draft: a new number, sent at once, whatever
\* was outstanding.
Insist ==
    /\ newest' = newest + 1
    /\ UNCHANGED confirmed
    /\ outstanding' = newest'

Send ==
    /\ outstanding = 0
    /\ confirmed < newest
    /\ outstanding' = newest
    /\ UNCHANGED <<newest, confirmed>>

\* The host stored the outstanding draft; a newer one may follow at once.
Confirm ==
    /\ outstanding # 0
    /\ confirmed' = outstanding
    /\ UNCHANGED newest
    /\ \/ outstanding' = 0
       \/ confirmed' < newest /\ outstanding' = newest

Fail ==
    /\ outstanding # 0
    /\ outstanding' = 0
    /\ UNCHANGED <<newest, confirmed>>

Replace ==
    /\ confirmed' = newest
    /\ outstanding' = 0
    /\ UNCHANGED newest

Next == Write \/ Insist \/ Send \/ Confirm \/ Fail \/ Replace

Spec == Init /\ [][Next]_vars
============================================================================
