-------------------------- MODULE AcceptanceLedger --------------------------
(***************************************************************************)
(* What the acceptance of a completion promises, without journals, effects *)
(* applied one by one, compensation, crashes and recovery: while it is     *)
(* open anything may be in place; it is closed at most once, at a moment   *)
(* when everything is; from then on only users change what was delivered;  *)
(* and the job is told accepted only after that.                           *)
(***************************************************************************)
CONSTANT Items  \* what an acceptance has to put in place

VARIABLES
    in_place,  \* the items in place
    ledger,    \* open or closed
    verdict    \* what the job record says

ledgerVars == <<in_place, ledger, verdict>>

LedgerInit ==
    /\ in_place = {}
    /\ ledger = "open"
    /\ verdict = "submitted"

Work ==
    /\ ledger = "open"
    /\ in_place' \in SUBSET Items
    /\ UNCHANGED <<ledger, verdict>>

Close ==
    /\ ledger = "open"
    /\ in_place = Items
    /\ ledger' = "closed"
    /\ UNCHANGED <<in_place, verdict>>

UserChanges ==
    /\ in_place' \in SUBSET in_place
    /\ UNCHANGED <<ledger, verdict>>

TellAccepted ==
    /\ ledger = "closed"
    /\ verdict' = "accepted"
    /\ UNCHANGED <<in_place, ledger>>

TellFailed ==
    /\ verdict # "accepted"
    /\ verdict' = "failed"
    /\ UNCHANGED <<in_place, ledger>>

LedgerNext == Work \/ Close \/ UserChanges \/ TellAccepted \/ TellFailed

LedgerSpec == LedgerInit /\ [][LedgerNext]_ledgerVars
=============================================================================
