---------------------------- MODULE QuoteLifecycle ----------------------------
(***************************************************************************)
(* What the lifecycle of a quote promises, without saying who acts, when a *)
(* delivery is prepared or how versions are stored: the states, the        *)
(* version they show, whether it is still a draft, and whether the sale    *)
(* stands (it was paid, or a voucher stands for it).                       *)
(***************************************************************************)
EXTENDS Naturals

VARIABLES status, version, draft, standing

vars == <<status, version, draft, standing>>

Init == status = "DRAFT" /\ version = 1 /\ draft = TRUE /\ standing = FALSE

(* The seller accepts the materials: the draft is valued, and stays a draft. *)
Price ==
  /\ status \in {"DRAFT", "CHANGE_REQUESTED"} /\ draft
  /\ status' = "QUOTED"
  /\ UNCHANGED <<version, draft, standing>>

(* A version is frozen only while the quote is ready to be sent. *)
Freeze ==
  /\ status = "QUOTED" /\ draft' = FALSE
  /\ UNCHANGED <<status, version, standing>>

Publish ==
  /\ status = "QUOTED" /\ status' = "SENT"
  /\ UNCHANGED <<version, draft, standing>>

Answer ==
  /\ status = "SENT" /\ status' \in {"ACCEPTED", "REJECTED"}
  /\ UNCHANGED <<version, draft, standing>>

(* The shown version is never edited: what follows it is a draft of its own. *)
NextDraft ==
  /\ draft' = TRUE
  /\ version' = IF draft THEN version ELSE version + 1

ChangeRequested ==
  /\ status = "SENT" /\ status' = "CHANGE_REQUESTED"
  /\ NextDraft /\ UNCHANGED standing

ReopenForResend ==
  /\ status \in {"ACCEPTED", "REJECTED"} /\ ~standing /\ ~draft
  /\ status' = "QUOTED"
  /\ UNCHANGED <<version, draft, standing>>

ReopenForEdit ==
  /\ status \in {"ACCEPTED", "REJECTED"} /\ ~standing /\ ~draft
  /\ status' = "CHANGE_REQUESTED"
  /\ NextDraft /\ UNCHANGED standing

(* Payment marks and vouchers come and go on an accepted sale only. *)
Settle ==
  /\ status = "ACCEPTED" /\ standing' \in BOOLEAN
  /\ UNCHANGED <<status, version, draft>>

(* A file read while the quote was a draft may be folded in when it is one no  *)
(* more: it becomes the shown version, and the quote stays what it has become. *)
LateDraft ==
  /\ ~draft /\ NextDraft
  /\ UNCHANGED <<status, standing>>

Next ==
  \/ Price \/ Freeze \/ Publish \/ Answer \/ ChangeRequested
  \/ ReopenForResend \/ ReopenForEdit \/ Settle \/ LateDraft

Spec == Init /\ [][Next]_vars

=============================================================================
