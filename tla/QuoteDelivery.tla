---------------------------- MODULE QuoteDelivery ----------------------------
(***************************************************************************)
(* One quote of apps/api, from its first draft to a closed sale: the       *)
(* seller's and the customer's state machines, the versions and their      *)
(* frozen representations, and the delivery operation that renders the     *)
(* PDF, writes the send rows, calls the providers outside any transaction  *)
(* and commits the outcome in a later one.                                 *)
(*                                                                         *)
(* A step is one database transaction (they all lock the quote row, or     *)
(* decide by a conditional UPDATE of it) or one call outside the database. *)
(* Between the steps of a delivery any other actor may move the quote.     *)
(***************************************************************************)
EXTENDS Naturals, FiniteSets

CONSTANTS
  Keys,        \* idempotency keys sellers send under
  Requests,    \* seller requests in flight: a send, or a PDF generation
  Sweeps,      \* runs of the attachment sweep over the files of the order
  External,    \* channel types a message goes out through: WhatsApp, email
  WebApp,      \* the customer portal, selected in every send
  Contents,    \* lines, prices and discounts a version may hold
  MaxVersion,  \* bound: versions a quote reaches
  NoKey, NoContent, Nobody

ASSUME DeliveryAssumption ==
  /\ MaxVersion \in Nat \ {0}
  /\ Contents # {}
  /\ NoKey \notin Keys
  /\ NoContent \notin Contents
  /\ Nobody \notin Requests
  /\ Sweeps \cap Requests = {}
  /\ WebApp \notin External

Versions == 1..MaxVersion
Channels == External \cup {WebApp}
Statuses == {"DRAFT", "QUOTED", "SENT", "CHANGE_REQUESTED", "ACCEPTED", "REJECTED"}
Tracking == {"NONE", "PENDING", "SENT", "FAILED"}   \* "NONE": no row for that channel
ActionTypes == {"ACCEPT", "REJECT", "REQUEST_CHANGE"}

VARIABLES
  (* the quote row *)
  status, archived, current,
  expiry,          \* the send whose deadline quote.expires_at holds, or NoKey
  paid,            \* paid_at is set
  invoiced,        \* HasLiveInvoice: a voucher pending, or issued and not credited
  (* quote_version and quote_representation rows *)
  versions, frozen, content, representation,
  (* quote_send rows, by idempotency key and channel *)
  sendVersion, tracking,
  lapsed,          \* sends whose expires_at has passed
  (* client_action and message_batch rows *)
  actions, batch,
  (* the requests being served and the two advisory locks they take *)
  request, deliveryLock, representationLock,
  folding          \* runs of the sweep that have read the quote and wait for the model

quoteVars   == <<status, archived, current, expiry, paid, invoiced>>
versionVars == <<versions, frozen, content, representation>>
sendVars    == <<sendVersion, tracking, lapsed>>
clientVars  == <<actions, batch>>
serverVars  == <<request, deliveryLock, representationLock>>
vars == <<quoteVars, versionVars, sendVars, clientVars, serverVars, folding>>

Idle == [pc |-> "idle", key |-> NoKey, channels |-> {}, version |-> 0,
         source |-> NoContent, failed |-> {}]

RequestType ==
  [pc : {"idle", "ensure", "render", "prepare", "dispatch", "commit"},
   key : Keys \cup {NoKey},          \* NoKey: the request only generates the PDF
   channels : SUBSET Channels,
   version : Versions \cup {0},      \* the version the representation was made of
   source : Contents \cup {NoContent},
   failed : SUBSET External]         \* channels whose provider refused the message

ActionType == [version : Versions, key : Keys, channel : Channels, type : ActionTypes]

TypeOK ==
  /\ status \in Statuses /\ archived \in BOOLEAN /\ current \in Versions
  /\ expiry \in Keys \cup {NoKey} /\ paid \in BOOLEAN /\ invoiced \in BOOLEAN
  /\ versions \in SUBSET Versions /\ frozen \in SUBSET Versions
  /\ content \in [Versions -> Contents]
  /\ representation \in [Versions -> Contents \cup {NoContent}]
  /\ sendVersion \in [Keys -> Versions \cup {0}]
  /\ tracking \in [Keys -> [Channels -> Tracking]]
  /\ lapsed \in SUBSET Keys
  /\ actions \in SUBSET ActionType /\ batch \in BOOLEAN
  /\ request \in [Requests -> RequestType]
  /\ deliveryLock \in Requests \cup {Nobody}
  /\ representationLock \in Requests \cup {Nobody}
  /\ folding \in SUBSET Sweeps

(* persistGeneratedDraft: a first mutable version on a DRAFT quote. *)
Init ==
  /\ status = "DRAFT" /\ archived = FALSE /\ current = 1
  /\ expiry = NoKey /\ paid = FALSE /\ invoiced = FALSE
  /\ versions = {1} /\ frozen = {}
  /\ \E c \in Contents : content = [v \in Versions |-> c]
  /\ representation = [v \in Versions |-> NoContent]
  /\ sendVersion = [k \in Keys |-> 0]
  /\ tracking = [k \in Keys |-> [c \in Channels |-> "NONE"]]
  /\ lapsed = {} /\ actions = {} /\ batch = FALSE
  /\ request = [r \in Requests |-> Idle]
  /\ deliveryLock = Nobody /\ representationLock = Nobody /\ folding = {}

-----------------------------------------------------------------------------
(* Versions *)

(* Mutant of Mutable: an UPDATE that forgets frozen_at IS NULL. *)
MutableWhenFrozen(v) == v \in versions

Mutable(v) == v \in versions \ frozen

(* UPDATE quote_version and its lines, which touch a mutable version only. *)
WriteContent(v, c) == content' = [content EXCEPT ![v] = c]

(* Mutant of OpenVersion: the row is inserted, UpdateCurrentVersion is not called. *)
OpenBesideCurrent ==
  /\ current < MaxVersion /\ current + 1 \notin versions /\ versions \subseteq frozen
  /\ versions' = versions \cup {current + 1}
  /\ \E c \in Contents : WriteContent(current + 1, c)
  /\ UNCHANGED <<current, frozen, representation>>

(* CreateVersion and UpdateCurrentVersion: version number + 1 is inserted,      *)
(* with a copy of the frozen source at today's prices (cloneVersionForEditing)  *)
(* or with what a late extraction read, and becomes the current one. Two unique *)
(* indexes refuse a second one: a version number is taken once, and a quote has *)
(* one mutable version.                                                         *)
OpenVersion ==
  /\ current < MaxVersion
  /\ current + 1 \notin versions
  /\ versions \subseteq frozen
  /\ versions' = versions \cup {current + 1}
  /\ current' = current + 1
  /\ \E c \in Contents : WriteContent(current + 1, c)
  /\ UNCHANGED <<frozen, representation>>

-----------------------------------------------------------------------------
(* The seller's transactions on the quote *)

EditableStatus == status \in {"DRAFT", "QUOTED", "CHANGE_REQUESTED"}

(* UpdateItem, AddItem, DeleteItem and the discount edits, ApproveAlternative, *)
(* DiscardAIChanges and the handler's own write: all under the quote's lock.   *)
EditLines ==
  /\ ~archived /\ EditableStatus /\ Mutable(current)
  /\ \E c \in Contents : WriteContent(current, c)
  /\ UNCHANGED <<quoteVars, versions, frozen, representation, sendVars, clientVars, serverVars,
                 folding>>

AcceptMaterials ==
  /\ ~archived /\ status \in {"DRAFT", "CHANGE_REQUESTED"} /\ Mutable(current)
  /\ \E c \in Contents : WriteContent(current, c)
  /\ status' = "QUOTED"
  /\ UNCHANGED <<archived, current, expiry, paid, invoiced, versions, frozen, representation,
                 sendVars, clientVars, serverVars, folding>>

SellerTransitions ==
  {<<"QUOTED", "SENT">>, <<"SENT", "ACCEPTED">>, <<"SENT", "REJECTED">>}

Transition(to) ==
  /\ ~archived /\ <<status, to>> \in SellerTransitions
  /\ status' = to
  /\ UNCHANGED <<archived, current, expiry, paid, invoiced, versionVars, sendVars,
                 clientVars, serverVars, folding>>

(* Mutant of MayReactivate: HasLiveInvoice is not asked, paid_at is. *)
MayReactivateInvoiced ==
  /\ ~archived /\ status \in {"ACCEPTED", "REJECTED"}
  /\ ~paid /\ ~Mutable(current)

MayReactivate ==
  /\ ~archived /\ status \in {"ACCEPTED", "REJECTED"}
  /\ ~invoiced /\ ~paid
  /\ ~Mutable(current)

ReactivateForResend ==
  /\ MayReactivate
  /\ status' = "QUOTED"
  /\ UNCHANGED <<archived, current, expiry, paid, invoiced, versionVars, sendVars,
                 clientVars, serverVars, folding>>

(* Mutant of ReactivateForEdit: the closed version is thawed, not copied. *)
ReactivateByThawing ==
  /\ MayReactivate
  /\ frozen' = frozen \ {current}
  /\ status' = "CHANGE_REQUESTED"
  /\ UNCHANGED <<archived, current, expiry, paid, invoiced, versions, content,
                 representation, sendVars, clientVars, serverVars, folding>>

ReactivateForEdit ==
  /\ MayReactivate
  /\ OpenVersion
  /\ status' = "CHANGE_REQUESTED"
  /\ UNCHANGED <<archived, expiry, paid, invoiced, sendVars, clientVars, serverVars, folding>>

Archive ==
  /\ ~archived /\ archived' = TRUE
  /\ UNCHANGED <<status, current, expiry, paid, invoiced, versionVars, sendVars,
                 clientVars, serverVars, folding>>

Unarchive ==
  /\ archived /\ archived' = FALSE
  /\ UNCHANGED <<status, current, expiry, paid, invoiced, versionVars, sendVars,
                 clientVars, serverVars, folding>>

(* What ArchiveInactiveCrossAccount selects, once the row has been quiet for *)
(* long enough; a NULL expires_at never compares as past.                    *)
InactivityDue ==
  /\ ~archived
  /\ \/ status \in {"DRAFT", "QUOTED"}
     \/ status = "SENT" /\ expiry \in lapsed

(* What ArchiveClosedCrossAccount selects; whether the sale is complete also *)
(* depends on the account's switch and on the waiver, which are not modelled.*)
ClosedDue == ~archived /\ (status = "REJECTED" \/ (status = "ACCEPTED" /\ paid))

AutoArchive ==
  /\ InactivityDue \/ ClosedDue
  /\ archived' = TRUE
  /\ UNCHANGED <<status, current, expiry, paid, invoiced, versionVars, sendVars,
                 clientVars, serverVars, folding>>

SetPaid(mark) ==
  /\ ~archived /\ status = "ACCEPTED" /\ paid # mark
  /\ paid' = mark
  /\ UNCHANGED <<status, archived, current, expiry, invoiced, versionVars, sendVars,
                 clientVars, serverVars, folding>>

(* The invoice hold: a PENDING voucher is written under the quote's lock on   *)
(* an ACCEPTED quote; the archive flag was read in an earlier transaction.    *)
HoldInvoice ==
  /\ status = "ACCEPTED" /\ ~invoiced
  /\ invoiced' = TRUE
  /\ UNCHANGED <<status, archived, current, expiry, paid, versionVars, sendVars,
                 clientVars, serverVars, folding>>

(* The voucher was refused or released, or a credit note cancelled it. *)
ReleaseInvoice ==
  /\ invoiced /\ invoiced' = FALSE
  /\ UNCHANGED <<status, archived, current, expiry, paid, versionVars, sendVars,
                 clientVars, serverVars, folding>>

-----------------------------------------------------------------------------
(* Serving a seller request: Send, and GenerateRepresentation *)

IsSend(r) == request[r].key # NoKey
Selected(k) == {c \in Channels : tracking[k][c] # "NONE"}
Delivered(k, c) == tracking[k][c] = "SENT"

Advance(r, fields) == request' = [request EXCEPT ![r] = fields]
Step(r, pc) == [request[r] EXCEPT !.pc = pc]

ReleasedBy(r, lock) == IF lock = r THEN Nobody ELSE lock

(* The handler returns: its transaction locks go with it. *)
Finish(r) ==
  /\ Advance(r, Idle)
  /\ deliveryLock' = ReleasedBy(r, deliveryLock)
  /\ representationLock' = ReleasedBy(r, representationLock)

(* Send takes the advisory lock quote-delivery; a second send of the quote waits. *)
StartSend(r, k, chosen) ==
  /\ request[r].pc = "idle" /\ deliveryLock = Nobody
  /\ chosen # {}
  /\ Advance(r, [Idle EXCEPT !.pc = "ensure", !.key = k, !.channels = chosen \cup {WebApp}])
  /\ deliveryLock' = r
  /\ UNCHANGED <<quoteVars, versionVars, sendVars, clientVars, folding, representationLock>>

StartGenerate(r) ==
  /\ request[r].pc = "idle"
  /\ Advance(r, [Idle EXCEPT !.pc = "ensure"])
  /\ UNCHANGED <<quoteVars, versionVars, sendVars, clientVars, folding, deliveryLock,
                 representationLock>>

(* Ensure, where the representation exists: the bundle is replayed. *)
Represented(r) ==
  /\ request[r].pc = "ensure" /\ representationLock = Nobody
  /\ ~archived /\ status \in {"QUOTED", "SENT"}
  /\ representation[current] # NoContent
  /\ IF IsSend(r)
     THEN /\ Advance(r, [Step(r, "prepare") EXCEPT !.version = current])
          /\ UNCHANGED <<deliveryLock, representationLock>>
     ELSE Finish(r)
  /\ UNCHANGED <<quoteVars, versionVars, sendVars, clientVars, folding>>

(* Mutant of Freeze: the status is not asked before the version is frozen. *)
FreezeInAnyStatus(r) ==
  /\ request[r].pc = "ensure" /\ representationLock = Nobody
  /\ ~archived /\ representation[current] = NoContent
  /\ frozen' = frozen \cup {current}
  /\ Advance(r, [Step(r, "render") EXCEPT !.version = current, !.source = content[current]])
  /\ representationLock' = r
  /\ UNCHANGED <<quoteVars, versions, content, representation, sendVars, clientVars, folding,
                 deliveryLock>>

(* Mutant of Freeze: the source is read, and the version is left editable. *)
FreezeNothing(r) ==
  /\ request[r].pc = "ensure" /\ representationLock = Nobody
  /\ ~archived /\ status = "QUOTED" /\ representation[current] = NoContent
  /\ Advance(r, [Step(r, "render") EXCEPT !.version = current, !.source = content[current]])
  /\ representationLock' = r
  /\ UNCHANGED <<quoteVars, versionVars, sendVars, clientVars, folding, deliveryLock>>

(* Ensure, first transaction: read the source and freeze the version. *)
Freeze(r) ==
  /\ request[r].pc = "ensure" /\ representationLock = Nobody
  /\ ~archived /\ status = "QUOTED"
  /\ representation[current] = NoContent
  /\ frozen' = frozen \cup {current}
  /\ Advance(r, [Step(r, "render") EXCEPT !.version = current, !.source = content[current]])
  /\ representationLock' = r
  /\ UNCHANGED <<quoteVars, versions, content, representation, sendVars, clientVars, folding,
                 deliveryLock>>

(* Ensure, last transaction: the PDF is stored, the snapshot row is inserted. *)
CreateRepresentation(r) ==
  LET v == request[r].version IN
  /\ request[r].pc = "render"
  /\ v \in frozen /\ representation[v] = NoContent
  /\ representation' = [representation EXCEPT ![v] = request[r].source]
  /\ IF IsSend(r)
     THEN /\ Advance(r, [Step(r, "prepare") EXCEPT !.source = NoContent])
          /\ representationLock' = ReleasedBy(r, representationLock)
          /\ UNCHANGED deliveryLock
     ELSE Finish(r)
  /\ UNCHANGED <<quoteVars, versions, frozen, content, sendVars, clientVars, folding>>

(* Mutant of MayPrepare: the archive flag is trusted as Ensure read it. *)
MayPrepareArchived(r) ==
  /\ request[r].pc = "prepare"
  /\ status \in {"QUOTED", "SENT"}
  /\ current = request[r].version /\ current \in frozen

MayPrepare(r) ==
  /\ request[r].pc = "prepare"
  /\ ~archived /\ status \in {"QUOTED", "SENT"}
  /\ current = request[r].version /\ current \in frozen

(* Mutant of PrepareNew: ListByOperation is not read, so a known key writes again. *)
PrepareAgain(r) ==
  LET k == request[r].key IN
  /\ MayPrepare(r)
  /\ sendVersion' = [sendVersion EXCEPT ![k] = current]
  /\ tracking' = [tracking EXCEPT ![k] =
       [c \in Channels |-> IF c \in request[r].channels THEN "PENDING" ELSE "NONE"]]
  /\ Advance(r, Step(r, "dispatch"))
  /\ UNCHANGED <<quoteVars, versionVars, lapsed, clientVars, folding, deliveryLock,
                 representationLock>>

(* prepare, a new key: one PENDING row per selected channel. *)
PrepareNew(r) ==
  LET k == request[r].key IN
  /\ MayPrepare(r) /\ sendVersion[k] = 0
  /\ sendVersion' = [sendVersion EXCEPT ![k] = current]
  /\ tracking' = [tracking EXCEPT ![k] =
       [c \in Channels |-> IF c \in request[r].channels THEN "PENDING" ELSE "NONE"]]
  /\ Advance(r, Step(r, "dispatch"))
  /\ UNCHANGED <<quoteVars, versionVars, lapsed, clientVars, folding, deliveryLock,
                 representationLock>>

(* prepare, a known key: the same payload for the same version, or a mismatch. *)
ValidReplay(r) ==
  LET k == request[r].key IN
  sendVersion[k] = request[r].version /\ Selected(k) = request[r].channels

PrepareReplay(r) ==
  LET k == request[r].key IN
  /\ MayPrepare(r) /\ ValidReplay(r)
  /\ IF \E c \in Channels : tracking[k][c] = "PENDING"
     THEN Advance(r, Step(r, "dispatch")) /\ UNCHANGED <<deliveryLock, representationLock>>
     ELSE Finish(r)
  /\ UNCHANGED <<quoteVars, versionVars, sendVars, clientVars, folding>>

(* The providers answer, each on its own; publishing on the portal cannot fail. *)
Dispatch(r) ==
  /\ request[r].pc = "dispatch"
  /\ \E failed \in SUBSET (request[r].channels \cap External) :
       Advance(r, [Step(r, "commit") EXCEPT !.failed = failed])
  /\ UNCHANGED <<quoteVars, versionVars, sendVars, clientVars, folding, deliveryLock,
                 representationLock>>

(* Mutant of CompleteBatch: the UPDATE forgets tracking_status = 'PENDING'. *)
CompleteAnyBatch(r) ==
  LET k == request[r].key IN
  tracking' = [tracking EXCEPT ![k] =
    [c \in Channels |-> IF c \notin request[r].channels THEN @[c]
                        ELSE IF c \in request[r].failed THEN "FAILED" ELSE "SENT"]]

(* CompleteBatch: every row must still be PENDING, or the transaction conflicts. *)
CompleteBatch(r) ==
  LET k == request[r].key IN
  /\ \A c \in request[r].channels : tracking[k][c] = "PENDING"
  /\ tracking' = [tracking EXCEPT ![k] =
       [c \in Channels |-> IF c \notin request[r].channels THEN @[c]
                           ELSE IF c \in request[r].failed THEN "FAILED" ELSE "SENT"]]

(* Mutant of Commit: the status read in prepare is trusted. *)
CommitInAnyStatus(r) ==
  /\ request[r].pc = "commit"
  /\ CompleteBatch(r)
  /\ expiry' = request[r].key /\ status' = "SENT"
  /\ Finish(r)
  /\ UNCHANGED <<archived, current, paid, invoiced, versionVars, sendVersion, lapsed,
                 clientVars, folding>>

(* The confirmation: the rows, quote.expires_at and the status move together.   *)
(* It reads the status again, and neither the archive flag nor the version.     *)
Commit(r) ==
  /\ request[r].pc = "commit"
  /\ CompleteBatch(r)
  /\ expiry' = request[r].key
  /\ status \in {"QUOTED", "SENT"} /\ status' = "SENT"
  /\ Finish(r)
  /\ UNCHANGED <<archived, current, paid, invoiced, versionVars, sendVersion, lapsed,
                 clientVars, folding>>

(* A refusal, an error, a rollback or a crash: committed rows stay. *)
Abandon(r) ==
  /\ request[r].pc # "idle"
  /\ Finish(r)
  /\ UNCHANGED <<quoteVars, versionVars, sendVars, clientVars, folding>>

(* The connection holding an advisory lock dies; its handler does not notice. *)
LoseDeliveryLock ==
  /\ deliveryLock # Nobody /\ deliveryLock' = Nobody
  /\ UNCHANGED <<quoteVars, versionVars, sendVars, clientVars, folding, request,
                 representationLock>>

LoseRepresentationLock ==
  /\ representationLock # Nobody /\ representationLock' = Nobody
  /\ UNCHANGED <<quoteVars, versionVars, sendVars, clientVars, folding, request, deliveryLock>>

-----------------------------------------------------------------------------
(* The customer *)

(* expires_at of a completed send passes; its channels share the deadline. *)
Lapse(k) ==
  /\ \E c \in Channels : Delivered(k, c)
  /\ k \notin lapsed /\ lapsed' = lapsed \cup {k}
  /\ UNCHANGED <<quoteVars, versionVars, sendVersion, tracking, clientVars, serverVars, folding>>

(* A link that opens: GetPublicByToken, before its deadline. *)
ActiveLink(k, c) == Delivered(k, c) /\ k \notin lapsed

(* The link addresses the version the quote still shows, and waits for an answer. *)
OpenOffer(k, c) ==
  /\ ActiveLink(k, c)
  /\ ~archived /\ status = "SENT" /\ current = sendVersion[k]

(* Mutant of Answered: the answer is looked up by the send, not by its version. *)
AnsweredByKey(k) == \E a \in actions : a.key = k

(* GetBySend finds the first answer given to the version, through any send. *)
Answered(k) == \E a \in actions : a.version = sendVersion[k]

RecordAnswer(k, c, type) ==
  /\ OpenOffer(k, c) /\ ~Answered(k)
  /\ actions' = actions \cup
       {[version |-> sendVersion[k], key |-> k, channel |-> c, type |-> type]}

Respond(k, c, type) ==
  /\ type \in {"ACCEPT", "REJECT"}
  /\ RecordAnswer(k, c, type)
  /\ status' = IF type = "ACCEPT" THEN "ACCEPTED" ELSE "REJECTED"
  /\ UNCHANGED <<archived, current, expiry, paid, invoiced, versionVars, sendVars,
                 batch, serverVars, folding>>

(* REQUEST_CHANGE also opens the next draft and queues the customer's message. *)
RequestChange(k, c) ==
  /\ RecordAnswer(k, c, "REQUEST_CHANGE")
  /\ current \in frozen /\ OpenVersion
  /\ batch' = TRUE
  /\ status' = "CHANGE_REQUESTED"
  /\ UNCHANGED <<archived, expiry, paid, invoiced, sendVars, serverVars, folding>>

(* A reply to a delivered message opens or extends the conversation window. *)
Reply ==
  /\ ~archived /\ status \in {"SENT", "CHANGE_REQUESTED"}
  /\ \E k \in Keys, c \in External : ActiveLink(k, c)
  /\ batch' = TRUE
  /\ UNCHANGED <<quoteVars, versionVars, sendVars, actions, serverVars, folding>>

(* The handler's first transaction on a claimed batch: the quote moves and has  *)
(* its draft before the model is called. The batch ends, or is retried.         *)
HandleBatch ==
  /\ batch /\ batch' \in BOOLEAN
  /\ ~archived /\ status \in {"SENT", "CHANGE_REQUESTED"}
  /\ status' = "CHANGE_REQUESTED"
  /\ IF current \in frozen
     THEN OpenVersion
     ELSE UNCHANGED <<current, versionVars>>
  /\ UNCHANGED <<archived, expiry, paid, invoiced, sendVars, actions, serverVars, folding>>

(* ValidateHandlerRun refuses any other quote: the batch fails as unprocessable. *)
RefuseBatch ==
  /\ batch /\ (archived \/ status \notin {"SENT", "CHANGE_REQUESTED"})
  /\ batch' = FALSE
  /\ UNCHANGED <<quoteVars, versionVars, sendVars, actions, serverVars, folding>>

-----------------------------------------------------------------------------
(* The attachment sweep: FoldAttachmentsIntoQuote *)

(* rfqWithQuote: a file is folded into a draft nobody put away; the model is *)
(* asked next, for minutes.                                                  *)
FoldReads(s) ==
  /\ s \notin folding /\ ~archived /\ status = "DRAFT"
  /\ folding' = folding \cup {s}
  /\ UNCHANGED <<quoteVars, versionVars, sendVars, clientVars, serverVars>>

(* persistDraftVersion: neither the status nor the archive flag is read again, *)
(* so the version opens on whatever the quote has become.                      *)
FoldVersion(s) ==
  /\ s \in folding /\ folding' = folding \ {s}
  /\ OpenVersion
  /\ UNCHANGED <<status, archived, expiry, paid, invoiced, sendVars, clientVars, serverVars>>

(* The model found nothing or failed, the version was refused, or the run died. *)
FoldEnds(s) ==
  /\ s \in folding /\ folding' = folding \ {s}
  /\ UNCHANGED <<quoteVars, versionVars, sendVars, clientVars, serverVars>>

-----------------------------------------------------------------------------
SellerNext ==
  \/ EditLines \/ AcceptMaterials
  \/ \E to \in Statuses : Transition(to)
  \/ ReactivateForResend \/ ReactivateForEdit
  \/ Archive \/ Unarchive
  \/ \E mark \in BOOLEAN : SetPaid(mark)
  \/ HoldInvoice \/ ReleaseInvoice

ServeNext(r) ==
  \/ \E k \in Keys, chosen \in SUBSET External : StartSend(r, k, chosen)
  \/ StartGenerate(r)
  \/ Represented(r) \/ Freeze(r) \/ CreateRepresentation(r)
  \/ PrepareNew(r) \/ PrepareReplay(r)
  \/ Dispatch(r) \/ Commit(r) \/ Abandon(r)

CustomerNext ==
  \/ \E k \in Keys, c \in Channels :
       (\E type \in ActionTypes : Respond(k, c, type)) \/ RequestChange(k, c)
  \/ Reply

Next ==
  \/ SellerNext
  \/ \E r \in Requests : ServeNext(r)
  \/ CustomerNext
  \/ AutoArchive \/ HandleBatch \/ RefuseBatch
  \/ LoseDeliveryLock \/ LoseRepresentationLock
  \/ \E k \in Keys : Lapse(k)
  \/ \E s \in Sweeps : FoldReads(s) \/ FoldVersion(s) \/ FoldEnds(s)

Spec == Init /\ [][Next]_vars

-----------------------------------------------------------------------------
(* Invariants *)

(* A representation and its version never disagree: whatever was edited, by     *)
(* whom and between which steps of Ensure, the stored snapshot is the version's *)
(* content and the version is frozen (quote_representation_service.ensureLocked).*)
SnapshotFaithful ==
  \A v \in Versions : representation[v] # NoContent =>
    v \in frozen /\ representation[v] = content[v]

(* Version numbers are contiguous, the current one is the newest, and no other  *)
(* is a draft: versions opened by a customer, the batch handler, a reactivation *)
(* and the sweep never leave an orphan draft behind (uq_quote_version,          *)
(* uq_quote_version_draft).                                                     *)
OnlyTheNewestIsDraft ==
  versions = 1..current /\ versions \ frozen \subseteq {current}

(* No dead end while the seller has work to do: a DRAFT or CHANGE_REQUESTED     *)
(* quote has a mutable current version, or AcceptMaterials could never leave    *)
(* the state. A freeze racing a change request must not break it.               *)
WorkHasDraft ==
  status \in {"DRAFT", "CHANGE_REQUESTED"} => Mutable(current)

(* However many links of a version are live, and whatever order their answers   *)
(* arrive in, one answer is recorded for the version (RespondPublic).           *)
OneAnswerPerVersion ==
  \A a, b \in actions : a.version = b.version => a = b

(* An answer was given through a completed send of the version it is filed      *)
(* under, and that version still holds what the customer was shown.             *)
AnswersAddressWhatWasShown ==
  \A a \in actions :
    /\ Delivered(a.key, a.channel) /\ sendVersion[a.key] = a.version
    /\ representation[a.version] = content[a.version]

(* "An invoiced sale is a fiscal fact": a sale that is paid or holds a voucher  *)
(* is ACCEPTED, through reactivations, late answers and late send commits.      *)
StandingSaleIsAccepted == paid \/ invoiced => status = "ACCEPTED"

(* What the safety of the delivery rests on while requests are in flight: the   *)
(* source a request renders is still the frozen version's content, a version    *)
(* handed to prepare has its snapshot, so does the version of every send, and   *)
(* a key has no row before it has a version.                                    *)
FrozenExists == frozen \subseteq versions

RendersTheFrozenSource ==
  \A r \in Requests : request[r].pc = "render" =>
    /\ request[r].version \in frozen
    /\ request[r].source = content[request[r].version]

DispatchesARepresentation ==
  \A r \in Requests : request[r].pc \in {"prepare", "dispatch", "commit"} =>
    /\ request[r].version \in Versions
    /\ representation[request[r].version] # NoContent

SendsAreRepresented ==
  \A k \in Keys : sendVersion[k] # 0 => representation[sendVersion[k]] # NoContent

RowsAreOfASend ==
  \A k \in Keys : sendVersion[k] = 0 => Selected(k) = {}

IInv ==
  /\ TypeOK /\ OnlyTheNewestIsDraft /\ FrozenExists /\ WorkHasDraft
  /\ SnapshotFaithful /\ RendersTheFrozenSource
  /\ DispatchesARepresentation /\ SendsAreRepresented /\ RowsAreOfASend
  /\ OneAnswerPerVersion /\ AnswersAddressWhatWasShown /\ StandingSaleIsAccepted

-----------------------------------------------------------------------------
(* Action properties *)

(* "Makes the selected current version permanently immutable" (FreezeVersion).  *)
FrozenIsPermanent ==
  [][\A v \in frozen : /\ v \in frozen' /\ content'[v] = content[v]
                       /\ representation[v] # NoContent =>
                            representation'[v] = representation[v]]_vars

(* A send's outcome is written once and its version never moves, when two       *)
(* requests serve one idempotency key because the advisory lock was lost.       *)
SendOutcomeIsFinal ==
  [][\A k \in Keys :
       /\ sendVersion[k] # 0 => sendVersion'[k] = sendVersion[k]
       /\ \A c \in Channels : tracking[k][c] \in {"SENT", "FAILED"} =>
            tracking'[k][c] = tracking[k][c]]_vars

(* Who may still write to a quote that is put away: runs of the sweep and       *)
(* requests that read it before. The version a request froze is stored, a send  *)
(* that called the providers is confirmed, a file that was read is folded in.   *)
Underway ==
  folding \cup {r \in Requests : request[r].pc \in {"render", "dispatch", "commit"}}

(* "Every edit on an archived quote answers QUOTE_ARCHIVED until it is          *)
(* unarchived" (docs/technical/rfq-pipeline.md): nothing begins on it that      *)
(* could write to it, and what had begun writes at most once and is over.       *)
(* Whoever does it, no version the quote has is rewritten or frozen, and no     *)
(* answer and no payment mark is taken. That the sweep opens a version at all,  *)
(* and a late confirmation moves the status, is what the code does; the voucher *)
(* is left out, whose hold does not ask for the flag either.                    *)
ArchivedOnlyFinishes ==
  [][archived /\ archived' =>
       /\ UNCHANGED <<frozen, sendVersion, actions, paid>>
       /\ \A v \in versions : content'[v] = content[v]
       /\ Underway' \subseteq Underway
       /\ Underway' # Underway
            \/ UNCHANGED <<status, current, expiry, versions, representation, tracking>>]_vars

(* The system implements the lifecycle of QuoteLifecycle.tla. *)
Lifecycle == INSTANCE QuoteLifecycle WITH
  version <- current, draft <- current \notin frozen, standing <- paid \/ invoiced

LifecycleSpec == Lifecycle!Spec

-----------------------------------------------------------------------------
(* What the repository says of the program, and the program does not keep *)

(* docs/technical/rfq-pipeline.md: "An active send can receive one public       *)
(* answer": while its offer is open, its own answer is recorded, not replaced   *)
(* by the replay of the one given before the quote was reactivated.             *)
OpenOfferTakesAnswer ==
  \A k \in Keys, c \in Channels : OpenOffer(k, c) => ~Answered(k)

=============================================================================
