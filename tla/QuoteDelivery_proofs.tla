------------------------ MODULE QuoteDelivery_proofs ------------------------
(***************************************************************************)
(* Theorems about QuoteDelivery, for any number of idempotency keys,       *)
(* requests in flight, channels, contents and versions.                    *)
(***************************************************************************)
EXTENDS QuoteDelivery, TLAPS

-----------------------------------------------------------------------------
(* Type correctness *)

(* A request that advances to a well-formed record leaves the others alone. *)
LEMMA AdvanceType ==
  ASSUME TypeOK, NEW r \in Requests, NEW f \in RequestType, Advance(r, f)
  PROVE  request' \in [Requests -> RequestType]
BY DEF TypeOK, Advance

LEMMA StepType ==
  ASSUME TypeOK, NEW r \in Requests,
         NEW pc \in {"idle", "ensure", "render", "prepare", "dispatch", "commit"}
  PROVE  Step(r, pc) \in RequestType
BY DEF TypeOK, Step, RequestType

LEMMA FinishType ==
  ASSUME TypeOK, NEW r \in Requests, Finish(r)
  PROVE  /\ request' \in [Requests -> RequestType]
         /\ deliveryLock' \in Requests \cup {Nobody}
         /\ representationLock' \in Requests \cup {Nobody}
<1>1. Idle \in RequestType
  BY DEF Idle, RequestType
<1>2. request' \in [Requests -> RequestType]
  BY <1>1, AdvanceType DEF Finish
<1> QED
  BY <1>2 DEF TypeOK, Finish, ReleasedBy

LEMMA OpenVersionType ==
  ASSUME TypeOK, OpenVersion
  PROVE  /\ current' \in Versions /\ versions' \in SUBSET Versions
         /\ frozen' \in SUBSET Versions /\ content' \in [Versions -> Contents]
         /\ representation' \in [Versions -> Contents \cup {NoContent}]
<1>1. current + 1 \in Versions
  BY DeliveryAssumption DEF TypeOK, OpenVersion, Versions
<1> QED
  BY <1>1 DEF TypeOK, OpenVersion, WriteContent

LEMMA TypeInit == Init => TypeOK
<1> SUFFICES ASSUME Init PROVE TypeOK
  OBVIOUS
<1>1. 1 \in Versions
  BY DeliveryAssumption DEF Versions
<1>2. Idle \in RequestType
  BY DEF Idle, RequestType
<1> QED
  BY <1>1, <1>2 DEF Init, TypeOK, Statuses, Tracking

LEMMA SellerType == ASSUME TypeOK, SellerNext PROVE TypeOK'
<1> USE DEF quoteVars, versionVars, sendVars, clientVars, serverVars
<1>1. CASE EditLines
  BY <1>1 DEF EditLines, WriteContent, TypeOK
<1>2. CASE AcceptMaterials
  BY <1>2 DEF AcceptMaterials, WriteContent, TypeOK, Statuses
<1>3. CASE \E to \in Statuses : Transition(to)
  BY <1>3 DEF Transition, TypeOK
<1>4. CASE ReactivateForResend
  BY <1>4 DEF ReactivateForResend, TypeOK, Statuses
<1>5. CASE ReactivateForEdit
  <2>1. status' \in Statuses
    BY <1>5 DEF ReactivateForEdit, Statuses
  <2> QED
    BY <1>5, <2>1, OpenVersionType DEF ReactivateForEdit, TypeOK
<1>6. CASE Archive \/ Unarchive
  BY <1>6 DEF Archive, Unarchive, TypeOK
<1>7. CASE \E mark \in BOOLEAN : SetPaid(mark)
  BY <1>7 DEF SetPaid, TypeOK
<1>8. CASE HoldInvoice \/ ReleaseInvoice
  BY <1>8 DEF HoldInvoice, ReleaseInvoice, TypeOK
<1> QED
  BY <1>1, <1>2, <1>3, <1>4, <1>5, <1>6, <1>7, <1>8 DEF SellerNext

LEMMA ServeType == ASSUME TypeOK, NEW r \in Requests, ServeNext(r) PROVE TypeOK'
<1> USE DEF quoteVars, versionVars, sendVars, clientVars, serverVars
<1>1. CASE \E k \in Keys, chosen \in SUBSET External : StartSend(r, k, chosen)
  <2>1. PICK k \in Keys, chosen \in SUBSET External : StartSend(r, k, chosen)
    BY <1>1
  <2>2. [Idle EXCEPT !.pc = "ensure", !.key = k, !.channels = chosen \cup {WebApp}]
          \in RequestType
    BY DEF Idle, RequestType, Channels
  <2>3. request' \in [Requests -> RequestType]
    BY <2>1, <2>2, AdvanceType DEF StartSend
  <2> QED
    BY <2>1, <2>3 DEF StartSend, TypeOK
<1>2. CASE StartGenerate(r)
  <2>1. [Idle EXCEPT !.pc = "ensure"] \in RequestType
    BY DEF Idle, RequestType
  <2>2. request' \in [Requests -> RequestType]
    BY <1>2, <2>1, AdvanceType DEF StartGenerate
  <2> QED
    BY <1>2, <2>2 DEF StartGenerate, TypeOK
<1>3. CASE Represented(r)
  <2>1. [Step(r, "prepare") EXCEPT !.version = current] \in RequestType
    <3>1. Step(r, "prepare") \in RequestType /\ current \in Versions
      BY StepType DEF TypeOK
    <3> QED
      BY <3>1 DEF RequestType
  <2>2. CASE IsSend(r)
    <3>1. request' \in [Requests -> RequestType]
      BY <1>3, <2>1, <2>2, AdvanceType DEF Represented
    <3> QED
      BY <1>3, <2>2, <3>1 DEF Represented, TypeOK
  <2>3. CASE ~IsSend(r)
    <3>1. Finish(r)
      BY <1>3, <2>3 DEF Represented
    <3> QED
      BY <1>3, <3>1, FinishType DEF Represented, TypeOK
  <2> QED
    BY <2>2, <2>3
<1>4. CASE Freeze(r)
  <2>1. [Step(r, "render") EXCEPT !.version = current, !.source = content[current]]
          \in RequestType
    <3>1. Step(r, "render") \in RequestType
      BY StepType
    <3>2. current \in Versions /\ content[current] \in Contents
      BY DEF TypeOK
    <3> QED
      BY <3>1, <3>2 DEF RequestType
  <2>2. request' \in [Requests -> RequestType]
    BY <1>4, <2>1, AdvanceType DEF Freeze
  <2> QED
    BY <1>4, <2>2 DEF Freeze, TypeOK
<1>5. CASE CreateRepresentation(r)
  <2>1. [Step(r, "prepare") EXCEPT !.source = NoContent] \in RequestType
    BY StepType DEF RequestType
  <2>2. representation' \in [Versions -> Contents \cup {NoContent}]
    BY <1>5 DEF CreateRepresentation, TypeOK, RequestType
  <2>3. CASE IsSend(r)
    <3>1. request' \in [Requests -> RequestType]
      BY <1>5, <2>1, <2>3, AdvanceType DEF CreateRepresentation
    <3> QED
      BY <1>5, <2>2, <2>3, <3>1 DEF CreateRepresentation, TypeOK, ReleasedBy
  <2>4. CASE ~IsSend(r)
    <3>1. Finish(r)
      BY <1>5, <2>4 DEF CreateRepresentation
    <3> QED
      BY <1>5, <2>2, <3>1, FinishType DEF CreateRepresentation, TypeOK
  <2> QED
    BY <2>3, <2>4
<1>6. CASE PrepareNew(r)
  <2>1. request' \in [Requests -> RequestType]
    BY <1>6, StepType, AdvanceType DEF PrepareNew
  <2>2. [c \in Channels |-> IF c \in request[r].channels THEN "PENDING" ELSE "NONE"]
          \in [Channels -> Tracking]
    BY DEF Tracking
  <2>3. tracking' \in [Keys -> [Channels -> Tracking]]
    BY <1>6, <2>2 DEF PrepareNew, TypeOK
  <2>4. sendVersion' \in [Keys -> Versions \cup {0}]
    BY <1>6 DEF PrepareNew, TypeOK
  <2> QED
    BY <1>6, <2>1, <2>3, <2>4 DEF PrepareNew, TypeOK
<1>7. CASE PrepareReplay(r)
  <2>1. CASE \E c \in Channels : tracking[request[r].key][c] = "PENDING"
    <3>1. request' \in [Requests -> RequestType]
      BY <1>7, <2>1, StepType, AdvanceType DEF PrepareReplay
    <3> QED
      BY <1>7, <2>1, <3>1 DEF PrepareReplay, TypeOK
  <2>2. CASE ~ \E c \in Channels : tracking[request[r].key][c] = "PENDING"
    <3>1. Finish(r)
      BY <1>7, <2>2 DEF PrepareReplay
    <3> QED
      BY <1>7, <3>1, FinishType DEF PrepareReplay, TypeOK
  <2> QED
    BY <2>1, <2>2
<1>8. CASE Dispatch(r)
  <2>1. PICK failed \in SUBSET (request[r].channels \cap External) :
          Advance(r, [Step(r, "commit") EXCEPT !.failed = failed])
    BY <1>8 DEF Dispatch
  <2>2. [Step(r, "commit") EXCEPT !.failed = failed] \in RequestType
    BY StepType DEF RequestType
  <2>3. request' \in [Requests -> RequestType]
    BY <2>1, <2>2, AdvanceType
  <2> QED
    BY <1>8, <2>3 DEF Dispatch, TypeOK
<1>9. CASE Commit(r)
  <2> DEFINE k == request[r].key
  <2>1. tracking' \in [Keys -> [Channels -> Tracking]]
    <3>1. CASE k \in Keys
      <4>1. [c \in Channels |-> IF c \notin request[r].channels THEN tracking[k][c]
                                ELSE IF c \in request[r].failed THEN "FAILED" ELSE "SENT"]
              \in [Channels -> Tracking]
        BY <3>1 DEF TypeOK, Tracking
      <4> QED
        BY <1>9, <4>1 DEF Commit, CompleteBatch, TypeOK
    <3>2. CASE k \notin Keys
      BY <1>9, <3>2 DEF Commit, CompleteBatch, TypeOK
    <3> QED
      BY <3>1, <3>2
  <2>2. expiry' \in Keys \cup {NoKey} /\ status' \in Statuses
    BY <1>9 DEF Commit, TypeOK, RequestType, Statuses
  <2>3. Finish(r)
    BY <1>9 DEF Commit
  <2> QED
    BY <1>9, <2>1, <2>2, <2>3, FinishType DEF Commit, TypeOK
<1>10. CASE Abandon(r)
  <2>1. Finish(r)
    BY <1>10 DEF Abandon
  <2> QED
    BY <1>10, <2>1, FinishType DEF Abandon, TypeOK
<1> QED
  BY <1>1, <1>2, <1>3, <1>4, <1>5, <1>6, <1>7, <1>8, <1>9, <1>10 DEF ServeNext

LEMMA CustomerType == ASSUME TypeOK, CustomerNext PROVE TypeOK'
<1> USE DEF quoteVars, versionVars, sendVars, clientVars, serverVars
<1>1. ASSUME NEW k \in Keys, NEW c \in Channels, NEW type \in ActionTypes, RecordAnswer(k, c, type)
      PROVE  actions' \in SUBSET ActionType
  <2>1. sendVersion[k] \in Versions
    BY <1>1 DEF RecordAnswer, OpenOffer, TypeOK
  <2>2. [version |-> sendVersion[k], key |-> k, channel |-> c, type |-> type] \in ActionType
    BY <2>1 DEF ActionType
  <2> QED
    BY <1>1, <2>2 DEF RecordAnswer, TypeOK
<1>2. ASSUME NEW k \in Keys, NEW c \in Channels, NEW type \in ActionTypes, Respond(k, c, type)
      PROVE  TypeOK'
  BY <1>1, <1>2 DEF Respond, TypeOK, Statuses
<1>3. ASSUME NEW k \in Keys, NEW c \in Channels, RequestChange(k, c)
      PROVE  TypeOK'
  <2>1. "REQUEST_CHANGE" \in ActionTypes
    BY DEF ActionTypes
  <2>2. actions' \in SUBSET ActionType
    BY <1>1, <1>3, <2>1 DEF RequestChange
  <2>3. OpenVersion
    BY <1>3 DEF RequestChange
  <2>4. status' \in Statuses /\ batch' \in BOOLEAN
    BY <1>3 DEF RequestChange, Statuses
  <2> QED
    BY <1>3, <2>2, <2>3, <2>4, OpenVersionType DEF RequestChange, TypeOK
<1>4. CASE Reply
  BY <1>4 DEF Reply, TypeOK
<1> QED
  BY <1>2, <1>3, <1>4 DEF CustomerNext

LEMMA TypeStep == TypeOK /\ [Next]_vars => TypeOK'
<1> SUFFICES ASSUME TypeOK, [Next]_vars PROVE TypeOK'
  OBVIOUS
<1> USE DEF quoteVars, versionVars, sendVars, clientVars, serverVars
<1>1. CASE SellerNext
  BY <1>1, SellerType
<1>2. CASE \E r \in Requests : ServeNext(r)
  BY <1>2, ServeType
<1>3. CASE CustomerNext
  BY <1>3, CustomerType
<1>4. CASE AutoArchive
  BY <1>4 DEF AutoArchive, TypeOK
<1>5. CASE HandleBatch
  <2>1. status' \in Statuses /\ batch' \in BOOLEAN
    BY <1>5 DEF HandleBatch, Statuses
  <2>2. CASE current \in frozen
    <3>1. OpenVersion
      BY <1>5, <2>2 DEF HandleBatch
    <3> QED
      BY <1>5, <2>1, <3>1, OpenVersionType DEF HandleBatch, TypeOK
  <2>3. CASE current \notin frozen
    BY <1>5, <2>1, <2>3 DEF HandleBatch, TypeOK
  <2> QED
    BY <2>2, <2>3
<1>6. CASE RefuseBatch
  BY <1>6 DEF RefuseBatch, TypeOK
<1>7. CASE LoseDeliveryLock \/ LoseRepresentationLock
  BY <1>7 DEF LoseDeliveryLock, LoseRepresentationLock, TypeOK
<1>8. CASE \E k \in Keys : Lapse(k)
  BY <1>8 DEF Lapse, TypeOK
<1>9. CASE UNCHANGED vars
  BY <1>9 DEF vars, TypeOK
<1>10. ASSUME NEW s \in Sweeps, FoldReads(s) \/ FoldEnds(s) PROVE TypeOK'
  BY <1>10 DEF FoldReads, FoldEnds, TypeOK
<1>11. ASSUME NEW s \in Sweeps, FoldVersion(s) PROVE TypeOK'
  <2>1. OpenVersion
    BY <1>11 DEF FoldVersion
  <2> QED
    BY <1>11, <2>1, OpenVersionType DEF FoldVersion, TypeOK
<1> QED
  BY <1>1, <1>2, <1>3, <1>4, <1>5, <1>6, <1>7, <1>8, <1>9, <1>10, <1>11 DEF Next

(* Every variable keeps the shape its rows and records have in the program. *)
THEOREM TypeCorrect == Spec => []TypeOK
<1> QED
  BY TypeInit, TypeStep, PTL DEF Spec

-----------------------------------------------------------------------------
(* What each action can disturb. A variable or a group of variables that a   *)
(* step changes was changed by one of the actions named here.                *)

SetsContent == EditLines \/ AcceptMaterials
OpensDraft ==
  \/ ReactivateForEdit
  \/ \E k \in Keys, c \in Channels : RequestChange(k, c)
  \/ HandleBatch /\ current \in frozen
FoldsLate == \E s \in Sweeps : FoldVersion(s)
Answers ==
  \E k \in Keys, c \in Channels, type \in ActionTypes :
    RecordAnswer(k, c, type) /\ (Respond(k, c, type) \/ RequestChange(k, c))

Frame ==
  /\ \/ UNCHANGED <<current, versions, frozen, content>>
     \/ SetsContent \/ OpensDraft \/ FoldsLate
     \/ \E r \in Requests : Freeze(r)
  /\ \/ UNCHANGED representation
     \/ \E r \in Requests : CreateRepresentation(r)
  /\ \/ UNCHANGED sendVersion
     \/ \E r \in Requests : PrepareNew(r)
  /\ \/ UNCHANGED tracking
     \/ \E r \in Requests : PrepareNew(r) \/ Commit(r)
  /\ UNCHANGED actions \/ Answers
  /\ UNCHANGED request \/ \E r \in Requests : ServeNext(r)
  /\ \/ UNCHANGED status
     \/ AcceptMaterials \/ \E to \in Statuses : Transition(to)
     \/ ReactivateForResend \/ OpensDraft \/ Answers
     \/ HandleBatch
     \/ \E r \in Requests : Commit(r)
  /\ \/ UNCHANGED <<paid, invoiced>>
     \/ HoldInvoice \/ ReleaseInvoice \/ \E mark \in BOOLEAN : SetPaid(mark)

LEMMA StepFrame == [Next]_vars => Frame
<1> SUFFICES ASSUME [Next]_vars PROVE Frame
  OBVIOUS
<1> USE DEF quoteVars, versionVars, sendVars, clientVars, serverVars
<1>1. CASE SellerNext
  <2>1. CASE EditLines
    BY <2>1 DEF EditLines, Frame, SetsContent
  <2>2. CASE AcceptMaterials
    BY <2>2 DEF AcceptMaterials, Frame, SetsContent
  <2>3. CASE \E to \in Statuses : Transition(to)
    BY <2>3 DEF Transition, Frame
  <2>4. CASE ReactivateForResend
    BY <2>4 DEF ReactivateForResend, Frame
  <2>5. CASE ReactivateForEdit
    BY <2>5 DEF ReactivateForEdit, OpenVersion, Frame, OpensDraft
  <2>6. CASE Archive \/ Unarchive
    BY <2>6 DEF Archive, Unarchive, Frame
  <2>7. CASE \E mark \in BOOLEAN : SetPaid(mark)
    BY <2>7 DEF SetPaid, Frame
  <2>8. CASE HoldInvoice \/ ReleaseInvoice
    BY <2>8 DEF HoldInvoice, ReleaseInvoice, Frame
  <2> QED
    BY <1>1, <2>1, <2>2, <2>3, <2>4, <2>5, <2>6, <2>7, <2>8 DEF SellerNext
<1>2. ASSUME NEW r \in Requests, ServeNext(r) PROVE Frame
  <2>1. CASE \E k \in Keys, chosen \in SUBSET External : StartSend(r, k, chosen)
    BY <1>2, <2>1 DEF StartSend, Frame
  <2>2. CASE StartGenerate(r)
    BY <1>2, <2>2 DEF StartGenerate, Frame
  <2>3. CASE Represented(r)
    BY <1>2, <2>3 DEF Represented, Frame
  <2>4. CASE Freeze(r)
    BY <1>2, <2>4 DEF Freeze, Frame
  <2>5. CASE CreateRepresentation(r)
    BY <1>2, <2>5 DEF CreateRepresentation, Frame
  <2>6. CASE PrepareNew(r)
    BY <1>2, <2>6 DEF PrepareNew, Frame
  <2>7. CASE PrepareReplay(r)
    BY <1>2, <2>7 DEF PrepareReplay, Frame
  <2>8. CASE Dispatch(r)
    BY <1>2, <2>8 DEF Dispatch, Frame
  <2>9. CASE Commit(r)
    BY <1>2, <2>9 DEF Commit, Frame
  <2>10. CASE Abandon(r)
    BY <1>2, <2>10 DEF Abandon, Frame
  <2> QED
    BY <1>2, <2>1, <2>2, <2>3, <2>4, <2>5, <2>6, <2>7, <2>8, <2>9, <2>10 DEF ServeNext
<1>3. CASE CustomerNext
  <2>1. ASSUME NEW k \in Keys, NEW c \in Channels, NEW type \in ActionTypes, Respond(k, c, type)
        PROVE  Frame
    <3>1. Answers
      BY <2>1 DEF Answers, Respond
    <3> QED
      BY <2>1, <3>1 DEF Respond, Frame
  <2>2. ASSUME NEW k \in Keys, NEW c \in Channels, RequestChange(k, c)
        PROVE  Frame
    <3>1. Answers
      BY <2>2 DEF Answers, RequestChange, ActionTypes
    <3>2. OpensDraft
      BY <2>2 DEF OpensDraft
    <3> QED
      BY <2>2, <3>1, <3>2 DEF RequestChange, OpenVersion, Frame
  <2>3. CASE Reply
    BY <2>3 DEF Reply, Frame
  <2> QED
    BY <1>3, <2>1, <2>2, <2>3 DEF CustomerNext
<1>4. CASE AutoArchive
  BY <1>4 DEF AutoArchive, Frame
<1>5. CASE HandleBatch
  BY <1>5 DEF HandleBatch, OpenVersion, Frame, OpensDraft
<1>6. CASE RefuseBatch
  BY <1>6 DEF RefuseBatch, Frame
<1>7. CASE LoseDeliveryLock \/ LoseRepresentationLock
  BY <1>7 DEF LoseDeliveryLock, LoseRepresentationLock, Frame
<1>8. CASE \E k \in Keys : Lapse(k)
  BY <1>8 DEF Lapse, Frame
<1>9. CASE UNCHANGED vars
  BY <1>9 DEF vars, Frame
<1>10. ASSUME NEW s \in Sweeps, FoldReads(s) \/ FoldEnds(s) PROVE Frame
  BY <1>10 DEF FoldReads, FoldEnds, Frame
<1>11. ASSUME NEW s \in Sweeps, FoldVersion(s) PROVE Frame
  BY <1>11 DEF FoldVersion, OpenVersion, Frame, FoldsLate
<1> QED
  BY <1>1, <1>2, <1>3, <1>4, <1>5, <1>6, <1>7, <1>8, <1>9, <1>10, <1>11 DEF Next

-----------------------------------------------------------------------------
(* Versions: what is frozen stays as it is, and drafts come one at a time *)

(* The three ways of reopening a quote clone the current version and leave the *)
(* quote waiting for the seller, on a sale that was not settled.             *)
LEMMA DraftOpens ==
  ASSUME OpensDraft
  PROVE  /\ OpenVersion /\ status' = "CHANGE_REQUESTED"
         /\ UNCHANGED <<paid, invoiced>>
         /\ status \in {"SENT", "CHANGE_REQUESTED"} \/ (~paid /\ ~invoiced)
<1>1. CASE ReactivateForEdit
  BY <1>1 DEF ReactivateForEdit, MayReactivate
<1>2. CASE \E k \in Keys, c \in Channels : RequestChange(k, c)
  BY <1>2 DEF RequestChange, RecordAnswer, OpenOffer
<1>3. CASE HandleBatch /\ current \in frozen
  BY <1>3 DEF HandleBatch
<1> QED
  BY <1>1, <1>2, <1>3 DEF OpensDraft

(* The sweep's opens a version too, and leaves the rest as it is. *)
LEMMA LateVersionOpens ==
  ASSUME FoldsLate
  PROVE  OpenVersion /\ UNCHANGED <<status, paid, invoiced>>
BY DEF FoldsLate, FoldVersion

LEMMA FrozenStays ==
  ASSUME TypeOK, FrozenExists, [Next]_vars
  PROVE  frozen \subseteq frozen' /\ \A v \in frozen : content'[v] = content[v]
<1> Frame
  BY StepFrame
<1>1. CASE UNCHANGED <<current, versions, frozen, content>>
  BY <1>1
<1>2. CASE SetsContent
  <2>1. Mutable(current) /\ frozen' = frozen /\ \E c \in Contents : WriteContent(current, c)
    BY <1>2 DEF SetsContent, EditLines, AcceptMaterials
  <2> QED
    BY <2>1 DEF Mutable, WriteContent, TypeOK
<1>3. CASE OpensDraft \/ FoldsLate
  <2>1. OpenVersion
    BY <1>3, DraftOpens, LateVersionOpens
  <2>2. current + 1 \notin frozen
    BY <2>1 DEF OpenVersion, FrozenExists
  <2> QED
    BY <2>1, <2>2 DEF OpenVersion, WriteContent, TypeOK
<1>4. CASE \E r \in Requests : Freeze(r)
  BY <1>4 DEF Freeze
<1> QED
  BY <1>1, <1>2, <1>3, <1>4 DEF Frame

LEMMA NewestStep ==
  ASSUME TypeOK, OnlyTheNewestIsDraft, FrozenExists, [Next]_vars
  PROVE  OnlyTheNewestIsDraft' /\ FrozenExists'
<1> Frame
  BY StepFrame
<1> USE DEF OnlyTheNewestIsDraft, FrozenExists
<1>1. CASE UNCHANGED <<current, versions, frozen, content>>
  BY <1>1
<1>2. CASE SetsContent
  BY <1>2 DEF SetsContent, EditLines, AcceptMaterials, quoteVars
<1>3. CASE OpensDraft \/ FoldsLate
  <2>1. OpenVersion
    BY <1>3, DraftOpens, LateVersionOpens
  <2>2. 1..(current + 1) = (1..current) \cup {current + 1}
    BY DEF TypeOK, Versions
  <2> QED
    BY <2>1, <2>2 DEF OpenVersion
<1>4. CASE \E r \in Requests : Freeze(r)
  <2>1. current \in 1..current
    BY DEF TypeOK, Versions
  <2> QED
    BY <1>4, <2>1 DEF Freeze, quoteVars
<1> QED
  BY <1>1, <1>2, <1>3, <1>4 DEF Frame

(* A quote that waits for the seller keeps its draft: a version is frozen   *)
(* only in QUOTED, and what leads back to the seller brings a draft along.  *)
LEMMA WorkStep ==
  ASSUME TypeOK, OnlyTheNewestIsDraft, FrozenExists, WorkHasDraft, [Next]_vars
  PROVE  WorkHasDraft'
<1> Frame
  BY StepFrame
<1> USE DEF WorkHasDraft, Mutable
<1>1. CASE OpensDraft \/ FoldsLate
  <2>1. OpenVersion
    BY <1>1, DraftOpens, LateVersionOpens
  <2>2. current + 1 \notin frozen
    BY <2>1 DEF OpenVersion, FrozenExists
  <2> QED
    BY <2>1, <2>2 DEF OpenVersion
<1>2. CASE SetsContent
  BY <1>2 DEF SetsContent, EditLines, AcceptMaterials, quoteVars
<1>3. CASE \E r \in Requests : Freeze(r)
  BY <1>3 DEF Freeze, quoteVars
<1>4. CASE UNCHANGED <<current, versions, frozen, content>> /\ ~OpensDraft
  <2>1. CASE UNCHANGED status
    BY <1>4, <2>1
  <2>2. CASE AcceptMaterials
    BY <2>2 DEF AcceptMaterials
  <2>3. CASE \E to \in Statuses : Transition(to)
    BY <2>3 DEF Transition, SellerTransitions
  <2>4. CASE ReactivateForResend
    BY <2>4 DEF ReactivateForResend
  <2>5. CASE Answers
    <3>1. PICK k \in Keys, c \in Channels, type \in ActionTypes :
            Respond(k, c, type) \/ RequestChange(k, c)
      BY <2>5 DEF Answers
    <3>2. ~RequestChange(k, c)
      BY <1>4 DEF OpensDraft
    <3> QED
      BY <3>1, <3>2 DEF Respond
  <2>6. CASE HandleBatch
    <3>1. current \in 1..current
      BY DEF TypeOK, Versions
    <3> QED
      BY <1>4, <2>6, <3>1 DEF HandleBatch, OpensDraft, OnlyTheNewestIsDraft
  <2>7. CASE \E r \in Requests : Commit(r)
    BY <2>7 DEF Commit
  <2> QED
    BY <1>4, <2>1, <2>2, <2>3, <2>4, <2>5, <2>6, <2>7 DEF Frame
<1> QED
  BY <1>1, <1>2, <1>3, <1>4 DEF Frame

-----------------------------------------------------------------------------
(* Requests in flight: where each phase comes from *)

LEMMA OthersWait ==
  ASSUME TypeOK, NEW r \in Requests, NEW other \in Requests \ {r}, ServeNext(r)
  PROVE  request'[other] = request[other]
<1>1. ASSUME NEW f, Advance(r, f) PROVE request'[other] = request[other]
  BY <1>1 DEF Advance, TypeOK
<1>2. \E f : Advance(r, f)
  BY DEF ServeNext, StartSend, StartGenerate, Represented, Freeze, CreateRepresentation,
         PrepareNew, PrepareReplay, Dispatch, Commit, Abandon, Finish
<1> QED
  BY <1>1, <1>2

PhaseStep(r) ==
  \/ request'[r] = request[r]
  \/ request'[r].pc \in {"idle", "ensure"}
  \/ /\ Freeze(r) /\ request'[r].pc = "render"
     /\ request'[r].version = current /\ request'[r].source = content[current]
  \/ Represented(r) /\ request'[r].pc = "prepare" /\ request'[r].version = current
  \/ /\ CreateRepresentation(r)
     /\ request'[r].pc = "prepare" /\ request'[r].version = request[r].version
  \/ /\ request[r].pc \in {"prepare", "dispatch"} /\ request'[r].pc \in {"dispatch", "commit"}
     /\ request'[r].version = request[r].version

LEMMA ServePhase == ASSUME TypeOK, NEW r \in Requests, ServeNext(r) PROVE PhaseStep(r)
<1> request[r] \in RequestType /\ request \in [Requests -> RequestType]
  BY DEF TypeOK
<1>1. ASSUME NEW f, Advance(r, f) PROVE request'[r] = f
  BY <1>1 DEF Advance
<1>2. Finish(r) => request'[r].pc = "idle"
  BY <1>1 DEF Finish, Idle
<1>3. ASSUME NEW k \in Keys, NEW chosen \in SUBSET External, StartSend(r, k, chosen)
      PROVE  request'[r].pc = "ensure"
  BY <1>1, <1>3 DEF StartSend, Idle
<1>4. CASE StartGenerate(r)
  BY <1>1, <1>4 DEF StartGenerate, Idle, PhaseStep
<1>5. CASE Represented(r)
  BY <1>1, <1>2, <1>5 DEF Represented, Step, RequestType, PhaseStep
<1>6. CASE Freeze(r)
  BY <1>1, <1>6 DEF Freeze, Step, RequestType, PhaseStep
<1>7. CASE CreateRepresentation(r)
  BY <1>1, <1>2, <1>7 DEF CreateRepresentation, Step, RequestType, PhaseStep
<1>8. CASE PrepareNew(r)
  BY <1>1, <1>8 DEF PrepareNew, MayPrepare, Step, RequestType, PhaseStep
<1>9. CASE PrepareReplay(r)
  BY <1>1, <1>2, <1>9 DEF PrepareReplay, MayPrepare, Step, RequestType, PhaseStep
<1>10. CASE Dispatch(r)
  BY <1>1, <1>10 DEF Dispatch, Step, RequestType, PhaseStep
<1>11. CASE Commit(r) \/ Abandon(r)
  BY <1>2, <1>11 DEF Commit, Abandon, PhaseStep
<1> QED
  BY <1>3, <1>4, <1>5, <1>6, <1>7, <1>8, <1>9, <1>10, <1>11 DEF ServeNext, PhaseStep

LEMMA RequestMoves ==
  ASSUME TypeOK, [Next]_vars, NEW r \in Requests
  PROVE  PhaseStep(r)
<1> Frame
  BY StepFrame
<1>1. CASE UNCHANGED request
  BY <1>1 DEF PhaseStep
<1>2. ASSUME NEW other \in Requests, ServeNext(other) PROVE PhaseStep(r)
  <2>1. CASE other = r
    BY <1>2, <2>1, ServePhase
  <2>2. CASE other # r
    BY <1>2, <2>2, OthersWait DEF PhaseStep
  <2> QED
    BY <2>1, <2>2
<1> QED
  BY <1>1, <1>2 DEF Frame

-----------------------------------------------------------------------------
(* Representations: what is stored and sent is the frozen version's content *)

(* A snapshot is stored once, of the source that the request in Ensure read. *)
LEMMA SnapshotIsRendered ==
  ASSUME TypeOK, [Next]_vars, NEW v \in Versions, representation'[v] # representation[v]
  PROVE  /\ representation[v] = NoContent /\ v \in frozen
         /\ \E r \in Requests : /\ request[r].pc = "render" /\ request[r].version = v
                                /\ representation'[v] = request[r].source
<1> Frame
  BY StepFrame
<1>1. PICK r \in Requests : CreateRepresentation(r)
  BY DEF Frame
<1> QED
  BY <1>1 DEF CreateRepresentation, TypeOK

LEMMA SnapshotStays ==
  ASSUME TypeOK, [Next]_vars, NEW v \in Versions, representation[v] # NoContent
  PROVE  representation'[v] = representation[v]
BY SnapshotIsRendered

LEMMA SnapshotStep ==
  ASSUME TypeOK, FrozenExists, SnapshotFaithful, RendersTheFrozenSource, [Next]_vars
  PROVE  SnapshotFaithful'
<1> SUFFICES ASSUME NEW v \in Versions, representation'[v] # NoContent
             PROVE  v \in frozen' /\ representation'[v] = content'[v]
  BY DEF SnapshotFaithful
<1>1. frozen \subseteq frozen' /\ \A w \in frozen : content'[w] = content[w]
  BY FrozenStays
<1>2. CASE representation'[v] = representation[v]
  BY <1>1, <1>2 DEF SnapshotFaithful
<1>3. CASE representation'[v] # representation[v]
  <2>1. PICK r \in Requests : /\ request[r].pc = "render" /\ request[r].version = v
                              /\ representation'[v] = request[r].source
    BY <1>3, SnapshotIsRendered
  <2>2. v \in frozen /\ request[r].source = content[v]
    BY <2>1 DEF RendersTheFrozenSource
  <2> QED
    BY <1>1, <2>1, <2>2
<1> QED
  BY <1>2, <1>3

(* A request renders what it read when it froze the version, whatever runs  *)
(* in between: nothing writes a frozen version.                             *)
LEMMA RenderStep ==
  ASSUME TypeOK, FrozenExists, RendersTheFrozenSource, [Next]_vars
  PROVE  RendersTheFrozenSource'
<1> SUFFICES ASSUME NEW r \in Requests, request'[r].pc = "render"
             PROVE  /\ request'[r].version \in frozen'
                    /\ request'[r].source = content'[request'[r].version]
  BY DEF RendersTheFrozenSource
<1>1. frozen \subseteq frozen' /\ \A w \in frozen : content'[w] = content[w]
  BY FrozenStays
<1>2. PhaseStep(r)
  BY RequestMoves
<1>3. CASE request'[r] = request[r]
  BY <1>1, <1>3 DEF RendersTheFrozenSource
<1>4. CASE /\ Freeze(r)
           /\ request'[r].version = current /\ request'[r].source = content[current]
  BY <1>4 DEF Freeze
<1> QED
  BY <1>2, <1>3, <1>4 DEF PhaseStep

LEMMA DispatchStep ==
  ASSUME TypeOK, RendersTheFrozenSource, DispatchesARepresentation, [Next]_vars
  PROVE  DispatchesARepresentation'
<1> SUFFICES ASSUME NEW r \in Requests, request'[r].pc \in {"prepare", "dispatch", "commit"}
             PROVE  /\ request'[r].version \in Versions
                    /\ representation'[request'[r].version] # NoContent
  BY DEF DispatchesARepresentation
<1>1. \A v \in Versions : representation[v] # NoContent => representation'[v] # NoContent
  BY SnapshotStays
<1>2. PhaseStep(r)
  BY RequestMoves
<1>3. CASE /\ request[r].pc \in {"prepare", "dispatch", "commit"}
           /\ request'[r].version = request[r].version
  BY <1>1, <1>3 DEF DispatchesARepresentation
<1>4. CASE Represented(r) /\ request'[r].version = current
  BY <1>1, <1>4 DEF Represented, TypeOK
<1>5. CASE CreateRepresentation(r) /\ request'[r].version = request[r].version
  <2>1. request[r].version \in Versions /\ request[r].source \in Contents
    BY <1>5 DEF CreateRepresentation, RendersTheFrozenSource, TypeOK
  <2> QED
    BY <1>5, <2>1, DeliveryAssumption DEF CreateRepresentation, TypeOK
<1> QED
  BY <1>2, <1>3, <1>4, <1>5 DEF PhaseStep

LEMMA SendsStep ==
  ASSUME TypeOK, DispatchesARepresentation, SendsAreRepresented, [Next]_vars
  PROVE  SendsAreRepresented'
<1> SUFFICES ASSUME NEW k \in Keys, sendVersion'[k] # 0
             PROVE  representation'[sendVersion'[k]] # NoContent
  BY DEF SendsAreRepresented
<1> Frame
  BY StepFrame
<1>1. \A v \in Versions : representation[v] # NoContent => representation'[v] # NoContent
  BY SnapshotStays
<1>2. CASE sendVersion'[k] = sendVersion[k]
  BY <1>1, <1>2 DEF SendsAreRepresented, TypeOK
<1>3. CASE sendVersion'[k] # sendVersion[k]
  <2>1. PICK r \in Requests : PrepareNew(r)
    BY <1>3 DEF Frame
  <2>2. sendVersion'[k] = current
    BY <1>3, <2>1 DEF PrepareNew, TypeOK
  <2>3. representation[current] # NoContent
    BY <2>1 DEF PrepareNew, MayPrepare, DispatchesARepresentation
  <2> QED
    BY <1>1, <2>2, <2>3 DEF TypeOK
<1> QED
  BY <1>2, <1>3

-----------------------------------------------------------------------------
(* Sends: a key gets its version once, and its rows their outcome once *)

LEMMA VersionOfSendStays ==
  ASSUME TypeOK, [Next]_vars, NEW k \in Keys, sendVersion[k] # 0
  PROVE  sendVersion'[k] = sendVersion[k]
<1> Frame
  BY StepFrame
<1>1. ASSUME NEW r \in Requests, PrepareNew(r) PROVE sendVersion'[k] = sendVersion[k]
  BY <1>1 DEF PrepareNew, TypeOK
<1> QED
  BY <1>1 DEF Frame

(* Two requests may serve the same key: the second to confirm finds no row  *)
(* PENDING and conflicts, the second to prepare finds the rows of the first.*)
LEMMA OutcomeStays ==
  ASSUME TypeOK, RowsAreOfASend, [Next]_vars, NEW k \in Keys, NEW c \in Channels,
         tracking[k][c] \in {"SENT", "FAILED"}
  PROVE  tracking'[k][c] = tracking[k][c]
<1> Frame
  BY StepFrame
<1>1. ASSUME NEW r \in Requests, PrepareNew(r) PROVE tracking'[k] = tracking[k]
  <2>1. sendVersion[k] # 0
    BY DEF RowsAreOfASend, Selected
  <2> QED
    BY <1>1, <2>1 DEF PrepareNew, TypeOK
<1>2. ASSUME NEW r \in Requests, Commit(r) PROVE tracking'[k][c] = tracking[k][c]
  BY <1>2 DEF Commit, CompleteBatch, TypeOK
<1> QED
  BY <1>1, <1>2 DEF Frame

LEMMA RowsStep ==
  ASSUME TypeOK, RowsAreOfASend, [Next]_vars
  PROVE  RowsAreOfASend'
<1> SUFFICES ASSUME NEW k \in Keys, sendVersion'[k] = 0, NEW c \in Channels
             PROVE  tracking'[k][c] = "NONE"
  BY DEF RowsAreOfASend, Selected
<1> Frame
  BY StepFrame
<1>1. sendVersion[k] = 0
  BY VersionOfSendStays
<1>2. tracking[k][c] = "NONE"
  BY <1>1 DEF RowsAreOfASend, Selected
<1>3. ASSUME NEW r \in Requests, PrepareNew(r) PROVE tracking'[k] = tracking[k]
  <2>1. CASE request[r].key = k
    <3>1. sendVersion'[k] = current /\ current # 0
      BY <1>3, <2>1 DEF PrepareNew, TypeOK, Versions
    <3> QED
      BY <3>1
  <2>2. CASE request[r].key # k
    BY <1>3, <2>2 DEF PrepareNew, TypeOK
  <2> QED
    BY <2>1, <2>2
<1>4. ASSUME NEW r \in Requests, Commit(r) PROVE tracking'[k][c] = tracking[k][c]
  BY <1>2, <1>4 DEF Commit, CompleteBatch, TypeOK
<1> QED
  BY <1>2, <1>3, <1>4 DEF Frame

-----------------------------------------------------------------------------
(* Answers *)

(* An answer is new for its version, and given to the version the quote shows *)
(* through a completed send of it.                                            *)
LEMMA AnswerIsNew ==
  ASSUME TypeOK, [Next]_vars, NEW a \in actions', a \notin actions
  PROVE  /\ actions' = actions \cup {a} /\ \A b \in actions : b.version # a.version
         /\ a.key \in Keys /\ a.channel \in Channels
         /\ Delivered(a.key, a.channel) /\ a.version = sendVersion[a.key]
         /\ a.version = current
<1> Frame
  BY StepFrame
<1>1. PICK k \in Keys, c \in Channels, type \in ActionTypes : RecordAnswer(k, c, type)
  BY DEF Frame, Answers
<1>2. a = [version |-> sendVersion[k], key |-> k, channel |-> c, type |-> type]
  BY <1>1 DEF RecordAnswer
<1> QED
  BY <1>1, <1>2 DEF RecordAnswer, Answered, OpenOffer, ActiveLink

LEMMA OneAnswerStep ==
  ASSUME TypeOK, OneAnswerPerVersion, [Next]_vars
  PROVE  OneAnswerPerVersion'
<1> SUFFICES ASSUME NEW a \in actions', NEW b \in actions', a.version = b.version
             PROVE  a = b
  BY DEF OneAnswerPerVersion
<1>1. CASE a \in actions /\ b \in actions
  BY <1>1 DEF OneAnswerPerVersion
<1>2. CASE a \notin actions \/ b \notin actions
  BY <1>2, AnswerIsNew
<1> QED
  BY <1>1, <1>2

LEMMA ShownStep ==
  ASSUME TypeOK, RowsAreOfASend, SendsAreRepresented, SnapshotFaithful',
         AnswersAddressWhatWasShown, [Next]_vars
  PROVE  AnswersAddressWhatWasShown'
<1> SUFFICES ASSUME NEW a \in actions'
             PROVE  /\ Delivered(a.key, a.channel)' /\ sendVersion'[a.key] = a.version
                    /\ representation'[a.version] = content'[a.version]
  BY DEF AnswersAddressWhatWasShown
<1>1. a.key \in Keys /\ a.channel \in Channels /\ a.version \in Versions
  BY AnswerIsNew DEF TypeOK, ActionType
<1>2. Delivered(a.key, a.channel) /\ sendVersion[a.key] = a.version
  BY AnswerIsNew DEF AnswersAddressWhatWasShown
<1>3. a.version # 0
  BY <1>1 DEF Versions
<1>4. sendVersion'[a.key] = a.version
  BY <1>1, <1>2, <1>3, VersionOfSendStays
<1>5. Delivered(a.key, a.channel)'
  BY <1>1, <1>2, OutcomeStays DEF Delivered
<1>6. representation'[a.version] # NoContent
  BY <1>1, <1>2, <1>3, SnapshotStays DEF SendsAreRepresented
<1> QED
  BY <1>1, <1>4, <1>5, <1>6 DEF SnapshotFaithful

-----------------------------------------------------------------------------
(* The sale *)

(* A settled sale leaves ACCEPTED only by a reactivation, which refuses it. *)
LEMMA SaleStep ==
  ASSUME TypeOK, StandingSaleIsAccepted, [Next]_vars
  PROVE  StandingSaleIsAccepted'
<1> Frame
  BY StepFrame
<1> USE DEF StandingSaleIsAccepted
<1>1. CASE HoldInvoice \/ ReleaseInvoice \/ \E mark \in BOOLEAN : SetPaid(mark)
  BY <1>1 DEF HoldInvoice, ReleaseInvoice, SetPaid
<1>2. CASE UNCHANGED <<paid, invoiced>>
  <2>1. CASE UNCHANGED status
    BY <1>2, <2>1
  <2>2. CASE AcceptMaterials
    BY <1>2, <2>2 DEF AcceptMaterials
  <2>3. CASE \E to \in Statuses : Transition(to)
    BY <1>2, <2>3 DEF Transition, SellerTransitions
  <2>4. CASE ReactivateForResend
    BY <1>2, <2>4 DEF ReactivateForResend, MayReactivate
  <2>5. CASE OpensDraft
    BY <1>2, <2>5, DraftOpens
  <2>6. CASE Answers
    BY <1>2, <2>6 DEF Answers, RecordAnswer, OpenOffer
  <2>7. CASE HandleBatch
    BY <1>2, <2>7 DEF HandleBatch
  <2>8. CASE \E r \in Requests : Commit(r)
    BY <1>2, <2>8 DEF Commit
  <2> QED
    BY <2>1, <2>2, <2>3, <2>4, <2>5, <2>6, <2>7, <2>8 DEF Frame
<1> QED
  BY <1>1, <1>2 DEF Frame

-----------------------------------------------------------------------------
(* The inductive invariant *)

LEMMA InvInit == Init => IInv
<1> SUFFICES ASSUME Init PROVE IInv
  OBVIOUS
<1>1. TypeOK
  BY TypeInit
<1>2. OnlyTheNewestIsDraft /\ FrozenExists /\ WorkHasDraft
  BY DEF Init, OnlyTheNewestIsDraft, FrozenExists, WorkHasDraft, Mutable
<1>3. SnapshotFaithful /\ SendsAreRepresented /\ RowsAreOfASend
  BY DEF Init, SnapshotFaithful, SendsAreRepresented, RowsAreOfASend, Selected
<1>4. RendersTheFrozenSource /\ DispatchesARepresentation
  BY DEF Init, Idle, RendersTheFrozenSource, DispatchesARepresentation
<1>5. OneAnswerPerVersion /\ AnswersAddressWhatWasShown /\ StandingSaleIsAccepted
  BY DEF Init, OneAnswerPerVersion, AnswersAddressWhatWasShown, StandingSaleIsAccepted
<1> QED
  BY <1>1, <1>2, <1>3, <1>4, <1>5 DEF IInv

LEMMA InvStep == IInv /\ [Next]_vars => IInv'
<1> SUFFICES ASSUME IInv, [Next]_vars PROVE IInv'
  OBVIOUS
<1> USE DEF IInv
<1>1. TypeOK'
  BY TypeStep
<1>2. OnlyTheNewestIsDraft' /\ FrozenExists' /\ WorkHasDraft'
  BY NewestStep, WorkStep
<1>3. SnapshotFaithful'
  BY SnapshotStep
<1>4. RendersTheFrozenSource' /\ DispatchesARepresentation'
  BY RenderStep, DispatchStep
<1>5. SendsAreRepresented' /\ RowsAreOfASend'
  BY SendsStep, RowsStep
<1>6. OneAnswerPerVersion' /\ AnswersAddressWhatWasShown'
  BY <1>3, OneAnswerStep, ShownStep
<1>7. StandingSaleIsAccepted'
  BY SaleStep
<1> QED
  BY <1>1, <1>2, <1>3, <1>4, <1>5, <1>6, <1>7

(* The conjunction below is inductive: each named part is kept by every step, *)
(* given the others. It is what the deliveries in flight rest on.             *)
THEOREM Invariant == Spec => []IInv
<1> QED
  BY InvInit, InvStep, PTL DEF Spec

(* What is stored for a version is the version, and the version is frozen,   *)
(* whatever edits, clones and other requests run between Ensure's steps.     *)
THEOREM SnapshotsAreFaithful == Spec => []SnapshotFaithful
<1>1. IInv => SnapshotFaithful
  BY DEF IInv
<1> QED
  BY <1>1, Invariant, PTL

(* Version numbers are contiguous, and no draft is left behind a newer one:  *)
(* the unique indexes on quote_version are never what keeps them apart.      *)
THEOREM DraftsComeOneAtATime == Spec => []OnlyTheNewestIsDraft
<1>1. IInv => OnlyTheNewestIsDraft
  BY DEF IInv
<1> QED
  BY <1>1, Invariant, PTL

(* A quote that waits for its seller has a draft to accept.                  *)
THEOREM WorkIsNeverStuck == Spec => []WorkHasDraft
<1>1. IInv => WorkHasDraft
  BY DEF IInv
<1> QED
  BY <1>1, Invariant, PTL

(* Any number of live links, on any number of channels, give a version one   *)
(* answer.                                                                   *)
THEOREM VersionsAreAnsweredOnce == Spec => []OneAnswerPerVersion
<1>1. IInv => OneAnswerPerVersion
  BY DEF IInv
<1> QED
  BY <1>1, Invariant, PTL

(* An answer is filed under the version that its completed send delivered,   *)
(* which still holds what the customer was shown.                            *)
THEOREM AnswersAreAboutWhatWasShown == Spec => []AnswersAddressWhatWasShown
<1>1. IInv => AnswersAddressWhatWasShown
  BY DEF IInv
<1> QED
  BY <1>1, Invariant, PTL

(* A paid or invoiced sale is never moved out of ACCEPTED.                   *)
THEOREM StandingSalesStand == Spec => []StandingSaleIsAccepted
<1>1. IInv => StandingSaleIsAccepted
  BY DEF IInv
<1> QED
  BY <1>1, Invariant, PTL

-----------------------------------------------------------------------------
(* Action properties *)

(* FreezeVersion is for good: no step thaws a version, rewrites its lines or  *)
(* replaces its snapshot.                                                     *)
THEOREM FrozenForGood == Spec => FrozenIsPermanent
<1>1. ASSUME IInv, [Next]_vars
      PROVE  \A v \in frozen : /\ v \in frozen' /\ content'[v] = content[v]
                               /\ representation[v] # NoContent =>
                                    representation'[v] = representation[v]
  <2>1. TypeOK /\ FrozenExists
    BY <1>1 DEF IInv
  <2>2. frozen \subseteq Versions
    BY <2>1 DEF TypeOK
  <2> QED
    BY <1>1, <2>1, <2>2, FrozenStays, SnapshotStays
<1> QED
  BY <1>1, Invariant, PTL DEF Spec, FrozenIsPermanent

(* A lost advisory lock puts two requests on one key, and still the rows of  *)
(* a send get one version and one outcome.                                   *)
THEOREM OutcomesAreFinal == Spec => SendOutcomeIsFinal
<1>1. ASSUME IInv, [Next]_vars
      PROVE  \A k \in Keys :
               /\ sendVersion[k] # 0 => sendVersion'[k] = sendVersion[k]
               /\ \A c \in Channels : tracking[k][c] \in {"SENT", "FAILED"} =>
                    tracking'[k][c] = tracking[k][c]
  BY <1>1, VersionOfSendStays, OutcomeStays DEF IInv
<1> QED
  BY <1>1, Invariant, PTL DEF Spec, SendOutcomeIsFinal

(* While a quote is archived, what one request may do and still write. *)
LEMMA ArchivedServe ==
  ASSUME TypeOK, NEW r \in Requests, ServeNext(r), archived
  PROVE  /\ UNCHANGED <<sendVersion, folding>>
         /\ request'[r].pc \in {"render", "dispatch", "commit"} =>
              /\ request[r].pc \in {"render", "dispatch", "commit"}
              /\ UNCHANGED <<status, current, expiry, versions, representation, tracking>>
         /\ \/ UNCHANGED <<status, current, expiry, versions, representation, tracking>>
            \/ request[r].pc \in {"render", "dispatch", "commit"}
<1> USE DEF quoteVars, versionVars, sendVars, clientVars
<1> request \in [Requests -> RequestType]
  BY DEF TypeOK
<1>1. ASSUME NEW f, Advance(r, f) PROVE request'[r] = f
  BY <1>1 DEF Advance
<1>2. Finish(r) => request'[r].pc = "idle"
  BY <1>1 DEF Finish, Idle
<1>3. ASSUME NEW k \in Keys, NEW chosen \in SUBSET External, StartSend(r, k, chosen)
      PROVE  request'[r].pc = "ensure" /\ UNCHANGED <<sendVars, folding, quoteVars, versionVars>>
  BY <1>1, <1>3 DEF StartSend, Idle
<1>4. CASE StartGenerate(r)
  BY <1>1, <1>4 DEF StartGenerate, Idle
<1>5. CASE Represented(r) \/ Freeze(r) \/ PrepareNew(r) \/ PrepareReplay(r)
  BY <1>5 DEF Represented, Freeze, PrepareNew, PrepareReplay, MayPrepare
<1>6. CASE CreateRepresentation(r)
  <2>1. request'[r].pc \in {"prepare", "idle"}
    BY <1>1, <1>2, <1>6 DEF CreateRepresentation, Step, RequestType
  <2> QED
    BY <1>6, <2>1 DEF CreateRepresentation
<1>7. CASE Dispatch(r)
  BY <1>1, <1>7 DEF Dispatch
<1>8. CASE Commit(r)
  <2>1. request'[r].pc = "idle"
    BY <1>2, <1>8 DEF Commit
  <2> QED
    BY <1>8, <2>1 DEF Commit
<1>9. CASE Abandon(r)
  BY <1>2, <1>9 DEF Abandon
<1> QED
  BY <1>3, <1>4, <1>5, <1>6, <1>7, <1>8, <1>9 DEF ServeNext

(* Nothing that could write to an archived quote begins on it, what had begun *)
(* before writes at most once, and nobody rewrites or freezes a version the   *)
(* quote has, answers or marks a payment.                                     *)
THEOREM ArchivedWritesFinish == Spec => ArchivedOnlyFinishes
<1> USE DEF quoteVars, versionVars, sendVars, clientVars, serverVars
<1> DEFINE Shown == <<status, current, expiry, versions, representation, tracking>>
           Writing(r) == request[r].pc \in {"render", "dispatch", "commit"}
<1>1. ASSUME IInv, [Next]_vars, archived, archived'
      PROVE  /\ UNCHANGED <<frozen, sendVersion, actions, paid>>
             /\ \A v \in versions : content'[v] = content[v]
             /\ Underway' \subseteq Underway
             /\ Underway' # Underway \/ UNCHANGED Shown
  <2> TypeOK /\ OnlyTheNewestIsDraft /\ Frame
    BY <1>1, StepFrame DEF IInv
  <2>1. ~SetsContent /\ ~OpensDraft /\ ~Answers
    BY <1>1 DEF SetsContent, EditLines, AcceptMaterials, OpensDraft, ReactivateForEdit,
                MayReactivate, RequestChange, RecordAnswer, OpenOffer, HandleBatch, Answers
  <2>2. UNCHANGED <<actions, paid>>
    BY <1>1, <2>1 DEF Frame, HoldInvoice, ReleaseInvoice, SetPaid
  <2>3. \A v \in versions : content'[v] = content[v]
    <3>1. CASE FoldsLate
      BY <3>1, LateVersionOpens DEF OpenVersion, WriteContent, TypeOK
    <3> QED
      BY <1>1, <2>1, <3>1 DEF Frame, Freeze
  <2>4. UNCHANGED frozen
    <3>1. CASE FoldsLate
      BY <3>1, LateVersionOpens DEF OpenVersion
    <3> QED
      BY <1>1, <2>1, <3>1 DEF Frame, Freeze
  <2> DEFINE Finishes == /\ UNCHANGED sendVersion
                         /\ Underway' \subseteq Underway
                         /\ Underway' # Underway \/ UNCHANGED Shown
  <2>5. ASSUME NEW r \in Requests, ServeNext(r)
        PROVE  Finishes
    <3>1. \A other \in Requests \ {r} : request'[other] = request[other]
      BY <2>5, OthersWait
    <3>2. /\ UNCHANGED <<sendVersion, folding>>
          /\ Writing(r)' => Writing(r) /\ UNCHANGED Shown
          /\ UNCHANGED Shown \/ Writing(r)
      BY <1>1, <2>5, ArchivedServe
    <3>3. Underway' \subseteq Underway
      BY <3>1, <3>2 DEF Underway
    <3>4. r \notin folding
      BY DeliveryAssumption DEF TypeOK
    <3> QED
      BY <3>2, <3>3, <3>4 DEF Underway
  <2>6. UNCHANGED <<request, folding, sendVersion>> /\ UNCHANGED Shown => Finishes
    BY DEF Underway
  <2>7. SellerNext => Finishes
    BY <1>1, <2>6 DEF SellerNext, EditLines, AcceptMaterials, Transition, ReactivateForResend,
         ReactivateForEdit, MayReactivate, Archive, Unarchive, SetPaid, HoldInvoice, ReleaseInvoice
  <2>8. ~CustomerNext /\ ~AutoArchive /\ ~HandleBatch
    BY <1>1 DEF CustomerNext, Respond, RequestChange, RecordAnswer, OpenOffer, Reply, AutoArchive,
         InactivityDue, ClosedDue, HandleBatch
  <2>9. RefuseBatch \/ LoseDeliveryLock \/ LoseRepresentationLock \/ (\E k \in Keys : Lapse(k))
          => Finishes
    BY <2>6 DEF RefuseBatch, LoseDeliveryLock, LoseRepresentationLock, Lapse
  <2>10. ASSUME NEW s \in Sweeps, FoldReads(s) \/ FoldVersion(s) \/ FoldEnds(s)
         PROVE  Finishes
    <3>1. s \in folding /\ folding' = folding \ {s} /\ UNCHANGED <<request, sendVersion>>
      BY <1>1, <2>10 DEF FoldReads, FoldVersion, FoldEnds
    <3>2. s \notin Requests
      BY DeliveryAssumption
    <3> QED
      BY <3>1, <3>2 DEF Underway
  <2>11. UNCHANGED vars => Finishes
    BY <2>6 DEF vars
  <2>12. Finishes
    <3> HIDE DEF Finishes
    <3>1. (\E r \in Requests : ServeNext(r)) => Finishes
      BY <2>5
    <3>2. (\E s \in Sweeps : FoldReads(s) \/ FoldVersion(s) \/ FoldEnds(s)) => Finishes
      BY <2>10
    <3> QED
      BY <1>1, <2>7, <2>8, <2>9, <2>11, <3>1, <3>2, Zenon DEF Next
  <2> QED
    <3>1. UNCHANGED <<frozen, sendVersion, actions, paid>>
      BY <2>2, <2>4, <2>12
    <3> QED
      BY <2>3, <2>12, <3>1
<1> QED
  BY <1>1, Invariant, PTL DEF Spec, ArchivedOnlyFinishes

-----------------------------------------------------------------------------
(* QuoteDelivery implements QuoteLifecycle *)

LEMMA LifecycleInit == Init => Lifecycle!Init
BY DEF Init, Lifecycle!Init

(* A draft opens in the abstract lifecycle when a version is opened: it is   *)
(* mutable, and one past a version that was not.                             *)
LEMMA VersionIsNextDraft ==
  ASSUME IInv, OpenVersion, current \in frozen
  PROVE  Lifecycle!NextDraft
<1>1. current + 1 \notin frozen
  BY DEF OpenVersion, IInv, FrozenExists
<1> QED
  BY <1>1 DEF OpenVersion, Lifecycle!NextDraft

LEMMA LifecycleStep == IInv /\ [Next]_vars => [Lifecycle!Next]_(Lifecycle!vars)
<1> SUFFICES ASSUME IInv, [Next]_vars, ~ UNCHANGED Lifecycle!vars
             PROVE  Lifecycle!Next
  OBVIOUS
<1> USE DEF Lifecycle!Next, quoteVars, versionVars
<1>0. /\ current \in versions /\ (paid \/ invoiced => status = "ACCEPTED")
      /\ (status \in {"DRAFT", "CHANGE_REQUESTED"} => Mutable(current))
  BY DEF IInv, TypeOK, Versions, OnlyTheNewestIsDraft, StandingSaleIsAccepted, WorkHasDraft
<1>1. CASE AcceptMaterials
  BY <1>1 DEF AcceptMaterials, Mutable, Lifecycle!Price
<1>2. CASE \E to \in Statuses : Transition(to)
  BY <1>2 DEF Transition, SellerTransitions, Lifecycle!Publish, Lifecycle!Answer
<1>3. CASE ReactivateForResend
  BY <1>0, <1>3 DEF ReactivateForResend, MayReactivate, Mutable, Lifecycle!ReopenForResend
<1>4. CASE ReactivateForEdit
  <2>1. Lifecycle!NextDraft
    BY <1>0, <1>4, VersionIsNextDraft DEF ReactivateForEdit, MayReactivate, Mutable
  <2>2. current \in frozen
    BY <1>0, <1>4 DEF ReactivateForEdit, MayReactivate, Mutable
  <2> QED
    BY <1>4, <2>1, <2>2 DEF ReactivateForEdit, MayReactivate, Lifecycle!ReopenForEdit
<1>5. CASE HoldInvoice \/ ReleaseInvoice \/ \E mark \in BOOLEAN : SetPaid(mark)
  BY <1>0, <1>5 DEF HoldInvoice, ReleaseInvoice, SetPaid, Lifecycle!Settle
<1>6. CASE \E r \in Requests : Freeze(r)
  BY <1>6 DEF Freeze, Lifecycle!Freeze
<1>7. CASE \E r \in Requests : Commit(r)
  BY <1>7 DEF Commit, Lifecycle!Publish, Lifecycle!vars
<1>8. ASSUME NEW k \in Keys, NEW c \in Channels, NEW type \in ActionTypes, Respond(k, c, type)
      PROVE  Lifecycle!Next
  BY <1>8 DEF Respond, RecordAnswer, OpenOffer, Lifecycle!Answer
<1>9. ASSUME NEW k \in Keys, NEW c \in Channels, RequestChange(k, c)
      PROVE  Lifecycle!Next
  <2>1. Lifecycle!NextDraft
    BY <1>9, VersionIsNextDraft DEF RequestChange
  <2> QED
    BY <1>9, <2>1 DEF RequestChange, RecordAnswer, OpenOffer, Lifecycle!ChangeRequested
<1>10. CASE HandleBatch
  <2>1. CASE current \in frozen
    <3>1. Lifecycle!NextDraft /\ status = "SENT"
      BY <1>0, <1>10, <2>1, VersionIsNextDraft DEF HandleBatch, Mutable
    <3> QED
      BY <1>10, <3>1 DEF HandleBatch, Lifecycle!ChangeRequested
  <2>2. CASE current \notin frozen
    BY <1>10, <2>2 DEF HandleBatch, Lifecycle!ChangeRequested, Lifecycle!NextDraft, Lifecycle!vars
  <2> QED
    BY <2>1, <2>2
<1>11. CASE FoldsLate
  <2>1. OpenVersion /\ UNCHANGED <<status, paid, invoiced>>
    BY <1>11, LateVersionOpens
  <2>2. current \in frozen
    BY <1>0, <2>1 DEF OpenVersion
  <2> QED
    BY <2>1, <2>2, VersionIsNextDraft DEF Lifecycle!LateDraft
<1> QED
  <2>1. CASE UNCHANGED <<current, frozen, status, paid, invoiced>>
    BY <2>1 DEF Lifecycle!vars
  <2>2. CASE ~ UNCHANGED <<current, frozen, status, paid, invoiced>>
    <3>1. Frame
      BY StepFrame
    <3>2. ~EditLines
      BY <2>2 DEF EditLines
    <3> QED
      BY <1>1, <1>2, <1>3, <1>4, <1>5, <1>6, <1>7, <1>8, <1>9, <1>10, <1>11, <2>2, <3>1, <3>2
      DEF Frame, SetsContent, OpensDraft, Answers
  <2> QED
    BY <2>1, <2>2

(* With its deliveries, locks, links and crashes, the system shows nothing   *)
(* but the lifecycle it promises.                                            *)
THEOREM ImplementsLifecycle == Spec => LifecycleSpec
<1> QED
  BY LifecycleInit, LifecycleStep, Invariant, PTL DEF Spec, LifecycleSpec, Lifecycle!Spec

=============================================================================
