---------------------- MODULE ConversationBatches_proofs ----------------------
(***************************************************************************)
(* Theorems about ConversationBatches, for any number of messages, passes, *)
(* versions and attempts and for any window.                               *)
(***************************************************************************)
EXTENDS ConversationBatches, TLAPS

-----------------------------------------------------------------------------
(* What the transactions are built from *)

LEMMA BoundsAreNumbers ==
  /\ MaxAttempts \in Nat \ {0} /\ WindowReset \in Nat \ {0} /\ WindowMax \in Nat
  /\ WindowReset < WindowMax /\ MaxMessages \in Nat /\ 1 \in Versions
  /\ Batches \subseteq Nat /\ Messages \subseteq Nat /\ Unsent \notin Batches /\ Unbatched \notin Batches
  /\ Unsent # Unbatched
BY BatchesAssumption DEF Versions, Batches, Messages, Unsent, Unbatched

LEMMA BatchIsARow ==
  ASSUME TypeOK, NEW b \in Batches
  PROVE  /\ batch[b] \in BatchType /\ runs[b] \in Nat
         /\ batch[b].attempts \in 0..MaxAttempts
         /\ batch[b].status \in {"NONE", "OPEN", "CLOSED", "PROCESSING", "PROCESSED", "FAILED"}
BY DEF TypeOK, BatchType

(* The window a message goes to is the open one, or a fresh one. *)
LEMMA WindowOfAMessage ==
  ASSUME TypeOK, WindowsFollow, BatchesFollow, NEW m \in Messages, NextMessage(m)
  PROVE  /\ TheWindow \in Batches
         /\ batch[TheWindow].status \in {"NONE", "OPEN"}
         /\ \A b \in OpenWindow : b = TheWindow
         /\ OpenWindow = {} => TheWindow = opened + 1
<1>1. CASE OpenWindow = {}
  <2>1. opened < m /\ opened \in Nat /\ m \in 1..MaxMessages
    BY BoundsAreNumbers DEF NextMessage, WindowsFollow, TypeOK, Messages
  <2>2. TheWindow = opened + 1
    BY <1>1 DEF TheWindow
  <2>3. TheWindow \in Batches /\ TheWindow > opened
    BY <2>1, <2>2, BoundsAreNumbers DEF Batches
  <2> QED
    BY <1>1, <2>2, <2>3 DEF BatchesFollow, Holds
<1>2. CASE OpenWindow # {}
  <2>1. TheWindow \in OpenWindow
    BY <1>2 DEF TheWindow
  <2> QED
    BY <1>2, <2>1 DEF OpenWindow, WindowsFollow, Holds
<1> QED
  BY <1>1, <1>2

LEMMA OpenIsTheWindow ==
  ASSUME TypeOK, WindowsFollow, OpenWindow # {}
  PROVE  /\ TheWindow \in Batches /\ Holds(TheWindow, "OPEN")
         /\ \A b \in OpenWindow : b = TheWindow
<1>1. TheWindow \in OpenWindow
  BY DEF TheWindow
<1> QED
  BY <1>1 DEF OpenWindow, WindowsFollow

(* An attempt is left, so that one more is still counted within the limit. *)
LEMMA AttemptCounts ==
  ASSUME TypeOK, BatchesFollow, NEW b \in Batches, Holds(b, "PROCESSING"),
         NEW limit \in 1..MaxAttempts, NEW why \in {"ATTEMPTS_EXHAUSTED", "UNPROCESSABLE"}
  PROVE  /\ Attempted(b, limit, why) \in BatchType
         /\ Attempted(b, limit, why).attempts = batch[b].attempts + 1
         /\ Attempted(b, limit, why).status \in {"CLOSED", "FAILED"}
         /\ Attempted(b, limit, why).status = "CLOSED" => batch[b].attempts + 1 < MaxAttempts
<1>1. batch[b].attempts < MaxAttempts /\ batch[b].attempts \in Nat
  BY BatchIsARow, BoundsAreNumbers DEF BatchesFollow, Holds
<1> QED
  BY <1>1, BoundsAreNumbers DEF Attempted, BatchType

LEMMA OutcomeCounts ==
  ASSUME TypeOK, BatchesFollow, NEW w \in Workers, worker[w].pc \in {"done", "failed", "refused"},
         worker[w].batch \in Batches, Held(w)
  PROVE  /\ Outcome(w) \in BatchType
         /\ At(w, "done") => Outcome(w).status = "PROCESSED"
                             /\ Outcome(w).attempts = batch[worker[w].batch].attempts
         /\ ~At(w, "done") => /\ Outcome(w).attempts = batch[worker[w].batch].attempts + 1
                              /\ Outcome(w).status \in {"CLOSED", "FAILED"}
                              /\ Outcome(w).status = "CLOSED" =>
                                   batch[worker[w].batch].attempts + 1 < MaxAttempts
<1> DEFINE b == worker[w].batch
<1>1. batch[b] \in BatchType /\ Holds(b, "PROCESSING")
  BY BatchIsARow DEF Held
<1>2. 1 \in 1..MaxAttempts /\ MaxAttempts \in 1..MaxAttempts
  BY BoundsAreNumbers
<1>3. CASE At(w, "done")
  <2>1. Outcome(w) = [batch[b] EXCEPT !.status = "PROCESSED", !.owner = Nobody]
    BY <1>3 DEF Outcome, At
  <2> QED
    BY <1>1, <1>3, <2>1 DEF BatchType
<1>4. CASE At(w, "failed")
  <2>1. Outcome(w) = Attempted(b, MaxAttempts, "ATTEMPTS_EXHAUSTED")
    BY <1>4 DEF Outcome, At
  <2> QED
    BY <1>1, <1>2, <1>4, <2>1, AttemptCounts DEF At
<1>5. CASE At(w, "refused")
  <2>1. Outcome(w) = Attempted(b, 1, "UNPROCESSABLE")
    BY <1>5 DEF Outcome, At
  <2> QED
    BY <1>1, <1>2, <1>5, <2>1, AttemptCounts DEF At
<1> QED
  BY <1>3, <1>4, <1>5 DEF At

-----------------------------------------------------------------------------
(* Type correctness *)

LEMMA SetBatchType ==
  ASSUME TypeOK, NEW b \in Batches, NEW row \in BatchType, SetBatch(b, row)
  PROVE  batch' \in [Batches -> BatchType]
BY DEF TypeOK, SetBatch

LEMMA GoesType ==
  ASSUME TypeOK, NEW w \in Workers,
         NEW pc \in {"idle", "claimed", "proposing", "applying", "done", "failed", "refused"},
         worker' = [worker EXCEPT ![w] = [Idle EXCEPT !.pc = pc, !.batch = worker[w].batch]]
  PROVE  worker' \in [Workers -> WorkerType]
<1>1. worker[w].batch \in Batches \cup {0}
  BY DEF TypeOK, WorkerType
<1>2. [Idle EXCEPT !.pc = pc, !.batch = worker[w].batch] \in WorkerType
  BY <1>1 DEF Idle, WorkerType
<1> QED
  BY <1>2 DEF TypeOK

LEMMA BackToIdleType ==
  ASSUME TypeOK, NEW w \in Workers, worker' = [worker EXCEPT ![w] = Idle]
  PROVE  worker' \in [Workers -> WorkerType]
BY DEF TypeOK, Idle, WorkerType

(* One field of a pass changes. *)
LEMMA FieldType ==
  ASSUME NEW f \in [Workers -> WorkerType], NEW w \in Workers
  PROVE  /\ \A pc \in {"proposing", "applying"} : [f EXCEPT ![w].pc = pc] \in [Workers -> WorkerType]
         /\ \A v \in Versions : [f EXCEPT ![w].read = v] \in [Workers -> WorkerType]
         /\ \A x \in BOOLEAN : /\ [f EXCEPT ![w].moved = x] \in [Workers -> WorkerType]
                              /\ [f EXCEPT ![w].changes = x] \in [Workers -> WorkerType]
                              /\ [f EXCEPT ![w].targets = x] \in [Workers -> WorkerType]
BY DEF WorkerType

LEMMA LinesGoneType ==
  ASSUME TypeOK, LinesGone
  PROVE  worker' \in [Workers -> WorkerType]
<1>1. \A w \in Workers : [worker[w] EXCEPT !.moved = TRUE] \in WorkerType
  BY DEF TypeOK, WorkerType
<1> QED
  BY <1>1 DEF TypeOK, LinesGone

LEMMA StampedType ==
  ASSUME NEW batches \in [Messages -> {Unsent, Unbatched} \cup Batches], NEW b \in Batches
  PROVE  Stamped(batches, b) \in [Messages -> {Unsent, Unbatched} \cup Batches]
BY DEF Stamped

LEMMA InsertedType ==
  ASSUME NEW s \in Seq(Batches), NEW k \in 0..Len(s), NEW b \in Batches
  PROVE  InsertAt(s, k + 1, b) \in Seq(Batches)
<1>1. SubSeq(s, 1, (k + 1) - 1) \in Seq(Batches) /\ SubSeq(s, k + 1, Len(s)) \in Seq(Batches)
  OBVIOUS
<1> QED
  BY <1>1 DEF InsertAt

LEMMA TypeInit == Init => TypeOK
<1> SUFFICES ASSUME Init PROVE TypeOK
  OBVIOUS
<1> USE BoundsAreNumbers
<1>1. Idle \in WorkerType
  BY DEF Idle, WorkerType
<1>2. [status |-> "NONE", attempts |-> 0, reason |-> "NONE", owner |-> Nobody] \in BatchType
  BY DEF BatchType
<1>3. window \in [left : 0..WindowReset, cap : 0..WindowMax] /\ opened \in 0..MaxMessages
  BY DEF Init
<1>4. order \in Seq(Batches) /\ late \in SUBSET Batches /\ runs \in [Batches -> Nat]
  BY DEF Init
<1> QED
  BY <1>1, <1>2, <1>3, <1>4 DEF Init, TypeOK, Lifecycle!Init

Numbered == TypeOK /\ WindowsFollow /\ BatchesFollow /\ HoldersKnow

LEMMA MessageType ==
  ASSUME Numbered, NEW m \in Messages, AppendMessage(m) \/ ChangeRequest(m)
  PROVE  TypeOK'
<1> USE DEF Numbered, quoteVars, queueVars, decisionVars
<1>1. NextMessage(m)
  BY DEF AppendMessage, ChangeRequest
<1>2. TheWindow \in Batches /\ (OpenWindow = {} => TheWindow = opened + 1)
  BY <1>1, WindowOfAMessage
<1>3. /\ [batch[TheWindow] EXCEPT !.status = "OPEN"] \in BatchType
      /\ [batch[TheWindow] EXCEPT !.status = "CLOSED"] \in BatchType
  BY <1>2, BatchIsARow DEF BatchType
<1>4. (IF OpenWindow = {} THEN opened + 1 ELSE opened) \in 0..MaxMessages
  BY <1>2, BoundsAreNumbers DEF TypeOK, Batches
<1>5. [batchOf EXCEPT ![m] = Unbatched] \in [Messages -> {Unsent, Unbatched} \cup Batches]
  BY DEF TypeOK
<1>6. CASE AppendMessage(m)
  <2>1. batch' \in [Batches -> BatchType]
    BY <1>2, <1>3, <1>6, SetBatchType DEF AppendMessage
  <2>2. window' \in [left : 0..WindowReset, cap : 0..WindowMax] /\ opened' \in 0..MaxMessages
    <3>1. CASE OpenWindow = {}
      BY <1>4, <1>6, <3>1, BoundsAreNumbers DEF AppendMessage
    <3>2. CASE OpenWindow # {}
      <4>1. Smaller(WindowReset, window.cap) \in 0..WindowReset
        BY BoundsAreNumbers DEF TypeOK, Smaller
      <4> QED
        BY <1>6, <3>2, <4>1 DEF AppendMessage, TypeOK
    <3> QED
      BY <3>1, <3>2
  <2> QED
    BY <1>5, <1>6, <2>1, <2>2 DEF AppendMessage, TypeOK
<1>7. CASE ChangeRequest(m)
  <2>1. batch' \in [Batches -> BatchType]
    BY <1>2, <1>3, <1>7, SetBatchType DEF ChangeRequest
  <2>2. batchOf' \in [Messages -> {Unsent, Unbatched} \cup Batches]
    BY <1>2, <1>5, <1>7, StampedType DEF ChangeRequest
  <2>3. order' \in Seq(Batches) /\ late' \in SUBSET Batches
    BY <1>2, <1>7, InsertedType DEF ChangeRequest, TypeOK
  <2>4. window' \in [left : 0..WindowReset, cap : 0..WindowMax] /\ opened' \in 0..MaxMessages
    BY <1>4, <1>7, BoundsAreNumbers DEF ChangeRequest
  <2>5. /\ status' = "CHANGE_REQUESTED" /\ version' \in Versions /\ draft' = TRUE
        /\ UNCHANGED <<standing, archived, runs, undecided, worker>>
    BY <1>7 DEF ChangeRequest, Lifecycle!ChangeRequested, Lifecycle!NextDraft
  <2> QED
    BY <2>1, <2>2, <2>3, <2>4, <2>5 DEF TypeOK
<1> QED
  BY <1>6, <1>7

LEMMA SellerType ==
  ASSUME TypeOK, Freeze \/ QuoteMoves \/ SetArchived \/ RemoveLines \/ DiscardAIChanges
  PROVE  TypeOK'
<1> USE DEF quoteVars, queueVars, decisionVars
<1>1. CASE Freeze
  BY <1>1 DEF Freeze, Lifecycle!Freeze, TypeOK
<1>2. CASE QuoteMoves
  <2>1. /\ status' \in {"DRAFT", "QUOTED", "SENT", "CHANGE_REQUESTED", "ACCEPTED", "REJECTED"}
        /\ version' \in Versions /\ draft' \in BOOLEAN /\ standing' \in BOOLEAN
    BY <1>2 DEF QuoteMoves, TypeOK, Lifecycle!Publish, Lifecycle!Price, Lifecycle!Answer, Lifecycle!Settle,
               Lifecycle!ReopenForResend, Lifecycle!ReopenForEdit, Lifecycle!LateDraft,
               Lifecycle!NextDraft
  <2> QED
    BY <1>2, <2>1 DEF QuoteMoves, TypeOK
<1>3. CASE SetArchived
  BY <1>3 DEF SetArchived, TypeOK
<1>4. CASE RemoveLines
  <2>1. worker' \in [Workers -> WorkerType]
    BY <1>4, LinesGoneType DEF RemoveLines
  <2> QED
    BY <1>4, <2>1 DEF RemoveLines, TypeOK
<1>5. CASE DiscardAIChanges
  <2>1. worker' \in [Workers -> WorkerType]
    BY <1>5, LinesGoneType DEF DiscardAIChanges
  <2> QED
    BY <1>5, <2>1 DEF DiscardAIChanges, TypeOK
<1> QED
  BY <1>1, <1>2, <1>3, <1>4, <1>5

LEMMA SweepType ==
  ASSUME Numbered,
         Tick \/ CloseDue \/ (\E b \in Batches : RetryBatch(b)) \/ Reclaim
  PROVE  TypeOK'
<1> USE DEF Numbered, quoteVars, queueVars, decisionVars
<1>1. CASE Tick
  <2>1. window' \in [left : 0..WindowReset, cap : 0..WindowMax]
    <3>1. window.left \in 0..WindowReset /\ window.cap \in 0..WindowMax /\ window.left > 0
          /\ window.left <= window.cap
      BY <1>1 DEF Tick, WindowsFollow, TypeOK
    <3> QED
      BY <1>1, <3>1, BoundsAreNumbers DEF Tick
  <2> QED
    BY <1>1, <2>1 DEF Tick, TypeOK
<1>2. CASE CloseDue
  <2>1. TheWindow \in Batches
    BY <1>2, OpenIsTheWindow DEF CloseDue
  <2>2. [batch[TheWindow] EXCEPT !.status = "CLOSED"] \in BatchType
    BY <2>1, BatchIsARow DEF BatchType
  <2>3. batch' \in [Batches -> BatchType]
    BY <1>2, <2>1, <2>2, SetBatchType DEF CloseDue
  <2>4. batchOf' \in [Messages -> {Unsent, Unbatched} \cup Batches]
    BY <1>2, <2>1, StampedType DEF CloseDue, TypeOK
  <2>5. order' \in Seq(Batches)
    BY <1>2, <2>1 DEF CloseDue, TypeOK
  <2>6. window' \in [left : 0..WindowReset, cap : 0..WindowMax]
    BY <1>2, BoundsAreNumbers DEF CloseDue
  <2> QED
    BY <1>2, <2>3, <2>4, <2>5, <2>6 DEF CloseDue, TypeOK
<1>3. ASSUME NEW b \in Batches, RetryBatch(b) PROVE TypeOK'
  <2>1. [batch[b] EXCEPT !.status = "CLOSED", !.attempts = 0, !.reason = "NONE"] \in BatchType
    <3>1. batch[b] \in BatchType /\ 0 \in 0..MaxAttempts
      BY BatchIsARow, BoundsAreNumbers
    <3> QED
      BY <3>1 DEF BatchType
  <2>2. batch' \in [Batches -> BatchType]
    BY <1>3, <2>1, SetBatchType DEF RetryBatch
  <2> QED
    BY <1>3, <2>2 DEF RetryBatch, TypeOK
<1>4. ASSUME NEW b \in Batches, ReclaimStuck(b) PROVE TypeOK'
  <2>1. Attempted(b, MaxAttempts, "ATTEMPTS_EXHAUSTED") \in BatchType
    BY <1>4, AttemptCounts, BoundsAreNumbers DEF ReclaimStuck
  <2>2. batch' \in [Batches -> BatchType]
    BY <1>4, <2>1, SetBatchType DEF ReclaimStuck
  <2> QED
    BY <1>4, <2>2 DEF ReclaimStuck, TypeOK
<1> QED
  BY <1>1, <1>2, <1>3, <1>4 DEF Reclaim

LEMMA PassType ==
  ASSUME Numbered, NEW w \in Workers, Works(w) \/ Release(w) \/ Dies(w)
  PROVE  TypeOK'
<1> USE DEF Numbered, quoteVars, queueVars, decisionVars
<1>1. CASE Claim(w)
  <2> PICK b \in Batches :
        /\ SetBatch(b, [batch[b] EXCEPT !.status = "PROCESSING", !.owner = w])
        /\ worker' = [worker EXCEPT ![w] = [Idle EXCEPT !.pc = "claimed", !.batch = b]]
    BY <1>1 DEF Claim
  <2>1. [batch[b] EXCEPT !.status = "PROCESSING", !.owner = w] \in BatchType
    BY BatchIsARow DEF BatchType
  <2>2. batch' \in [Batches -> BatchType]
    BY <2>1, SetBatchType
  <2>3. worker' \in [Workers -> WorkerType]
    BY DEF TypeOK, Idle, WorkerType
  <2> QED
    BY <1>1, <2>2, <2>3 DEF Claim, TypeOK
<1>2. CASE Prepare(w)
  <2>1. status' \in {"SENT", "CHANGE_REQUESTED"} /\ version' \in Versions /\ draft' = TRUE
        /\ UNCHANGED <<standing, archived>>
    BY <1>2 DEF Prepare, Lifecycle!ChangeRequested, Lifecycle!NextDraft
  <2>2. worker' \in [Workers -> WorkerType]
    <3> DEFINE f1 == [worker EXCEPT ![w].pc = "proposing"]
               f2 == [f1 EXCEPT ![w].read = version']
    <3>1. f1 \in [Workers -> WorkerType]
      BY FieldType DEF TypeOK
    <3>2. f2 \in [Workers -> WorkerType]
      BY <2>1, <3>1, FieldType
    <3>3. worker' = [f2 EXCEPT ![w].moved = FALSE]
      BY <1>2 DEF Prepare
    <3> HIDE DEF f2
    <3> QED
      BY <3>2, <3>3, FieldType
  <2> QED
    BY <1>2, <2>1, <2>2 DEF Prepare, TypeOK
<1>3. CASE PrepareRefused(w) \/ ApplyRefused(w) \/ HandleFails(w)
  <2>1. worker' \in [Workers -> WorkerType]
    BY <1>3, GoesType DEF PrepareRefused, ApplyRefused, HandleFails, Goes
  <2> QED
    BY <1>3, <2>1 DEF PrepareRefused, ApplyRefused, HandleFails, TypeOK
<1>4. CASE Propose(w)
  <2> PICK p \in Proposals :
        worker' = [worker EXCEPT ![w].pc = "applying", ![w].changes = p.changes,
                                 ![w].targets = p.targets, ![w].moved = @ /\ p.targets]
    BY <1>4 DEF Propose
  <2> DEFINE f1 == [worker EXCEPT ![w].pc = "applying"]
             f2 == [f1 EXCEPT ![w].changes = p.changes]
             f3 == [f2 EXCEPT ![w].targets = p.targets]
             x == f3[w].moved /\ p.targets
  <2>1. p.changes \in BOOLEAN /\ p.targets \in BOOLEAN /\ x \in BOOLEAN
    BY DEF Proposals
  <2>2. f1 \in [Workers -> WorkerType]
    BY FieldType DEF TypeOK
  <2>3. f2 \in [Workers -> WorkerType]
    BY <2>1, <2>2, FieldType
  <2>4. f3 \in [Workers -> WorkerType]
    BY <2>1, <2>3, FieldType
  <2>5. worker' = [f3 EXCEPT ![w].moved = x]
    BY Zenon
  <2> HIDE DEF f3, x
  <2>6. worker' \in [Workers -> WorkerType]
    <3>1. \A y \in BOOLEAN : [f3 EXCEPT ![w].moved = y] \in [Workers -> WorkerType]
      BY <2>4, FieldType
    <3> QED
      BY <2>1, <2>5, <3>1, Zenon
  <2> QED
    BY <1>4, <2>6 DEF Propose, TypeOK
<1>9. CASE RecipesExhausted(w)
  <2> DEFINE f1 == [worker EXCEPT ![w].changes = FALSE]
             f2 == [f1 EXCEPT ![w].targets = FALSE]
  <2>1. f1 \in [Workers -> WorkerType]
    BY FieldType DEF TypeOK
  <2>2. f2 \in [Workers -> WorkerType]
    BY <2>1, FieldType
  <2>3. worker' = [f2 EXCEPT ![w].moved = FALSE]
    BY <1>9 DEF RecipesExhausted
  <2> HIDE DEF f2
  <2>4. worker' \in [Workers -> WorkerType]
    BY <2>2, <2>3, FieldType
  <2> QED
    BY <1>9, <2>4 DEF RecipesExhausted, TypeOK
<1>5. CASE Apply(w)
  <2>1. worker' \in [Workers -> WorkerType]
    BY <1>5, GoesType DEF Apply, Goes
  <2>2. worker[w].batch \in Batches /\ worker[w].changes \in BOOLEAN
    BY <1>5 DEF Apply, At, HoldersKnow, TypeOK, WorkerType
  <2>3. runs' \in [Batches -> Nat]
    BY <1>5, <2>2 DEF Apply, TypeOK
  <2>4. undecided' \in SUBSET [version : Versions, applied : BOOLEAN]
    BY <1>5, <2>2 DEF Apply, TypeOK
  <2> QED
    BY <1>5, <2>1, <2>3, <2>4 DEF Apply, TypeOK
<1>6. CASE Settle(w)
  <2>1. worker' \in [Workers -> WorkerType]
    BY <1>6, BackToIdleType DEF Settle
  <2>2. worker[w].batch \in Batches
    BY <1>6 DEF Settle, HoldersKnow
  <2>3. batch' \in [Batches -> BatchType]
    BY <1>6, <2>2, OutcomeCounts, SetBatchType DEF Settle, TypeOK
  <2> QED
    BY <1>6, <2>1, <2>3 DEF Settle, TypeOK
<1>7. CASE Release(w)
  <2>1. worker' \in [Workers -> WorkerType]
    BY <1>7, BackToIdleType DEF Release
  <2>2. worker[w].batch \in Batches
    BY <1>7 DEF Release, HoldersKnow
  <2>3. [batch[worker[w].batch] EXCEPT !.status = "CLOSED", !.owner = Nobody] \in BatchType
    BY <2>2, BatchIsARow DEF BatchType
  <2>4. batch' \in [Batches -> BatchType]
    BY <1>7, <2>2, <2>3, SetBatchType DEF Release, TypeOK
  <2> QED
    BY <1>7, <2>1, <2>4 DEF Release, TypeOK
<1>8. CASE Dies(w)
  <2>1. worker' \in [Workers -> WorkerType]
    BY <1>8, BackToIdleType DEF Dies
  <2> QED
    BY <1>8, <2>1 DEF Dies, TypeOK
<1> QED
  BY <1>1, <1>2, <1>3, <1>4, <1>5, <1>6, <1>7, <1>8, <1>9 DEF Works

LEMMA TypeStep == ASSUME Numbered, [Next]_vars PROVE TypeOK'
<1>1. CASE Next
  <2>1. CASE Environment
    BY <2>1, MessageType, SellerType, SweepType, PassType DEF Environment, Numbered
  <2> QED
    BY <1>1, <2>1, SweepType, PassType DEF Next
<1>2. CASE UNCHANGED vars
  BY <1>2 DEF vars, quoteVars, queueVars, decisionVars, TypeOK, Numbered
<1> QED
  BY <1>1, <1>2

-----------------------------------------------------------------------------
(* Windows and batches *)

(* Which steps write what the queue is made of. *)
LEMMA QueueFrame ==
  ASSUME [Next]_vars
  PROVE  \/ \E m \in Messages : AppendMessage(m) \/ ChangeRequest(m)
         \/ Tick \/ CloseDue
         \/ \E b \in Batches : RetryBatch(b) \/ ReclaimStuck(b)
         \/ \E w \in Workers : Claim(w) \/ Settle(w) \/ Release(w)
         \/ (\E w \in Workers : Apply(w)) /\ UNCHANGED <<batchOf, opened, batch, window, order, late>>
         \/ UNCHANGED <<batchOf, opened, batch, window, order, late, runs>>
<1> USE DEF quoteVars, queueVars, decisionVars
<1>1. CASE UNCHANGED vars
  BY <1>1 DEF vars
<1>2. CASE Environment
  BY <1>2 DEF Environment, Freeze, QuoteMoves, SetArchived, RemoveLines, DiscardAIChanges, Dies
<1>3. ASSUME NEW w \in Workers, Works(w)
      PROVE  \/ Claim(w) \/ Settle(w)
             \/ Apply(w) /\ UNCHANGED <<batchOf, opened, batch, window, order, late>>
             \/ UNCHANGED <<batchOf, opened, batch, window, order, late, runs>>
  BY <1>3 DEF Works, Prepare, PrepareRefused, Propose, RecipesExhausted, Apply, ApplyRefused,
              HandleFails
<1> QED
  BY <1>1, <1>2, <1>3 DEF Next, Reclaim

LEMMA RowOfABatch ==
  ASSUME TypeOK, NEW b \in Batches, NEW row, SetBatch(b, row)
  PROVE  /\ batch'[b] = row
         /\ \A a \in Batches : a # b => batch'[a] = batch[a]
BY DEF TypeOK, SetBatch

(* A row that is not OPEN leaves at most the windows that were open. *)
LEMMA WindowsWhenNotOpened ==
  ASSUME TypeOK, NEW b \in Batches, NEW row, SetBatch(b, row), row.status # "OPEN"
  PROVE  OpenWindow' = OpenWindow \ {b}
BY RowOfABatch DEF OpenWindow, Holds

(* A row that was not OPEN either leaves the windows as they were. *)
LEMMA WindowsStand ==
  ASSUME TypeOK, NEW b \in Batches, NEW row, SetBatch(b, row), row.status # "OPEN", ~Holds(b, "OPEN")
  PROVE  OpenWindow' = OpenWindow
BY WindowsWhenNotOpened DEF OpenWindow

LEMMA AttemptedIsClosed ==
  ASSUME NEW b \in Batches, NEW limit, NEW why
  PROVE  Attempted(b, limit, why).status \in {"CLOSED", "FAILED"}
BY DEF Attempted

(* What a pass writes: a row that is held, and not OPEN after. *)
LEMMA PassRow ==
  ASSUME Numbered, NEW w \in Workers, Settle(w) \/ Release(w)
  PROVE  \/ UNCHANGED batch
         \/ /\ worker[w].batch \in Batches /\ Holds(worker[w].batch, "PROCESSING") /\ Held(w)
            /\ \E row \in BatchType :
                 SetBatch(worker[w].batch, row) /\ row.status \in {"CLOSED", "PROCESSED", "FAILED"}
<1> USE DEF Numbered
<1>1. worker[w].batch \in Batches
  BY DEF Settle, Release, HoldersKnow
<1>2. CASE ~Held(w)
  BY <1>2 DEF Settle, Release
<1>3. CASE Held(w) /\ Settle(w)
  <2>1. Outcome(w) \in BatchType /\ Outcome(w).status \in {"CLOSED", "PROCESSED", "FAILED"}
    BY <1>1, <1>3, OutcomeCounts DEF Settle
  <2>2. SetBatch(worker[w].batch, Outcome(w))
    BY <1>3 DEF Settle
  <2> QED
    BY <1>1, <1>3, <2>1, <2>2 DEF Held
<1>4. CASE Held(w) /\ Release(w)
  <2> DEFINE row == [batch[worker[w].batch] EXCEPT !.status = "CLOSED", !.owner = Nobody]
  <2>1. row \in BatchType /\ row.status = "CLOSED"
    BY <1>1, BatchIsARow DEF BatchType
  <2>2. SetBatch(worker[w].batch, row)
    BY <1>4 DEF Release
  <2> QED
    BY <1>1, <1>4, <2>1, <2>2 DEF Held
<1> QED
  BY <1>2, <1>3, <1>4

LEMMA WindowsStep == ASSUME Numbered, [Next]_vars PROVE WindowsFollow'
<1> USE DEF Numbered, quoteVars, queueVars, decisionVars
<1>1. ASSUME NEW m \in Messages, AppendMessage(m) PROVE WindowsFollow'
  <2>1. /\ TheWindow \in Batches /\ (OpenWindow = {} => TheWindow = opened + 1)
        /\ \A b \in OpenWindow : b = TheWindow
    BY <1>1, WindowOfAMessage DEF AppendMessage
  <2>2. window'.left <= window'.cap
    <3>1. CASE OpenWindow = {}
      BY <1>1, <3>1, BoundsAreNumbers DEF AppendMessage
    <3>2. CASE OpenWindow # {}
      BY <1>1, <3>2, BoundsAreNumbers DEF AppendMessage, Smaller, TypeOK
    <3> QED
      BY <3>1, <3>2
  <2>3. \A n \in Messages : batchOf'[n] = Unsent => opened' < n
    <3> SUFFICES ASSUME NEW n \in Messages, batchOf'[n] = Unsent PROVE opened' < n
      OBVIOUS
    <3>1. n # m /\ batchOf[n] = Unsent
      BY <1>1, BoundsAreNumbers DEF AppendMessage, TypeOK
    <3>2. m < n /\ opened < m
      BY <1>1, <3>1 DEF AppendMessage, NextMessage, WindowsFollow, Messages
    <3> QED
      BY <1>1, <3>2, BoundsAreNumbers DEF AppendMessage, TypeOK, Messages
  <2>4. \A a \in OpenWindow' : a = TheWindow
    BY <1>1, <2>1, RowOfABatch DEF AppendMessage, OpenWindow, Holds
  <2> QED
    BY <2>2, <2>3, <2>4 DEF WindowsFollow
<1>2. ASSUME NEW m \in Messages, ChangeRequest(m) PROVE WindowsFollow'
  <2>1. /\ TheWindow \in Batches /\ (OpenWindow = {} => TheWindow = opened + 1)
        /\ \A b \in OpenWindow : b = TheWindow
    BY <1>2, WindowOfAMessage DEF ChangeRequest
  <2>2. OpenWindow' = {}
    <3>1. [batch[TheWindow] EXCEPT !.status = "CLOSED"].status = "CLOSED"
      BY <2>1, BatchIsARow DEF BatchType
    <3> QED
      BY <1>2, <2>1, <3>1, WindowsWhenNotOpened DEF ChangeRequest
  <2>3. \A n \in Messages : batchOf'[n] = Unsent => opened' < n
    <3> SUFFICES ASSUME NEW n \in Messages, batchOf'[n] = Unsent PROVE opened' < n
      OBVIOUS
    <3>1. n # m /\ batchOf[n] = Unsent
      BY <1>2, <2>1, BoundsAreNumbers DEF ChangeRequest, TypeOK, Stamped
    <3>2. m < n /\ opened < m
      BY <1>2, <3>1 DEF ChangeRequest, NextMessage, WindowsFollow, Messages
    <3>3. opened' = IF OpenWindow = {} THEN opened + 1 ELSE opened
      BY <1>2 DEF ChangeRequest
    <3>4. opened \in Nat /\ m \in Nat /\ n \in Nat
      BY BoundsAreNumbers DEF TypeOK
    <3> QED
      BY <3>2, <3>3, <3>4
  <2>4. window' = [left |-> 0, cap |-> 0]
    BY <1>2 DEF ChangeRequest
  <2>5. window'.left <= window'.cap
    BY <2>4
  <2> QED
    BY <2>2, <2>3, <2>5 DEF WindowsFollow
<1>3. CASE Tick
  BY <1>3 DEF Tick, WindowsFollow, TypeOK, OpenWindow, Holds
<1>4. CASE CloseDue
  <2>1. TheWindow \in Batches /\ \A b \in OpenWindow : b = TheWindow
    BY <1>4, OpenIsTheWindow DEF CloseDue
  <2>2. OpenWindow' = {}
    <3>1. [batch[TheWindow] EXCEPT !.status = "CLOSED"].status = "CLOSED"
      BY <2>1, BatchIsARow DEF BatchType
    <3> QED
      BY <1>4, <2>1, <3>1, WindowsWhenNotOpened DEF CloseDue
  <2>3. \A n \in Messages : batchOf'[n] = Unsent => batchOf[n] = Unsent
    BY <1>4, <2>1, BoundsAreNumbers DEF CloseDue, Stamped, TypeOK
  <2> QED
    BY <1>4, <2>2, <2>3 DEF CloseDue, WindowsFollow
<1>5. ASSUME NEW b \in Batches, RetryBatch(b) \/ ReclaimStuck(b) PROVE WindowsFollow'
  <2>1. ~Holds(b, "OPEN")
    BY <1>5 DEF RetryBatch, ReclaimStuck, Holds
  <2>2. OpenWindow' = OpenWindow
    <3>1. [batch[b] EXCEPT !.status = "CLOSED", !.attempts = 0, !.reason = "NONE"].status = "CLOSED"
      BY BatchIsARow DEF BatchType
    <3> QED
      BY <1>5, <2>1, <3>1, AttemptedIsClosed, WindowsStand DEF RetryBatch, ReclaimStuck
  <2> QED
    BY <1>5, <2>2 DEF RetryBatch, ReclaimStuck, WindowsFollow
<1>6. ASSUME NEW w \in Workers, Claim(w) PROVE WindowsFollow'
  <2> PICK b \in Batches :
        Claimable(b) /\ SetBatch(b, [batch[b] EXCEPT !.status = "PROCESSING", !.owner = w])
    BY <1>6 DEF Claim
  <2>1. [batch[b] EXCEPT !.status = "PROCESSING", !.owner = w].status = "PROCESSING"
    BY BatchIsARow DEF BatchType
  <2>2. OpenWindow' = OpenWindow
    BY <2>1, WindowsStand DEF Claimable, Holds
  <2> QED
    BY <1>6, <2>2 DEF Claim, WindowsFollow
<1>7. ASSUME NEW w \in Workers, Settle(w) \/ Release(w) PROVE WindowsFollow'
  <2>1. OpenWindow' = OpenWindow
    <3>1. CASE UNCHANGED batch
      BY <3>1 DEF OpenWindow, Holds
    <3> QED
      BY <1>7, <3>1, PassRow, WindowsStand DEF Holds
  <2> QED
    BY <1>7, <2>1 DEF Settle, Release, WindowsFollow
<1>8. CASE UNCHANGED <<batchOf, opened, batch, window, order, late>>
  BY <1>8 DEF WindowsFollow, OpenWindow, Holds
<1> QED
  BY <1>1, <1>2, <1>3, <1>4, <1>5, <1>6, <1>7, <1>8, QueueFrame

(* A row that was written has its window opened, and an attempt left. *)
LEMMA BatchWritten ==
  ASSUME Numbered, NEW b \in Batches, NEW row \in BatchType, SetBatch(b, row),
         opened' \in Nat, opened <= opened', b <= opened',
         \A a \in Batches : a # b => runs'[a] = runs[a],
         row.status \in {"NONE", "OPEN"} => row.attempts = 0 /\ runs'[b] = 0,
         row.status \notin {"PROCESSED", "FAILED"} => row.attempts < MaxAttempts
  PROVE  BatchesFollow'
<1> USE DEF Numbered
<1> SUFFICES ASSUME NEW a \in Batches
             PROVE  /\ a > opened' => batch'[a].status = "NONE"
                    /\ batch'[a].status \in {"NONE", "OPEN"} => batch'[a].attempts = 0 /\ runs'[a] = 0
                    /\ batch'[a].status \notin {"PROCESSED", "FAILED"} => batch'[a].attempts < MaxAttempts
  BY DEF BatchesFollow, Holds
<1>1. CASE a = b
  BY <1>1, RowOfABatch, BoundsAreNumbers
<1>2. CASE a # b
  <2>1. batch'[a] = batch[a] /\ runs'[a] = runs[a]
    BY <1>2, RowOfABatch
  <2>2. a > opened' => a > opened
    BY BoundsAreNumbers DEF TypeOK
  <2> QED
    BY <2>1, <2>2 DEF BatchesFollow, Holds
<1> QED
  BY <1>1, <1>2

(* A batch with a row is one of those opened. *)
LEMMA RowIsOpened ==
  ASSUME Numbered, NEW b \in Batches, ~Holds(b, "NONE")
  PROVE  b <= opened /\ opened \in Nat
BY BoundsAreNumbers DEF Numbered, BatchesFollow, TypeOK

(* The queue is where it was but for the row of one batch. *)
LEMMA OnlyTheRow ==
  ASSUME Numbered, NEW b \in Batches, NEW row \in BatchType, SetBatch(b, row),
         ~Holds(b, "NONE"), UNCHANGED <<opened, runs>>, row.status \notin {"NONE", "OPEN"},
         row.status \notin {"PROCESSED", "FAILED"} => row.attempts < MaxAttempts
  PROVE  BatchesFollow'
BY RowIsOpened, BatchWritten

LEMMA BatchesStep == ASSUME Numbered, [Next]_vars PROVE BatchesFollow'
<1> USE DEF Numbered, quoteVars, queueVars, decisionVars
<1>1. ASSUME NEW m \in Messages, AppendMessage(m) \/ ChangeRequest(m) PROVE BatchesFollow'
  <2>1. /\ TheWindow \in Batches /\ batch[TheWindow].status \in {"NONE", "OPEN"}
        /\ OpenWindow = {} => TheWindow = opened + 1
        /\ OpenWindow # {} => Holds(TheWindow, "OPEN")
    BY <1>1, WindowOfAMessage, OpenIsTheWindow DEF AppendMessage, ChangeRequest
  <2>2. PICK state \in {"OPEN", "CLOSED"} : SetBatch(TheWindow, [batch[TheWindow] EXCEPT !.status = state])
    BY <1>1 DEF AppendMessage, ChangeRequest
  <2>3. UNCHANGED runs /\ opened' = IF OpenWindow = {} THEN opened + 1 ELSE opened
    BY <1>1 DEF AppendMessage, ChangeRequest
  <2>4. batch[TheWindow] \in BatchType /\ batch[TheWindow].attempts = 0 /\ runs[TheWindow] = 0
    BY <2>1, BatchIsARow DEF BatchesFollow
  <2> DEFINE row == [batch[TheWindow] EXCEPT !.status = state]
  <2>5. row \in BatchType /\ row.status = state /\ row.attempts = 0
    BY <2>4 DEF BatchType
  <2>6. opened' \in Nat /\ opened <= opened' /\ TheWindow <= opened'
    <3>1. CASE OpenWindow = {}
      BY <2>1, <2>3, <3>1 DEF TypeOK
    <3>2. CASE OpenWindow # {}
      BY <2>1, <2>3, <3>2, RowIsOpened DEF Holds
    <3> QED
      BY <3>1, <3>2
  <2> HIDE DEF row
  <2>7. SetBatch(TheWindow, row) /\ 0 < MaxAttempts
    BY <2>2, BoundsAreNumbers DEF row
  <2> QED
    BY <2>1, <2>3, <2>4, <2>5, <2>6, <2>7, BatchWritten
<1>2. CASE Tick
  BY <1>2 DEF Tick, BatchesFollow, Holds
<1>3. CASE CloseDue
  <2>1. TheWindow \in Batches /\ Holds(TheWindow, "OPEN")
    BY <1>3, OpenIsTheWindow DEF CloseDue
  <2>2. batch[TheWindow] \in BatchType /\ batch[TheWindow].attempts < MaxAttempts
    BY <2>1, BatchIsARow DEF BatchesFollow, Holds
  <2> DEFINE row == [batch[TheWindow] EXCEPT !.status = "CLOSED"]
  <2>3. row \in BatchType /\ row.status = "CLOSED" /\ row.attempts < MaxAttempts
    BY <2>2 DEF BatchType
  <2> HIDE DEF row
  <2>4. SetBatch(TheWindow, row) /\ UNCHANGED <<opened, runs>>
    BY <1>3 DEF CloseDue, row
  <2> QED
    BY <2>1, <2>3, <2>4, OnlyTheRow DEF Holds
<1>4. ASSUME NEW b \in Batches, RetryBatch(b) PROVE BatchesFollow'
  <2> DEFINE row == [batch[b] EXCEPT !.status = "CLOSED", !.attempts = 0, !.reason = "NONE"]
  <2>1. batch[b] \in BatchType /\ b <= opened /\ opened \in Nat
    BY <1>4, BatchIsARow, RowIsOpened DEF RetryBatch, Holds
  <2>2. row \in BatchType /\ row.status = "CLOSED" /\ row.attempts = 0 /\ 0 < MaxAttempts
    <3>1. 0 \in 0..MaxAttempts /\ 0 < MaxAttempts
      BY BoundsAreNumbers
    <3> QED
      BY <2>1, <3>1 DEF BatchType
  <2> HIDE DEF row
  <2>3. SetBatch(b, row) /\ UNCHANGED opened
    BY <1>4 DEF RetryBatch, row
  <2>4. \A a \in Batches : a # b => runs'[a] = runs[a]
    BY <1>4 DEF RetryBatch, TypeOK
  <2> QED
    BY <2>1, <2>2, <2>3, <2>4, BatchWritten
<1>5. ASSUME NEW b \in Batches, ReclaimStuck(b) PROVE BatchesFollow'
  <2> DEFINE row == Attempted(b, MaxAttempts, "ATTEMPTS_EXHAUSTED")
  <2>1. /\ row \in BatchType /\ row.attempts = batch[b].attempts + 1
        /\ row.status \in {"CLOSED", "FAILED"}
        /\ row.status = "CLOSED" => batch[b].attempts + 1 < MaxAttempts
    BY <1>5, AttemptCounts, BoundsAreNumbers DEF ReclaimStuck
  <2> HIDE DEF row
  <2>2. SetBatch(b, row) /\ UNCHANGED <<opened, runs>> /\ ~Holds(b, "NONE")
    BY <1>5 DEF ReclaimStuck, row, Holds
  <2> QED
    BY <2>1, <2>2, OnlyTheRow
<1>6. ASSUME NEW w \in Workers, Claim(w) PROVE BatchesFollow'
  <2> PICK b \in Batches :
        Claimable(b) /\ SetBatch(b, [batch[b] EXCEPT !.status = "PROCESSING", !.owner = w])
    BY <1>6 DEF Claim
  <2> DEFINE row == [batch[b] EXCEPT !.status = "PROCESSING", !.owner = w]
  <2>1. batch[b] \in BatchType /\ batch[b].attempts < MaxAttempts /\ ~Holds(b, "NONE")
    BY BatchIsARow DEF Claimable, BatchesFollow, Holds
  <2>2. row \in BatchType /\ row.status = "PROCESSING" /\ row.attempts < MaxAttempts
    BY <2>1 DEF BatchType
  <2> HIDE DEF row
  <2>3. SetBatch(b, row) /\ UNCHANGED <<opened, runs>>
    BY <1>6 DEF Claim, row
  <2> QED
    BY <2>1, <2>2, <2>3, OnlyTheRow
<1>7. ASSUME NEW w \in Workers, Settle(w) PROVE BatchesFollow'
  <2>1. CASE ~Held(w)
    BY <1>7, <2>1 DEF Settle, BatchesFollow, Holds
  <2>2. CASE Held(w)
    <3>1. /\ worker[w].batch \in Batches /\ ~Holds(worker[w].batch, "NONE")
          /\ UNCHANGED <<opened, runs>> /\ SetBatch(worker[w].batch, Outcome(w))
      BY <1>7, <2>2 DEF Settle, Held, Holds, HoldersKnow
    <3>2. /\ Outcome(w) \in BatchType /\ Outcome(w).status \notin {"NONE", "OPEN"}
          /\ Outcome(w).status \notin {"PROCESSED", "FAILED"} => Outcome(w).attempts < MaxAttempts
      BY <1>7, <2>2, <3>1, OutcomeCounts DEF Settle
    <3> QED
      BY <3>1, <3>2, OnlyTheRow
  <2> QED
    BY <2>1, <2>2
<1>8. ASSUME NEW w \in Workers, Release(w) PROVE BatchesFollow'
  <2>1. CASE ~Held(w)
    BY <1>8, <2>1 DEF Release, BatchesFollow, Holds
  <2>2. CASE Held(w)
    <3> DEFINE b == worker[w].batch
               row == [batch[b] EXCEPT !.status = "CLOSED", !.owner = Nobody]
    <3>1. b \in Batches /\ ~Holds(b, "NONE") /\ batch[b] \in BatchType /\ batch[b].attempts < MaxAttempts
      BY <1>8, <2>2, BatchIsARow DEF Release, Held, Holds, HoldersKnow, BatchesFollow
    <3>2. row \in BatchType /\ row.status = "CLOSED" /\ row.attempts < MaxAttempts
      BY <3>1 DEF BatchType
    <3>3. SetBatch(b, row) /\ UNCHANGED <<opened, runs>>
      BY <1>8, <2>2 DEF Release
    <3> HIDE DEF row
    <3> QED
      BY <3>1, <3>2, <3>3, OnlyTheRow
  <2> QED
    BY <2>1, <2>2
<1>9. ASSUME NEW w \in Workers, Apply(w), UNCHANGED <<opened, batch>> PROVE BatchesFollow'
  <2>1. /\ worker[w].batch \in Batches /\ Holds(worker[w].batch, "PROCESSING")
        /\ runs' = [runs EXCEPT ![worker[w].batch] = @ + 1]
    BY <1>9 DEF Apply, Held, At, HoldersKnow
  <2>2. \A a \in Batches : batch[a].status \in {"NONE", "OPEN"} => runs'[a] = runs[a]
    BY <2>1 DEF Holds, TypeOK
  <2> QED
    BY <1>9, <2>2 DEF BatchesFollow, Holds
<1>10. CASE UNCHANGED <<batchOf, opened, batch, window, order, late, runs>>
  BY <1>10 DEF BatchesFollow, Holds
<1> QED
  BY <1>1, <1>2, <1>3, <1>4, <1>5, <1>6, <1>7, <1>8, <1>9, <1>10, QueueFrame

-----------------------------------------------------------------------------
(* The passes and their claims *)

(* Writing the row of a batch whose claim is nobody's afterwards leaves the *)
(* others' claims as they were.                                             *)
LEMMA ClaimsStand ==
  ASSUME TypeOK, NEW b \in Batches, NEW row, SetBatch(b, row), row.status # "PROCESSING",
         NEW v \in Workers, worker'[v] = worker[v], worker[v].batch \in Batches, Held(v)'
  PROVE  /\ worker[v].batch # b /\ Held(v)
         /\ batch'[worker[v].batch] = batch[worker[v].batch]
BY RowOfABatch DEF Held, Holds

(* Two passes do not hold one claim. *)
LEMMA OneHolder ==
  ASSUME NEW v \in Workers, NEW w \in Workers, Held(v), Held(w), worker[v].batch = worker[w].batch
  PROVE  v = w
BY DEF Held

(* What is left to a pass that neither claims, applies nor settles: it is idle, *)
(* or at the batch it was at, and as done with it as it was.                    *)
Steady ==
  /\ UNCHANGED <<batch, runs>>
  /\ \A v \in Workers :
       \/ worker'[v].pc = "idle"
       \/ /\ worker'[v].batch = worker[v].batch /\ worker[v].pc # "idle"
          /\ worker'[v].pc = "done" <=> worker[v].pc = "done"

LEMMA PassFrame ==
  ASSUME TypeOK, [Next]_vars
  PROVE  \/ \E m \in Messages : AppendMessage(m) \/ ChangeRequest(m)
         \/ CloseDue
         \/ \E b \in Batches : RetryBatch(b) \/ ReclaimStuck(b)
         \/ \E w \in Workers : Claim(w) \/ Apply(w) \/ Settle(w) \/ Release(w)
         \/ Steady
<1> USE DEF quoteVars, queueVars, decisionVars
<1>1. ASSUME UNCHANGED <<batch, runs, worker>> PROVE Steady
  BY <1>1 DEF Steady, TypeOK, WorkerType
<1>2. ASSUME LinesGone, UNCHANGED <<batch, runs>> PROVE Steady
  <2>1. \A v \in Workers : worker'[v].batch = worker[v].batch /\ worker'[v].pc = worker[v].pc
    BY <1>2 DEF LinesGone, TypeOK, WorkerType
  <2> QED
    BY <1>2, <2>1 DEF Steady
<1>3. ASSUME NEW w \in Workers, Dies(w) PROVE Steady
  BY <1>3 DEF Steady, Dies, Idle, TypeOK, WorkerType
<1>4. ASSUME NEW w \in Workers, PrepareRefused(w) \/ ApplyRefused(w) \/ HandleFails(w) PROVE Steady
  <2>1. PICK pc \in {"failed", "refused"} : Goes(w, pc)
    BY <1>4 DEF PrepareRefused, ApplyRefused, HandleFails
  <2>2. worker'[w].batch = worker[w].batch /\ worker'[w].pc = pc
    BY <2>1 DEF Goes, Idle, TypeOK, WorkerType
  <2>3. \A v \in Workers : v # w => worker'[v] = worker[v]
    BY <2>1 DEF Goes, TypeOK
  <2>4. worker[w].pc \notin {"idle", "done"} /\ UNCHANGED <<batch, runs>>
    BY <1>4 DEF PrepareRefused, ApplyRefused, HandleFails, At
  <2> QED
    BY <2>2, <2>3, <2>4 DEF Steady
<1>5. ASSUME NEW w \in Workers, Prepare(w) PROVE Steady
  <2>1. worker'[w].batch = worker[w].batch /\ worker'[w].pc = "proposing" /\ worker[w].pc = "claimed"
    BY <1>5 DEF Prepare, At, TypeOK, WorkerType
  <2>2. \A v \in Workers : v # w => worker'[v] = worker[v]
    BY <1>5 DEF Prepare, TypeOK
  <2> QED
    BY <1>5, <2>1, <2>2 DEF Steady, Prepare
<1>6. ASSUME NEW w \in Workers, Propose(w) PROVE Steady
  <2>1. worker'[w].batch = worker[w].batch /\ worker'[w].pc = "applying" /\ worker[w].pc = "proposing"
    BY <1>6 DEF Propose, At, TypeOK, WorkerType
  <2>2. \A v \in Workers : v # w => worker'[v] = worker[v]
    BY <1>6 DEF Propose, TypeOK
  <2> QED
    BY <1>6, <2>1, <2>2 DEF Steady, Propose
<1>7. ASSUME NEW w \in Workers, RecipesExhausted(w) PROVE Steady
  <2>1. worker'[w].batch = worker[w].batch /\ worker'[w].pc = "applying" /\ worker[w].pc = "applying"
    BY <1>7 DEF RecipesExhausted, At, TypeOK, WorkerType
  <2>2. \A v \in Workers : v # w => worker'[v] = worker[v]
    BY <1>7 DEF RecipesExhausted, TypeOK
  <2> QED
    BY <1>7, <2>1, <2>2 DEF Steady, RecipesExhausted
<1>8. ASSUME UNCHANGED vars PROVE Steady
  BY <1>1, <1>8 DEF vars
<1>9. ASSUME Freeze \/ QuoteMoves \/ SetArchived \/ Tick PROVE Steady
  BY <1>1, <1>9 DEF Freeze, QuoteMoves, SetArchived, Tick
<1>10. ASSUME RemoveLines \/ DiscardAIChanges PROVE Steady
  BY <1>2, <1>10 DEF RemoveLines, DiscardAIChanges
<1>11. CASE Next
  BY <1>3, <1>4, <1>5, <1>6, <1>7, <1>9, <1>10, <1>11 DEF Next, Environment, Reclaim, Works
<1> QED
  BY <1>8, <1>11

(* What a pass that holds its claim knows of its run. *)
Knows(v) ==
  worker[v].pc # "idle" =>
    /\ worker[v].batch \in Batches
    /\ Held(v) => IF At(v, "done") THEN runs[worker[v].batch] > 0
                                  ELSE runs[worker[v].batch] <= batch[worker[v].batch].attempts

LEMMA KnowsIsEnough == (\A v \in Workers : Knows(v)') => HoldersKnow'
BY DEF HoldersKnow, Knows

(* A row written, not to be claimed, leaves what the other passes know. *)
LEMMA KnowledgeStands ==
  ASSUME TypeOK, HoldersKnow, NEW b \in Batches, NEW row, SetBatch(b, row), row.status # "PROCESSING",
         \A a \in Batches : a # b => runs'[a] = runs[a],
         NEW v \in Workers, worker'[v] = worker[v]
  PROVE  Knows(v)'
<1> SUFFICES ASSUME worker'[v].pc # "idle" PROVE Knows(v)'
  BY DEF Knows
<1>1. worker[v].pc # "idle" /\ worker[v].batch \in Batches
  BY DEF HoldersKnow
<1> SUFFICES ASSUME Held(v)'
             PROVE  (IF At(v, "done") THEN runs[worker[v].batch] > 0
                     ELSE runs[worker[v].batch] <= batch[worker[v].batch].attempts)'
  BY <1>1 DEF Knows
<1>2. worker[v].batch # b /\ Held(v) /\ batch'[worker[v].batch] = batch[worker[v].batch]
  BY <1>1, ClaimsStand
<1> QED
  BY <1>1, <1>2 DEF HoldersKnow, At

LEMMA HoldersStep == ASSUME Numbered, RunsAreCounted, [Next]_vars PROVE HoldersKnow'
<1> USE DEF Numbered
<1> SUFFICES ASSUME NEW v \in Workers PROVE Knows(v)'
  BY KnowsIsEnough
<1>1. ASSUME NEW m \in Messages, AppendMessage(m) \/ ChangeRequest(m) PROVE Knows(v)'
  <2>1. TheWindow \in Batches
    BY <1>1, WindowOfAMessage DEF AppendMessage, ChangeRequest
  <2>2. PICK state \in {"OPEN", "CLOSED"} : SetBatch(TheWindow, [batch[TheWindow] EXCEPT !.status = state])
    BY <1>1 DEF AppendMessage, ChangeRequest
  <2>3. [batch[TheWindow] EXCEPT !.status = state].status = state
    BY <2>1, BatchIsARow DEF BatchType
  <2>4. UNCHANGED <<runs, worker>>
    BY <1>1 DEF AppendMessage, ChangeRequest, decisionVars
  <2> QED
    BY <2>1, <2>2, <2>3, <2>4, KnowledgeStands
<1>2. CASE CloseDue
  <2>1. TheWindow \in Batches
    BY <1>2, OpenIsTheWindow DEF CloseDue
  <2>2. [batch[TheWindow] EXCEPT !.status = "CLOSED"].status = "CLOSED"
    BY <2>1, BatchIsARow DEF BatchType
  <2> QED
    BY <1>2, <2>1, <2>2, KnowledgeStands DEF CloseDue, decisionVars
<1>3. ASSUME NEW b \in Batches, RetryBatch(b) PROVE Knows(v)'
  <2>1. [batch[b] EXCEPT !.status = "CLOSED", !.attempts = 0, !.reason = "NONE"].status = "CLOSED"
    BY BatchIsARow DEF BatchType
  <2>2. \A a \in Batches : a # b => runs'[a] = runs[a]
    BY <1>3 DEF RetryBatch, TypeOK
  <2> QED
    BY <1>3, <2>1, <2>2, KnowledgeStands DEF RetryBatch
<1>4. ASSUME NEW b \in Batches, ReclaimStuck(b) PROVE Knows(v)'
  <2>1. Attempted(b, MaxAttempts, "ATTEMPTS_EXHAUSTED").status # "PROCESSING"
    BY AttemptedIsClosed
  <2> QED
    BY <1>4, <2>1, KnowledgeStands DEF ReclaimStuck, decisionVars
<1>5. ASSUME NEW w \in Workers, Claim(w) PROVE Knows(v)'
  <2> PICK b \in Batches :
        /\ Claimable(b) /\ SetBatch(b, [batch[b] EXCEPT !.status = "PROCESSING", !.owner = w])
        /\ worker' = [worker EXCEPT ![w] = [Idle EXCEPT !.pc = "claimed", !.batch = b]]
    BY <1>5 DEF Claim
  <2>1. batch[b] \in BatchType /\ runs[b] \in Nat /\ UNCHANGED runs
    BY <1>5, BatchIsARow DEF Claim, decisionVars
  <2>2. batch'[b] = [batch[b] EXCEPT !.status = "PROCESSING", !.owner = w]
        /\ \A a \in Batches : a # b => batch'[a] = batch[a]
    BY RowOfABatch
  <2>3. batch'[b].owner = w /\ batch'[b].attempts = batch[b].attempts
    BY <2>1, <2>2 DEF BatchType
  <2>4. CASE v = w
    <3>1. worker'[w].pc = "claimed" /\ worker'[w].batch = b
      BY DEF Idle, TypeOK
    <3>2. runs[b] <= batch[b].attempts
      BY <2>1 DEF RunsAreCounted, Claimable, Holds, BatchType
    <3> QED
      BY <2>1, <2>3, <2>4, <3>1, <3>2 DEF Knows, At
  <2>5. CASE v # w
    <3>1. worker'[v] = worker[v]
      BY <2>5 DEF TypeOK
    <3>2. ASSUME worker[v].pc # "idle", Held(v)' PROVE worker[v].batch # b
      BY <2>3, <2>5, <3>1, <3>2 DEF Held
    <3>3. worker[v].pc # "idle" /\ worker[v].batch # b =>
            batch'[worker[v].batch] = batch[worker[v].batch]
      BY <2>2 DEF HoldersKnow
    <3> QED
      BY <2>1, <3>1, <3>2, <3>3 DEF HoldersKnow, Knows, Held, Holds, At
  <2> QED
    BY <2>4, <2>5
<1>6. ASSUME NEW w \in Workers, Apply(w) PROVE Knows(v)'
  <2>1. /\ UNCHANGED batch /\ worker[w].pc = "applying" /\ Held(w) /\ Goes(w, "done")
        /\ runs' = [runs EXCEPT ![worker[w].batch] = @ + 1] /\ worker[w].batch \in Batches
    BY <1>6 DEF Apply, queueVars, At, HoldersKnow
  <2>2. CASE v = w
    <3>1. worker'[w].pc = "done" /\ worker'[w].batch = worker[w].batch
      BY <2>1 DEF Goes, Idle, TypeOK
    <3>2. runs'[worker[w].batch] > 0
      BY <2>1, BatchIsARow DEF TypeOK
    <3> QED
      BY <2>1, <2>2, <3>1, <3>2 DEF Knows, At
  <2>3. CASE v # w
    <3>1. worker'[v] = worker[v] /\ (Held(v)' <=> Held(v))
      BY <2>1, <2>3 DEF Goes, TypeOK, Held, Holds
    <3>2. Held(v) => worker[v].batch # worker[w].batch
      BY <2>1, <2>3, OneHolder
    <3>3. Held(v) => runs'[worker[v].batch] = runs[worker[v].batch]
      BY <2>1, <3>2 DEF TypeOK
    <3> QED
      BY <2>1, <3>1, <3>3 DEF HoldersKnow, Knows, At
  <2> QED
    BY <2>2, <2>3
<1>7. ASSUME NEW w \in Workers, Settle(w) \/ Release(w) PROVE Knows(v)'
  <2>1. worker' = [worker EXCEPT ![w] = Idle] /\ UNCHANGED runs
    BY <1>7 DEF Settle, Release, decisionVars
  <2>2. CASE v = w
    BY <2>1, <2>2 DEF Knows, Idle, TypeOK
  <2>3. CASE v # w
    <3>1. worker'[v] = worker[v]
      BY <2>1, <2>3 DEF TypeOK
    <3>2. CASE UNCHANGED batch
      BY <2>1, <3>1, <3>2 DEF HoldersKnow, Knows, Held, Holds, At
    <3>3. CASE ~UNCHANGED batch
      <4> PICK row \in BatchType : /\ worker[w].batch \in Batches /\ SetBatch(worker[w].batch, row)
                                   /\ row.status # "PROCESSING"
        BY <1>7, <3>3, PassRow
      <4> QED
        BY <2>1, <3>1, KnowledgeStands
    <3> QED
      BY <3>2, <3>3
  <2> QED
    BY <2>2, <2>3
<1>8. CASE Steady
  BY <1>8 DEF Steady, HoldersKnow, Knows, Held, Holds, At
<1> QED
  BY <1>1, <1>2, <1>3, <1>4, <1>5, <1>6, <1>7, <1>8, PassFrame

(* The runs of one batch are counted. *)
Counted(b) ==
  /\ runs[b] <= batch[b].attempts + (IF batch[b].status \in {"PROCESSING", "PROCESSED"} THEN 1 ELSE 0)
  /\ Holds(b, "PROCESSED") => runs[b] > 0

LEMMA CountedIsEnough == RunsAreCounted <=> \A b \in Batches : Counted(b)
BY DEF RunsAreCounted, Counted

(* Where one row is written, it is enough to count its runs. *)
LEMMA CountOfTheRow ==
  ASSUME TypeOK, RunsAreCounted, NEW b \in Batches, NEW row, SetBatch(b, row),
         \A a \in Batches : a # b => runs'[a] = runs[a],
         runs'[b] <= row.attempts + (IF row.status \in {"PROCESSING", "PROCESSED"} THEN 1 ELSE 0),
         row.status = "PROCESSED" => runs'[b] > 0
  PROVE  RunsAreCounted'
<1> SUFFICES ASSUME NEW a \in Batches PROVE Counted(a)'
  BY DEF RunsAreCounted, Counted
<1>1. CASE a = b
  BY <1>1, RowOfABatch DEF Counted, Holds
<1>2. CASE a # b
  BY <1>2, RowOfABatch DEF RunsAreCounted, Counted, Holds
<1> QED
  BY <1>1, <1>2

LEMMA RunsStep == ASSUME Numbered, RunsAreCounted, [Next]_vars PROVE RunsAreCounted'
<1> USE DEF Numbered
<1>1. ASSUME NEW m \in Messages, AppendMessage(m) \/ ChangeRequest(m) PROVE RunsAreCounted'
  <2>1. TheWindow \in Batches /\ batch[TheWindow].status \in {"NONE", "OPEN"}
    BY <1>1, WindowOfAMessage DEF AppendMessage, ChangeRequest
  <2>2. PICK state \in {"OPEN", "CLOSED"} : SetBatch(TheWindow, [batch[TheWindow] EXCEPT !.status = state])
    BY <1>1 DEF AppendMessage, ChangeRequest
  <2>3. batch[TheWindow] \in BatchType /\ batch[TheWindow].attempts = 0 /\ runs[TheWindow] = 0
    BY <2>1, BatchIsARow DEF BatchesFollow
  <2> DEFINE row == [batch[TheWindow] EXCEPT !.status = state]
  <2>4. row.status = state /\ row.attempts = 0
    BY <2>3 DEF BatchType
  <2>5. UNCHANGED runs
    BY <1>1 DEF AppendMessage, ChangeRequest, decisionVars
  <2> HIDE DEF row
  <2>6. SetBatch(TheWindow, row)
    BY <2>2 DEF row
  <2> QED
    BY <2>1, <2>3, <2>4, <2>5, <2>6, CountOfTheRow
<1>2. CASE CloseDue
  <2>1. TheWindow \in Batches /\ batch[TheWindow].status = "OPEN"
    BY <1>2, OpenIsTheWindow DEF CloseDue, Holds
  <2>2. batch[TheWindow] \in BatchType /\ batch[TheWindow].attempts = 0 /\ runs[TheWindow] = 0
    BY <2>1, BatchIsARow DEF BatchesFollow
  <2> DEFINE row == [batch[TheWindow] EXCEPT !.status = "CLOSED"]
  <2>3. row.status = "CLOSED" /\ row.attempts = 0
    BY <2>2 DEF BatchType
  <2>4. UNCHANGED runs /\ SetBatch(TheWindow, row)
    BY <1>2 DEF CloseDue, decisionVars
  <2> HIDE DEF row
  <2> QED
    BY <2>1, <2>2, <2>3, <2>4, CountOfTheRow
<1>3. ASSUME NEW b \in Batches, RetryBatch(b) PROVE RunsAreCounted'
  <2> DEFINE row == [batch[b] EXCEPT !.status = "CLOSED", !.attempts = 0, !.reason = "NONE"]
  <2>1. row.status = "CLOSED" /\ row.attempts = 0
    BY BatchIsARow DEF BatchType
  <2>2. /\ \A a \in Batches : a # b => runs'[a] = runs[a]
        /\ runs'[b] = 0 /\ SetBatch(b, row)
    BY <1>3 DEF RetryBatch, TypeOK
  <2> HIDE DEF row
  <2> QED
    BY <2>1, <2>2, CountOfTheRow
<1>4. ASSUME NEW b \in Batches, ReclaimStuck(b) PROVE RunsAreCounted'
  <2> DEFINE row == Attempted(b, MaxAttempts, "ATTEMPTS_EXHAUSTED")
  <2>1. row.attempts = batch[b].attempts + 1 /\ row.status \in {"CLOSED", "FAILED"}
    BY <1>4, AttemptCounts, BoundsAreNumbers DEF ReclaimStuck
  <2>2. UNCHANGED runs /\ SetBatch(b, row)
    BY <1>4 DEF ReclaimStuck, decisionVars
  <2> HIDE DEF row
  <2>3. runs[b] <= batch[b].attempts + 1 /\ runs[b] \in Nat /\ batch[b].attempts \in Nat
    BY <1>4, BatchIsARow, BoundsAreNumbers DEF ReclaimStuck, RunsAreCounted, Holds
  <2> QED
    BY <2>1, <2>2, <2>3, CountOfTheRow
<1>5. ASSUME NEW w \in Workers, Claim(w) PROVE RunsAreCounted'
  <2> PICK b \in Batches :
        Claimable(b) /\ SetBatch(b, [batch[b] EXCEPT !.status = "PROCESSING", !.owner = w])
    BY <1>5 DEF Claim
  <2> DEFINE row == [batch[b] EXCEPT !.status = "PROCESSING", !.owner = w]
  <2>1. row.attempts = batch[b].attempts /\ row.status = "PROCESSING" /\ batch[b].attempts \in Nat
    BY BatchIsARow, BoundsAreNumbers DEF BatchType
  <2>2. UNCHANGED runs /\ SetBatch(b, row)
    BY <1>5 DEF Claim, decisionVars
  <2>3. runs[b] <= batch[b].attempts /\ runs[b] \in Nat
    BY BatchIsARow DEF RunsAreCounted, Claimable, Holds
  <2> HIDE DEF row
  <2> QED
    BY <2>1, <2>2, <2>3, CountOfTheRow
<1>6. ASSUME NEW w \in Workers, Apply(w) PROVE RunsAreCounted'
  <2> DEFINE b == worker[w].batch
  <2>1. /\ UNCHANGED batch /\ Holds(b, "PROCESSING") /\ b \in Batches
        /\ runs' = [runs EXCEPT ![b] = @ + 1] /\ runs[b] <= batch[b].attempts
    BY <1>6 DEF Apply, queueVars, At, Held, HoldersKnow
  <2> HIDE DEF b
  <2>2. SetBatch(b, batch[b]) /\ batch[b].attempts \in Nat /\ runs[b] \in Nat
    BY <2>1, BatchIsARow, BoundsAreNumbers DEF SetBatch, TypeOK
  <2>3. (\A a \in Batches : a # b => runs'[a] = runs[a]) /\ runs'[b] = runs[b] + 1
    BY <2>1 DEF TypeOK
  <2> QED
    BY <2>1, <2>2, <2>3, CountOfTheRow DEF Holds
<1>7. ASSUME NEW w \in Workers, Settle(w) PROVE RunsAreCounted'
  <2> DEFINE b == worker[w].batch
  <2>1. CASE ~Held(w)
    BY <1>7, <2>1 DEF Settle, decisionVars, RunsAreCounted, Holds
  <2>2. CASE Held(w)
    <3>1. /\ b \in Batches /\ UNCHANGED runs /\ SetBatch(b, Outcome(w)) /\ Holds(b, "PROCESSING")
          /\ batch[b].attempts \in Nat /\ runs[b] \in Nat /\ runs[b] <= batch[b].attempts + 1
      <4>1. /\ b \in Batches /\ UNCHANGED runs /\ SetBatch(b, Outcome(w))
            /\ batch[b].status = "PROCESSING"
        BY <1>7, <2>2 DEF Settle, decisionVars, Held, Holds, HoldersKnow
      <4> HIDE DEF b
      <4>2. batch[b].attempts \in 0..MaxAttempts /\ runs[b] \in Nat
        BY <4>1, BatchIsARow
      <4>3. batch[b].attempts \in Nat
        BY <4>2, BoundsAreNumbers
      <4> QED
        BY <4>1, <4>2, <4>3 DEF RunsAreCounted, Holds
    <3>2. CASE At(w, "done")
      <4>1. Outcome(w).status = "PROCESSED" /\ Outcome(w).attempts = batch[b].attempts
        BY <1>7, <2>2, <3>1, <3>2, OutcomeCounts DEF Settle
      <4>2. runs[b] > 0
        BY <1>7, <2>2, <3>2 DEF HoldersKnow, At
      <4> QED
        BY <3>1, <4>1, <4>2, CountOfTheRow
    <3>3. CASE ~At(w, "done")
      <4>1. Outcome(w).status \in {"CLOSED", "FAILED"} /\ Outcome(w).attempts = batch[b].attempts + 1
        BY <1>7, <2>2, <3>1, <3>3, OutcomeCounts DEF Settle
      <4> QED
        BY <3>1, <4>1, CountOfTheRow
    <3> QED
      BY <3>2, <3>3
  <2> QED
    BY <2>1, <2>2
<1>8. ASSUME NEW w \in Workers, Release(w) PROVE RunsAreCounted'
  <2> DEFINE b == worker[w].batch
             row == [batch[b] EXCEPT !.status = "CLOSED", !.owner = Nobody]
  <2>1. CASE ~Held(w)
    BY <1>8, <2>1 DEF Release, decisionVars, RunsAreCounted, Holds
  <2>2. CASE Held(w)
    <3>1. b \in Batches /\ UNCHANGED runs /\ SetBatch(b, row) /\ runs[b] <= batch[b].attempts
      BY <1>8, <2>2 DEF Release, decisionVars, HoldersKnow, At
    <3>2. row.status = "CLOSED" /\ row.attempts = batch[b].attempts
          /\ batch[b].attempts \in Nat /\ runs[b] \in Nat
      BY <3>1, BatchIsARow, BoundsAreNumbers DEF BatchType
    <3> HIDE DEF row
    <3> QED
      BY <3>1, <3>2, CountOfTheRow
  <2> QED
    BY <2>1, <2>2
<1>9. CASE Steady
  BY <1>9 DEF Steady, RunsAreCounted, Holds
<1> QED
  BY <1>1, <1>2, <1>3, <1>4, <1>5, <1>6, <1>7, <1>8, <1>9, PassFrame

-----------------------------------------------------------------------------
(* The messages and the draft *)

(* A row that stays closed, claimed or settled moves no message. *)
Settled(state) == state \notin {"NONE", "OPEN"}

LEMMA MessagesStay ==
  ASSUME TypeOK, NoMessageStranded, UNCHANGED batchOf,
         \A b \in Batches : /\ Settled(batch'[b].status) <=> Settled(batch[b].status)
                            /\ batch'[b].status = "OPEN" <=> batch[b].status = "OPEN"
  PROVE  NoMessageStranded'
BY DEF NoMessageStranded, OpenWindow, Holds, Settled

LEMMA OneRowSettled ==
  ASSUME TypeOK, NoMessageStranded, UNCHANGED batchOf, NEW b \in Batches, NEW row, SetBatch(b, row),
         Settled(row.status), Settled(batch[b].status)
  PROVE  NoMessageStranded'
<1>1. \A a \in Batches : /\ Settled(batch'[a].status) <=> Settled(batch[a].status)
                         /\ batch'[a].status = "OPEN" <=> batch[a].status = "OPEN"
  BY RowOfABatch DEF Settled
<1> QED
  BY <1>1, MessagesStay

LEMMA StrandedStep == ASSUME Numbered, NoMessageStranded, [Next]_vars PROVE NoMessageStranded'
<1> USE DEF Numbered
<1>1. ASSUME NEW m \in Messages, AppendMessage(m) PROVE NoMessageStranded'
  <2>1. TheWindow \in Batches /\ batch[TheWindow].status \in {"NONE", "OPEN"}
    BY <1>1, WindowOfAMessage DEF AppendMessage
  <2> DEFINE row == [batch[TheWindow] EXCEPT !.status = "OPEN"]
  <2>2. SetBatch(TheWindow, row) /\ row.status = "OPEN"
    BY <1>1, <2>1, BatchIsARow DEF AppendMessage, BatchType
  <2> HIDE DEF row
  <2>3. batch'[TheWindow].status = "OPEN" /\ \A a \in Batches : a # TheWindow => batch'[a] = batch[a]
    BY <2>1, <2>2, RowOfABatch
  <2>4. batchOf[m] = Unsent /\ batchOf' = [batchOf EXCEPT ![m] = Unbatched]
    BY <1>1 DEF AppendMessage, NextMessage
  <2>5. \A b \in Batches : (\E n \in Messages : batchOf'[n] = b) <=> (\E n \in Messages : batchOf[n] = b)
    BY <2>4, BoundsAreNumbers DEF TypeOK
  <2>6. batchOf'[m] = Unbatched /\ TheWindow \in OpenWindow'
    BY <2>1, <2>3, <2>4 DEF TypeOK, OpenWindow, Holds
  <2>7. \A b \in Batches : batch'[b].status \notin {"NONE", "OPEN"} <=> batch[b].status \notin {"NONE", "OPEN"}
    BY <2>1, <2>3
  <2> QED
    BY <2>5, <2>6, <2>7 DEF NoMessageStranded
<1>2. ASSUME NEW b \in Batches, b \in {TheWindow}, b = TheWindow,
             NEW batches \in [Messages -> {Unsent, Unbatched} \cup Batches],
             batchOf' = Stamped(batches, b), \E m \in Messages : batches[m] = Unbatched,
             \A c \in Batches : (\E m \in Messages : batches[m] = c) <=> (\E m \in Messages : batchOf[m] = c),
             SetBatch(b, [batch[b] EXCEPT !.status = "CLOSED"]), \A a \in OpenWindow : a = b,
             batch[b].status \in {"NONE", "OPEN"}
      PROVE  NoMessageStranded'
  <2> DEFINE row == [batch[b] EXCEPT !.status = "CLOSED"]
  <2>1. SetBatch(b, row) /\ row.status = "CLOSED"
    BY <1>2, BatchIsARow DEF BatchType
  <2> HIDE DEF row
  <2>2. batch'[b].status = "CLOSED" /\ \A a \in Batches : a # b => batch'[a] = batch[a]
    BY <2>1, RowOfABatch
  <2>3. OpenWindow' = {}
    BY <1>2, <2>2 DEF OpenWindow, Holds
  <2>4. \A m \in Messages : batchOf'[m] = IF batches[m] = Unbatched THEN b ELSE batches[m]
    BY <1>2 DEF Stamped
  <2>5. \A m \in Messages : batchOf'[m] # Unbatched
    BY <2>4, BoundsAreNumbers
  <2>6. \A c \in Batches : c # b =>
          ((\E m \in Messages : batchOf'[m] = c) <=> (\E m \in Messages : batchOf[m] = c))
    BY <1>2, <2>4, BoundsAreNumbers
  <2>7. \E m \in Messages : batchOf'[m] = b
    BY <1>2, <2>4
  <2> QED
    BY <2>2, <2>3, <2>5, <2>6, <2>7 DEF NoMessageStranded
<1>3. ASSUME NEW m \in Messages, ChangeRequest(m) PROVE NoMessageStranded'
  <2>1. /\ TheWindow \in Batches /\ batch[TheWindow].status \in {"NONE", "OPEN"}
        /\ \A b \in OpenWindow : b = TheWindow
    BY <1>3, WindowOfAMessage DEF ChangeRequest
  <2> DEFINE batches == [batchOf EXCEPT ![m] = Unbatched]
  <2>2. batches \in [Messages -> {Unsent, Unbatched} \cup Batches] /\ batches[m] = Unbatched
    BY DEF TypeOK
  <2>3. batchOf[m] = Unsent /\ batchOf' = Stamped(batches, TheWindow)
    BY <1>3 DEF ChangeRequest, NextMessage
  <2>4. \A c \in Batches : (\E n \in Messages : batches[n] = c) <=> (\E n \in Messages : batchOf[n] = c)
    BY <2>3, BoundsAreNumbers DEF TypeOK
  <2>5. SetBatch(TheWindow, [batch[TheWindow] EXCEPT !.status = "CLOSED"])
    BY <1>3 DEF ChangeRequest
  <2> HIDE DEF batches
  <2> QED
    BY <1>2, <2>1, <2>2, <2>3, <2>4, <2>5
<1>4. CASE CloseDue
  <2>1. /\ TheWindow \in Batches /\ batch[TheWindow].status = "OPEN"
        /\ \A b \in OpenWindow : b = TheWindow
    BY <1>4, OpenIsTheWindow DEF CloseDue, Holds
  <2>2. (\E m \in Messages : batchOf[m] = Unbatched) /\ batchOf' = Stamped(batchOf, TheWindow)
    BY <1>4 DEF CloseDue, NoMessageStranded
  <2>3. SetBatch(TheWindow, [batch[TheWindow] EXCEPT !.status = "CLOSED"])
    BY <1>4 DEF CloseDue
  <2>4. batchOf \in [Messages -> {Unsent, Unbatched} \cup Batches]
    BY DEF TypeOK
  <2> QED
    BY <1>2, <2>1, <2>2, <2>3, <2>4
<1>5. ASSUME NEW b \in Batches, RetryBatch(b) PROVE NoMessageStranded'
  <2> DEFINE row == [batch[b] EXCEPT !.status = "CLOSED", !.attempts = 0, !.reason = "NONE"]
  <2>1. row.status = "CLOSED"
    BY BatchIsARow DEF BatchType
  <2>2. SetBatch(b, row) /\ UNCHANGED batchOf /\ batch[b].status = "FAILED"
    BY <1>5 DEF RetryBatch, Holds
  <2> HIDE DEF row
  <2> QED
    BY <2>1, <2>2, OneRowSettled DEF Settled
<1>6. ASSUME NEW b \in Batches, ReclaimStuck(b) PROVE NoMessageStranded'
  <2>1. Attempted(b, MaxAttempts, "ATTEMPTS_EXHAUSTED").status \in {"CLOSED", "FAILED"}
    BY AttemptedIsClosed
  <2> QED
    BY <1>6, <2>1, OneRowSettled DEF ReclaimStuck, Holds, Settled
<1>7. ASSUME NEW w \in Workers, Claim(w) PROVE NoMessageStranded'
  <2> PICK b \in Batches :
        Claimable(b) /\ SetBatch(b, [batch[b] EXCEPT !.status = "PROCESSING", !.owner = w])
    BY <1>7 DEF Claim
  <2> DEFINE row == [batch[b] EXCEPT !.status = "PROCESSING", !.owner = w]
  <2>1. row.status = "PROCESSING" /\ batch[b].status = "CLOSED"
    BY BatchIsARow DEF BatchType, Claimable, Holds
  <2>2. SetBatch(b, row) /\ UNCHANGED batchOf
    BY <1>7 DEF Claim
  <2> HIDE DEF row
  <2> QED
    BY <2>1, <2>2, OneRowSettled DEF Settled
<1>8. ASSUME NEW w \in Workers, Settle(w) \/ Release(w) PROVE NoMessageStranded'
  <2>1. UNCHANGED batchOf
    BY <1>8 DEF Settle, Release
  <2>2. CASE UNCHANGED batch
    BY <2>1, <2>2, MessagesStay
  <2>3. CASE ~UNCHANGED batch
    BY <1>8, <2>1, <2>3, PassRow, OneRowSettled DEF Holds, Settled
  <2> QED
    BY <2>2, <2>3
<1>9. CASE UNCHANGED <<batchOf, batch>>
  BY <1>9, MessagesStay
<1>10. CASE Tick
  BY <1>10, MessagesStay DEF Tick
<1> QED
  BY <1>1, <1>3, <1>4, <1>5, <1>6, <1>7, <1>8, <1>9, <1>10, QueueFrame

LEMMA UndecidedStep == ASSUME TypeOK, UndecidedOnTheDraft, [Next]_vars PROVE UndecidedOnTheDraft'
<1> USE DEF quoteVars, queueVars, decisionVars
<1>1. ASSUME UNCHANGED <<version, draft>>, undecided' \subseteq undecided PROVE UndecidedOnTheDraft'
  BY <1>1 DEF UndecidedOnTheDraft
<1>2. ASSUME undecided' = {} PROVE UndecidedOnTheDraft'
  BY <1>2 DEF UndecidedOnTheDraft
<1>3. ASSUME NEW m \in Messages, ChangeRequest(m) PROVE UndecidedOnTheDraft'
  <2>1. ~draft /\ UNCHANGED undecided
    BY <1>3 DEF ChangeRequest
  <2> QED
    BY <1>2, <2>1 DEF UndecidedOnTheDraft
<1>4. CASE Freeze
  BY <1>2, <1>4 DEF Freeze, UndecidedOnTheDraft
<1>5. CASE QuoteMoves
  <2>1. CASE ~draft /\ UNCHANGED undecided
    BY <1>2, <2>1 DEF UndecidedOnTheDraft
  <2>2. CASE draft
    BY <1>1, <1>5, <2>2 DEF QuoteMoves, Lifecycle!Publish, Lifecycle!Price, Lifecycle!Answer,
       Lifecycle!Settle, Lifecycle!ReopenForResend, Lifecycle!ReopenForEdit, Lifecycle!LateDraft
  <2> QED
    BY <1>5, <2>1, <2>2 DEF QuoteMoves, TypeOK
<1>6. ASSUME NEW w \in Workers, Prepare(w) PROVE UndecidedOnTheDraft'
  <2>1. UNCHANGED undecided /\ draft' = TRUE /\ version' = IF draft THEN version ELSE version + 1
    BY <1>6 DEF Prepare, Lifecycle!ChangeRequested, Lifecycle!NextDraft
  <2> QED
    BY <2>1 DEF UndecidedOnTheDraft
<1>7. ASSUME NEW w \in Workers, Apply(w) PROVE UndecidedOnTheDraft'
  BY <1>7 DEF Apply, DraftStands, UndecidedOnTheDraft
<1>8. ASSUME NEW w \in Workers, Claim(w) \/ PrepareRefused(w) \/ Propose(w) \/ RecipesExhausted(w)
             \/ ApplyRefused(w) \/ HandleFails(w) \/ Settle(w) \/ Release(w) \/ Dies(w)
      PROVE  UndecidedOnTheDraft'
  <2>1. UNCHANGED <<version, draft, undecided>>
    BY <1>8 DEF Claim, PrepareRefused, Propose, RecipesExhausted, ApplyRefused, HandleFails, Settle,
       Release, Dies
  <2> QED
    BY <1>1, <2>1
<1>9. CASE (\E m \in Messages : AppendMessage(m)) \/ SetArchived \/ RemoveLines \/ DiscardAIChanges
           \/ (\E b \in Batches : RetryBatch(b)) \/ Tick \/ CloseDue \/ Reclaim
  <2>1. UNCHANGED <<version, draft>> /\ undecided' \subseteq undecided
    BY <1>9 DEF AppendMessage, SetArchived, RemoveLines, DiscardAIChanges, RetryBatch, Tick, CloseDue,
       Reclaim, ReclaimStuck
  <2> QED
    BY <1>1, <2>1
<1>10. CASE UNCHANGED vars
  BY <1>1, <1>10 DEF vars
<1>11. CASE Next
  BY <1>3, <1>4, <1>5, <1>6, <1>7, <1>8, <1>9, <1>11 DEF Next, Environment, Works
<1> QED
  BY <1>10, <1>11

-----------------------------------------------------------------------------
(* The theorems *)

LEMMA InvariantInit == Init => IInv
<1> SUFFICES ASSUME Init PROVE IInv
  OBVIOUS
<1>1. TypeOK
  BY TypeInit
<1>2. \A b \in Batches : /\ batch[b].status = "NONE" /\ batch[b].attempts = 0 /\ runs[b] = 0
  BY DEF Init
<1>3. OpenWindow = {}
  BY <1>2 DEF OpenWindow, Holds
<1>4. WindowsFollow
  BY <1>3, BoundsAreNumbers DEF Init, WindowsFollow, Messages
<1>5. BatchesFollow
  <2>1. 0 < MaxAttempts
    BY BoundsAreNumbers
  <2> QED
    BY <1>2, <2>1 DEF BatchesFollow, Holds
<1>6. HoldersKnow
  BY DEF Init, HoldersKnow, Idle
<1>7. RunsAreCounted
  BY <1>2 DEF RunsAreCounted, Holds
<1>8. NoMessageStranded
  <2>1. \A m \in Messages : batchOf[m] = Unsent
    BY DEF Init
  <2> QED
    BY <1>2, <1>3, <2>1, BoundsAreNumbers DEF NoMessageStranded
<1>9. UndecidedOnTheDraft
  BY DEF Init, UndecidedOnTheDraft
<1> QED
  BY <1>1, <1>4, <1>5, <1>6, <1>7, <1>8, <1>9 DEF IInv

LEMMA InvariantStep == IInv /\ [Next]_vars => IInv'
BY TypeStep, WindowsStep, BatchesStep, HoldersStep, RunsStep, StrandedStep, UndecidedStep DEF IInv, Numbered

(* Whatever crosses, dies, is shut down or is retried, the invariant holds. *)
THEOREM Invariant == Spec => []IInv
BY InvariantInit, InvariantStep, PTL DEF Spec

(* Every row, message, decision and pass keeps the shape the schema gives it: *)
(* no attempt is counted past MaxAttempts, no batch is opened that no message *)
(* is behind, no claim is of a batch that does not exist.                     *)
THEOREM TypeCorrect == Spec => []TypeOK
<1>1. IInv => TypeOK
  BY DEF IInv
<1> QED
  BY <1>1, Invariant, PTL

(* Every run of the handler is an attempt that was counted, or the one that *)
(* finishes the batch, however the passes and the reclaim cross.            *)
THEOREM EveryRunIsCounted == Spec => []RunsAreCounted
<1>1. IInv => RunsAreCounted
  BY DEF IInv
<1> QED
  BY <1>1, Invariant, PTL

(* No message is left outside a batch without an open window, and no batch *)
(* is without a message.                                                   *)
THEOREM NoMessageIsStranded == Spec => []NoMessageStranded
<1>1. IInv => NoMessageStranded
  BY DEF IInv
<1> QED
  BY <1>1, Invariant, PTL

(* No decision waits for the seller on a version that was frozen. *)
THEOREM DecisionsAreOnTheDraft == Spec => []UndecidedOnTheDraft
<1>1. IInv => UndecidedOnTheDraft
  BY DEF IInv
<1> QED
  BY <1>1, Invariant, PTL

(* A step that moves a pass on is that pass's own. *)
LEMMA OnlyItsOwnStep ==
  ASSUME TypeOK, [Next]_vars, NEW w \in Workers, worker[w].pc \notin {"idle", worker'[w].pc}
  PROVE  Works(w) \/ Release(w) \/ Dies(w)
<1>1. worker' # worker
  OBVIOUS
<1>2. ~(RemoveLines \/ DiscardAIChanges)
  <2>1. LinesGone => worker'[w].pc = worker[w].pc
    BY DEF LinesGone, TypeOK, WorkerType
  <2> QED
    BY <2>1 DEF RemoveLines, DiscardAIChanges
<1>3. ASSUME NEW v \in Workers, Works(v) \/ Release(v) \/ Dies(v) PROVE v = w
  <2>1. ASSUME NEW u \in Workers, u # v PROVE worker'[u] = worker[u]
    BY <1>3, <2>1 DEF Works, Claim, Prepare, PrepareRefused, Propose, RecipesExhausted, Apply,
       ApplyRefused, HandleFails, Settle, Release, Dies, Goes, TypeOK
  <2> QED
    BY <2>1
<1>4. CASE Next
  <2>1. ASSUME \/ \E m \in Messages : AppendMessage(m) \/ ChangeRequest(m)
               \/ Freeze \/ QuoteMoves \/ SetArchived \/ Tick \/ CloseDue
               \/ \E b \in Batches : RetryBatch(b) \/ ReclaimStuck(b)
        PROVE  FALSE
    BY <1>1, <2>1 DEF AppendMessage, ChangeRequest, Freeze, QuoteMoves, SetArchived, Tick, CloseDue,
       RetryBatch, ReclaimStuck
  <2> QED
    BY <1>2, <1>3, <1>4, <2>1 DEF Next, Environment, Reclaim
<1>5. CASE UNCHANGED vars
  BY <1>1, <1>5 DEF vars
<1> QED
  BY <1>4, <1>5

(* A pass that lost its claim, and comes back late, changes nothing of the *)
(* quote, of the batch or of the decisions.                                *)
THEOREM LateRunsAreHarmless == Spec => LateRunChangesNothing
<1> USE DEF quoteVars, queueVars, decisionVars
<1> DEFINE Late == \A w \in Workers :
              worker[w].pc \notin {"idle", worker'[w].pc} /\ ~Held(w)
                => UNCHANGED <<quoteVars, batch, decisionVars>>
<1>1. TypeOK /\ [Next]_vars => Late
  <2> SUFFICES ASSUME TypeOK, [Next]_vars, NEW w \in Workers,
                      worker[w].pc \notin {"idle", worker'[w].pc}, ~Held(w)
               PROVE  UNCHANGED <<quoteVars, batch, decisionVars>>
    OBVIOUS
  <2>1. Works(w) \/ Release(w) \/ Dies(w)
    BY OnlyItsOwnStep
  <2>2. ~(Claim(w) \/ Prepare(w) \/ PrepareRefused(w) \/ Apply(w) \/ RecipesExhausted(w)
          \/ ApplyRefused(w))
    BY DEF Claim, Prepare, PrepareRefused, Apply, RecipesExhausted, ApplyRefused, At
  <2> QED
    BY <2>1, <2>2 DEF Works, Propose, HandleFails, Settle, Release, Dies
<1> HIDE DEF Late
<1>2. [Next]_vars /\ TypeOK => [Late]_vars
  BY <1>1
<1>3. Spec => [][Late]_vars
  BY <1>2, TypeCorrect, PTL DEF Spec
<1> QED
  BY <1>3 DEF Late, LateRunChangesNothing

-----------------------------------------------------------------------------
(* The order of the queue *)

LEMMA InsertedPlaces ==
  ASSUME NEW s \in Seq(Batches), NEW k \in 0..Len(s), NEW b \in Batches
  PROVE  /\ Len(InsertAt(s, k + 1, b)) = Len(s) + 1
         /\ \A i \in 1..(Len(s) + 1) :
              InsertAt(s, k + 1, b)[i] = IF i <= k THEN s[i] ELSE IF i = k + 1 THEN b ELSE s[i - 1]
<1> DEFINE front == SubSeq(s, 1, k)
           back == SubSeq(s, k + 1, Len(s))
<1>1. InsertAt(s, k + 1, b) = (front \o <<b>>) \o back
  <2>1. (k + 1) - 1 = k
    OBVIOUS
  <2> QED
    BY <2>1, Zenon DEF InsertAt
<1>2. /\ front \in Seq(Batches) /\ Len(front) = k
      /\ \A i \in 1..k : front[i] = s[i]
  OBVIOUS
<1>3. /\ back \in Seq(Batches) /\ Len(back) = Len(s) - k
      /\ \A i \in 1..(Len(s) - k) : back[i] = s[k + i]
  OBVIOUS
<1> HIDE DEF front, back
<1>4. /\ front \o <<b>> \in Seq(Batches) /\ Len(front \o <<b>>) = k + 1
      /\ \A i \in 1..(k + 1) : (front \o <<b>>)[i] = IF i <= k THEN front[i] ELSE b
  BY <1>2
<1>5. /\ Len((front \o <<b>>) \o back) = Len(s) + 1
      /\ \A i \in 1..(Len(s) + 1) : ((front \o <<b>>) \o back)[i] =
           IF i <= k + 1 THEN (front \o <<b>>)[i] ELSE back[i - (k + 1)]
  BY <1>3, <1>4
<1>6. ASSUME NEW i \in 1..(Len(s) + 1)
      PROVE  ((front \o <<b>>) \o back)[i] = IF i <= k THEN s[i] ELSE IF i = k + 1 THEN b ELSE s[i - 1]
  <2>1. CASE i <= k + 1
    BY <1>2, <1>4, <1>5, <2>1
  <2>2. CASE i > k + 1
    <3>1. i - (k + 1) \in 1..(Len(s) - k) /\ k + (i - (k + 1)) = i - 1
      BY <2>2
    <3>2. back[i - (k + 1)] = s[k + (i - (k + 1))]
      BY <1>3, <3>1
    <3>3. ((front \o <<b>>) \o back)[i] = back[i - (k + 1)]
      BY <1>5, <2>2
    <3>4. ((front \o <<b>>) \o back)[i] = s[i - 1]
      BY <3>1, <3>2, <3>3, Zenon
    <3>5. ~(i <= k) /\ i # k + 1
      BY <2>2
    <3> QED
      BY <3>4, <3>5, Zenon
  <2>3. i <= k + 1 \/ i > k + 1
    OBVIOUS
  <2> QED
    BY <2>1, <2>2, <2>3, Zenon
<1> DEFINE t == (front \o <<b>>) \o back
<1>7. InsertAt(s, k + 1, b) = t
  BY <1>1
<1>8. /\ Len(t) = Len(s) + 1
      /\ \A i \in 1..(Len(s) + 1) : t[i] = IF i <= k THEN s[i] ELSE IF i = k + 1 THEN b ELSE s[i - 1]
  BY <1>5, <1>6
<1> HIDE DEF t
<1> QED
  BY <1>7, <1>8

(* What stands in the queue was closed, and is not opened again. *)
Queue == \A i \in DOMAIN order : Settled(batch[order[i]].status)

(* The order is kept where no place is taken and no settled batch comes back. *)
LEMMA PlacesStand ==
  ASSUME TypeOK, Queue, QueueInOrder, UNCHANGED order, late \subseteq late',
         NEW b \in Batches, NEW row, SetBatch(b, row), Settled(row.status),
         batch[b].status \in {"PROCESSED", "FAILED"} /\ row.status \notin {"PROCESSED", "FAILED"}
           => b \in late',
         row.status # "CLOSED" /\ batch[b].status = "CLOSED" =>
           \A i, j \in DOMAIN order : i < j /\ order[j] = b => batch[order[i]].status \in {"PROCESSED", "FAILED"}
  PROVE  Queue' /\ QueueInOrder'
<1>1. \A i \in DOMAIN order : order[i] \in Batches
  BY DEF TypeOK
<1>2. batch'[b] = row /\ \A a \in Batches : a # b => batch'[a] = batch[a]
  BY RowOfABatch
<1>3. Queue'
  BY <1>1, <1>2 DEF Queue
<1>4. ASSUME NEW i \in DOMAIN order, NEW j \in DOMAIN order, i < j, order[i] \notin late',
             batch'[order[j]].status # "CLOSED"
      PROVE  batch'[order[i]].status \in {"PROCESSED", "FAILED"}
  <2>1. order[i] \notin late
    BY <1>4
  <2>2. batch[order[i]].status \in {"PROCESSED", "FAILED"}
    <3>1. CASE order[j] = b /\ batch[b].status = "CLOSED"
      BY <1>2, <1>4, <3>1
    <3>2. CASE ~(order[j] = b /\ batch[b].status = "CLOSED")
      <4>1. batch[order[j]].status # "CLOSED"
        BY <1>1, <1>2, <1>4, <3>2
      <4> QED
        BY <1>4, <2>1, <4>1 DEF QueueInOrder
    <3> QED
      BY <3>1, <3>2
  <2> QED
    BY <1>1, <1>2, <1>4, <2>2
<1>5. QueueInOrder'
  BY <1>4 DEF QueueInOrder
<1> QED
  BY <1>3, <1>5

(* A batch that joins the queue is closed, and late unless it is the last. *)
LEMMA PlaceTaken ==
  ASSUME TypeOK, Queue, QueueInOrder, NEW b \in Batches, NEW row, SetBatch(b, row),
         row.status = "CLOSED", ~Settled(batch[b].status), NEW k \in 0..Len(order),
         order' = InsertAt(order, k + 1, b),
         late' = IF k < Len(order) THEN late \cup {b} ELSE late
  PROVE  Queue' /\ QueueInOrder'
<1>1. /\ order \in Seq(Batches) /\ Len(order) \in Nat /\ DOMAIN order = 1..Len(order)
      /\ \A i \in 1..Len(order) : order[i] \in Batches /\ order[i] # b
  BY DEF TypeOK, Queue
<1>2. /\ Len(order') = Len(order) + 1
      /\ \A i \in 1..(Len(order) + 1) :
           order'[i] = IF i <= k THEN order[i] ELSE IF i = k + 1 THEN b ELSE order[i - 1]
  BY <1>1, InsertedPlaces
<1>3. order' \in Seq(Batches) /\ DOMAIN order' = 1..(Len(order) + 1)
  BY <1>1, <1>2, InsertedType
<1>4. batch'[b].status = "CLOSED" /\ \A a \in Batches : a # b => batch'[a] = batch[a]
  BY RowOfABatch
<1> DEFINE old(i) == IF i <= k THEN i ELSE i - 1
<1>5. ASSUME NEW i \in DOMAIN order', i # k + 1
      PROVE  /\ old(i) \in DOMAIN order /\ order'[i] = order[old(i)]
             /\ order'[i] # b /\ batch'[order'[i]] = batch[order[old(i)]]
  BY <1>1, <1>2, <1>3, <1>4, <1>5
<1>6. order'[k + 1] = b
  BY <1>1, <1>2
<1>7. Queue'
  BY <1>4, <1>5, <1>6 DEF Queue, Settled
<1>8. ASSUME NEW i \in DOMAIN order', NEW j \in DOMAIN order', i < j, order'[i] \notin late',
             batch'[order'[j]].status # "CLOSED"
      PROVE  batch'[order'[i]].status \in {"PROCESSED", "FAILED"}
  <2>1. j # k + 1
    BY <1>4, <1>6, <1>8
  <2>2. i # k + 1
    BY <1>1, <1>3, <1>6, <1>8, <2>1
  <2>3. old(i) < old(j) /\ order[old(i)] \notin late
    BY <1>1, <1>3, <1>5, <1>8, <2>1, <2>2
  <2> QED
    BY <1>5, <1>8, <2>1, <2>2, <2>3 DEF QueueInOrder
<1>9. QueueInOrder'
  BY <1>8 DEF QueueInOrder
<1> QED
  BY <1>7, <1>9

(* Appending is taking the last place. *)
LEMMA LastPlace ==
  ASSUME NEW s \in Seq(Batches), NEW b \in Batches
  PROVE  /\ Len(s) \in 0..Len(s) /\ ~(Len(s) < Len(s))
         /\ Append(s, b) = InsertAt(s, Len(s) + 1, b)
<1>1. /\ InsertAt(s, Len(s) + 1, b) \in Seq(Batches)
      /\ Len(InsertAt(s, Len(s) + 1, b)) = Len(s) + 1
      /\ \A i \in 1..(Len(s) + 1) :
           InsertAt(s, Len(s) + 1, b)[i] = IF i <= Len(s) THEN s[i] ELSE IF i = Len(s) + 1 THEN b ELSE s[i - 1]
  <2>1. Len(s) \in 0..Len(s)
    OBVIOUS
  <2> QED
    BY <2>1, InsertedType, InsertedPlaces
<1> DEFINE t == InsertAt(s, Len(s) + 1, b)
<1>2. t \in Seq(Batches) /\ Len(t) = Len(s) + 1
      /\ \A i \in 1..(Len(s) + 1) : t[i] = IF i <= Len(s) THEN s[i] ELSE b
  BY <1>1
<1> HIDE DEF t
<1>3. Append(s, b) = t
  <2>1. /\ Append(s, b) \in Seq(Batches) /\ Len(Append(s, b)) = Len(s) + 1
        /\ \A i \in 1..(Len(s) + 1) : Append(s, b)[i] = IF i <= Len(s) THEN s[i] ELSE b
    OBVIOUS
  <2> DEFINE u == Append(s, b)
  <2> HIDE DEF u
  <2>2. u \in Seq(Batches) /\ Len(u) = Len(t) /\ \A i \in 1..Len(t) : u[i] = t[i]
    BY <1>2, <2>1 DEF u
  <2>3. u = t
    BY <1>2, <2>2
  <2> QED
    BY <2>3 DEF u
<1> QED
  BY <1>3 DEF t

LEMMA QueueStep ==
  ASSUME IInv, Queue, QueueInOrder, [Next]_vars
  PROVE  Queue' /\ QueueInOrder'
<1> USE DEF IInv, Numbered
<1>1. ASSUME NEW m \in Messages, AppendMessage(m) PROVE Queue' /\ QueueInOrder'
  <2>1. TheWindow \in Batches /\ batch[TheWindow].status \in {"NONE", "OPEN"}
    BY <1>1, WindowOfAMessage DEF AppendMessage
  <2>2. \A a \in Batches : a # TheWindow => batch'[a] = batch[a]
    BY <1>1, <2>1, RowOfABatch DEF AppendMessage
  <2>3. \A i \in DOMAIN order : order[i] \in Batches /\ order[i] # TheWindow
    BY <2>1 DEF TypeOK, Queue, Settled
  <2> QED
    BY <1>1, <2>2, <2>3 DEF AppendMessage, Queue, QueueInOrder
<1>2. ASSUME NEW m \in Messages, ChangeRequest(m) PROVE Queue' /\ QueueInOrder'
  <2>1. TheWindow \in Batches /\ ~Settled(batch[TheWindow].status)
    BY <1>2, WindowOfAMessage DEF ChangeRequest, Settled
  <2> DEFINE row == [batch[TheWindow] EXCEPT !.status = "CLOSED"]
  <2>2. SetBatch(TheWindow, row) /\ row.status = "CLOSED"
    BY <1>2, <2>1, BatchIsARow DEF ChangeRequest, BatchType
  <2>3. PICK k \in 0..Len(order) :
          /\ order' = InsertAt(order, k + 1, TheWindow)
          /\ late' = IF k < Len(order) THEN late \cup {TheWindow} ELSE late
    BY <1>2 DEF ChangeRequest
  <2> HIDE DEF row
  <2> QED
    BY <2>1, <2>2, <2>3, PlaceTaken
<1>3. CASE CloseDue
  <2>1. TheWindow \in Batches /\ ~Settled(batch[TheWindow].status)
    BY <1>3, OpenIsTheWindow DEF CloseDue, Settled, Holds
  <2> DEFINE row == [batch[TheWindow] EXCEPT !.status = "CLOSED"]
  <2>2. SetBatch(TheWindow, row) /\ row.status = "CLOSED"
    BY <1>3, <2>1, BatchIsARow DEF CloseDue, BatchType
  <2>3. /\ order' = InsertAt(order, Len(order) + 1, TheWindow) /\ Len(order) \in 0..Len(order)
        /\ late' = IF Len(order) < Len(order) THEN late \cup {TheWindow} ELSE late
    BY <1>3, <2>1, LastPlace DEF CloseDue, TypeOK
  <2> HIDE DEF row
  <2> QED
    BY <2>1, <2>2, <2>3, PlaceTaken
<1>4. ASSUME NEW b \in Batches, RetryBatch(b) PROVE Queue' /\ QueueInOrder'
  <2> DEFINE row == [batch[b] EXCEPT !.status = "CLOSED", !.attempts = 0, !.reason = "NONE"]
  <2>1. row.status = "CLOSED"
    BY BatchIsARow DEF BatchType
  <2>2. SetBatch(b, row) /\ UNCHANGED order /\ late' = late \cup {b}
    BY <1>4 DEF RetryBatch
  <2> HIDE DEF row
  <2> QED
    BY <2>1, <2>2, PlacesStand DEF Settled
<1>5. ASSUME NEW b \in Batches, ReclaimStuck(b) PROVE Queue' /\ QueueInOrder'
  <2>1. Attempted(b, MaxAttempts, "ATTEMPTS_EXHAUSTED").status \in {"CLOSED", "FAILED"}
    BY AttemptedIsClosed
  <2>2. UNCHANGED <<order, late>> /\ batch[b].status = "PROCESSING"
    BY <1>5 DEF ReclaimStuck, Holds
  <2> QED
    BY <1>5, <2>1, <2>2, PlacesStand DEF ReclaimStuck, Settled
<1>6. ASSUME NEW w \in Workers, Claim(w) PROVE Queue' /\ QueueInOrder'
  <2> PICK b \in Batches :
        Claimable(b) /\ SetBatch(b, [batch[b] EXCEPT !.status = "PROCESSING", !.owner = w])
    BY <1>6 DEF Claim
  <2> DEFINE row == [batch[b] EXCEPT !.status = "PROCESSING", !.owner = w]
  <2>1. row.status = "PROCESSING"
    BY BatchIsARow DEF BatchType
  <2>2. SetBatch(b, row) /\ UNCHANGED <<order, late>> /\ batch[b].status = "CLOSED"
    BY <1>6 DEF Claim, Claimable, Holds
  <2> HIDE DEF row
  <2>3. ASSUME NEW i \in DOMAIN order, NEW j \in DOMAIN order, i < j, order[j] = b
        PROVE  batch[order[i]].status \in {"PROCESSED", "FAILED"}
    <3>1. order[i] \in Batches /\ Before(order[i], b)
      BY <2>3 DEF Before, TypeOK
    <3>2. batch[order[i]].status \notin {"PROCESSING", "CLOSED"}
      BY <3>1 DEF Claimable, Holds
    <3> QED
      BY <2>3, <3>1, <3>2, BatchIsARow DEF Queue, Settled
  <2> QED
    BY <2>1, <2>2, <2>3, PlacesStand DEF Settled
<1>7. ASSUME NEW w \in Workers, Settle(w) \/ Release(w) PROVE Queue' /\ QueueInOrder'
  <2>1. UNCHANGED <<order, late>>
    BY <1>7 DEF Settle, Release
  <2>2. CASE UNCHANGED batch
    BY <2>1, <2>2 DEF Queue, QueueInOrder
  <2>3. CASE ~UNCHANGED batch
    <3> PICK row \in BatchType :
          /\ worker[w].batch \in Batches /\ batch[worker[w].batch].status = "PROCESSING"
          /\ SetBatch(worker[w].batch, row) /\ row.status \in {"CLOSED", "PROCESSED", "FAILED"}
      BY <1>7, <2>3, PassRow DEF Holds
    <3> QED
      BY <2>1, PlacesStand DEF Settled
  <2> QED
    BY <2>2, <2>3
<1>8. CASE UNCHANGED <<batchOf, opened, batch, window, order, late>>
  BY <1>8 DEF Queue, QueueInOrder
<1>9. CASE Tick
  BY <1>9 DEF Tick, Queue, QueueInOrder
<1> QED
  BY <1>1, <1>2, <1>3, <1>4, <1>5, <1>6, <1>7, <1>8, <1>9, QueueFrame

(* However claims are lost, released and retried, a batch leaves the queue  *)
(* only after the ones before it are settled.                               *)
THEOREM QueueIsInOrder == Spec => []QueueInOrder
<1>1. Init => Queue /\ QueueInOrder
  BY DEF Init, Queue, QueueInOrder
<1>2. IInv /\ Queue /\ QueueInOrder /\ [Next]_vars => Queue' /\ QueueInOrder'
  BY QueueStep
<1> QED
  BY <1>1, <1>2, Invariant, PTL DEF Spec

-----------------------------------------------------------------------------
(* The promise to the customer *)

States == [m \in Messages |-> MessageState(m)]

(* Messages of one batch move together, if they move at all. *)
LEMMA BatchMoves ==
  ASSUME NEW b \in Batches, NEW to, UNCHANGED batchOf,
         \A m \in Messages : batchOf[m] # b => MessageState(m)' = MessageState(m),
         \A m \in Messages : batchOf[m] = b => MessageState(m)' = to,
         NEW from, \A m \in Messages : batchOf[m] = b => MessageState(m) \in from
  PROVE  \/ States' = States
         \/ \E S \in SUBSET Messages : Inbox!Move(S, from, to)
<1> DEFINE S == {m \in Messages : batchOf[m] = b}
<1>1. CASE S = {}
  BY <1>1 DEF States
<1>2. CASE S # {}
  <2>1. \A m \in S : States[m] \in from
    BY DEF States
  <2>2. States' = [m \in Messages |-> IF m \in S THEN to ELSE States[m]]
    BY DEF States
  <2> QED
    BY <1>2, <2>1, <2>2 DEF Inbox!Move, States
<1> QED
  BY <1>1, <1>2

(* What a message shows is what the row of its batch shows. *)
Shows(state, times) ==
  CASE state = "PROCESSED" -> "handled"
    [] state = "FAILED" -> "given up"
    [] OTHER -> IF times > 0 THEN "answered" ELSE "waiting"

LEMMA StateOfAMessage ==
  ASSUME TypeOK, NEW m \in Messages
  PROVE  /\ batchOf[m] = Unsent => MessageState(m) = "unsent"
         /\ batchOf[m] = Unbatched => MessageState(m) = "waiting"
         /\ batchOf[m] \in Batches => MessageState(m) = Shows(batch[batchOf[m]].status, runs[batchOf[m]])
         /\ batchOf[m] \in {Unsent, Unbatched} \cup Batches
<1>1. batchOf[m] \in {Unsent, Unbatched} \cup Batches
  BY DEF TypeOK
<1>2. CASE batchOf[m] = Unsent
  BY <1>2, BoundsAreNumbers DEF MessageState
<1>3. CASE batchOf[m] = Unbatched
  BY <1>3, BoundsAreNumbers DEF MessageState
<1>4. CASE batchOf[m] \in Batches
  BY <1>4, BoundsAreNumbers DEF MessageState, Shows, Holds
<1> QED
  BY <1>1, <1>2, <1>3, <1>4, BoundsAreNumbers

(* The row of one batch is written: its messages show what it shows. *)
LEMMA RowMoves ==
  ASSUME TypeOK, TypeOK', UNCHANGED batchOf, NEW b \in Batches,
         \A a \in Batches : a # b => batch'[a] = batch[a] /\ runs'[a] = runs[a],
         NEW from, Shows(batch[b].status, runs[b]) \in from
  PROVE  \/ States' = States
         \/ \E S \in SUBSET Messages : Inbox!Move(S, from, Shows(batch'[b].status, runs'[b]))
<1>1. ASSUME NEW m \in Messages, batchOf[m] # b PROVE MessageState(m)' = MessageState(m)
  <2>1. CASE batchOf[m] \in {Unsent, Unbatched}
    BY <2>1, BoundsAreNumbers DEF MessageState
  <2>2. CASE batchOf[m] \in Batches
    BY <1>1, <2>2 DEF MessageState, Holds
  <2> QED
    BY <2>1, <2>2, StateOfAMessage
<1>2. ASSUME NEW m \in Messages, batchOf[m] = b
      PROVE  /\ MessageState(m)' = Shows(batch'[b].status, runs'[b])
             /\ MessageState(m) = Shows(batch[b].status, runs[b])
  BY <1>2, BoundsAreNumbers DEF MessageState, Shows, Holds
<1> DEFINE to == Shows(batch'[b].status, runs'[b])
<1>3. \A m \in Messages : batchOf[m] = b => MessageState(m)' = to /\ MessageState(m) \in from
  BY <1>2
<1> HIDE DEF to
<1>4. States' = States \/ \E S \in SUBSET Messages : Inbox!Move(S, from, to)
  BY <1>1, <1>3, BatchMoves
<1> QED
  BY <1>4 DEF to

(* A row that shows the same moves nothing. *)
LEMMA RowStays ==
  ASSUME TypeOK, TypeOK', UNCHANGED batchOf, NEW b \in Batches,
         \A a \in Batches : a # b => batch'[a] = batch[a] /\ runs'[a] = runs[a],
         Shows(batch'[b].status, runs'[b]) = Shows(batch[b].status, runs[b])
  PROVE  States' = States
<1>1. ASSUME NEW m \in Messages PROVE MessageState(m)' = MessageState(m)
  <2>1. CASE batchOf[m] \in {Unsent, Unbatched}
    BY <2>1, BoundsAreNumbers DEF MessageState
  <2>2. CASE batchOf[m] \in Batches /\ batchOf[m] # b
    BY <2>2 DEF MessageState, Holds
  <2>3. CASE batchOf[m] = b
    BY <2>3, BoundsAreNumbers DEF MessageState, Shows, Holds
  <2> QED
    BY <2>1, <2>2, <2>3, StateOfAMessage
<1> QED
  BY <1>1 DEF States

(* A message arrives alone, and the messages that waited go on waiting. *)
LEMMA MessageArrives ==
  ASSUME NEW m \in Messages, MessageState(m) = "unsent", MessageState(m)' = "waiting",
         \A n \in Messages : n # m => MessageState(n)' = MessageState(n)
  PROVE  Inbox!Arrive(m)
<1>1. States' = [n \in Messages |-> IF n \in {m} THEN "waiting" ELSE States[n]]
  BY DEF States
<1>2. {m} # {} /\ \A n \in {m} : States[n] \in {"unsent"}
  BY DEF States
<1> QED
  BY <1>1, <1>2 DEF Inbox!Arrive, Inbox!Move, States

InboxMoves ==
  \/ \E m \in Messages : Inbox!Arrive(m)
  \/ \E S \in SUBSET Messages : Inbox!Answer(S) \/ Inbox!Handled(S) \/ Inbox!GiveUp(S) \/ Inbox!Retry(S)
  \/ States' = States

LEMMA ArrivalStep ==
  ASSUME IInv, TypeOK', NEW m \in Messages, AppendMessage(m) \/ ChangeRequest(m)
  PROVE  InboxMoves
<1> USE DEF IInv
<1>1. /\ TheWindow \in Batches /\ batch[TheWindow].status \in {"NONE", "OPEN"}
      /\ runs[TheWindow] = 0 /\ batchOf[m] = Unsent /\ UNCHANGED runs
  BY WindowOfAMessage DEF AppendMessage, ChangeRequest, NextMessage, BatchesFollow, decisionVars
<1>2. /\ batch'[TheWindow].status \in {"OPEN", "CLOSED"}
      /\ \A a \in Batches : a # TheWindow => batch'[a] = batch[a]
  <2> PICK state \in {"OPEN", "CLOSED"} : SetBatch(TheWindow, [batch[TheWindow] EXCEPT !.status = state])
    BY DEF AppendMessage, ChangeRequest
  <2>1. [batch[TheWindow] EXCEPT !.status = state].status = state
    BY <1>1, BatchIsARow DEF BatchType
  <2> QED
    BY <1>1, <2>1, RowOfABatch
<1>3. batchOf'[m] \in {Unbatched, TheWindow}
  BY <1>1 DEF AppendMessage, ChangeRequest, Stamped, TypeOK
<1>4. \A n \in Messages : n # m /\ batchOf'[n] # batchOf[n] => batchOf[n] = Unbatched /\ batchOf'[n] = TheWindow
  BY <1>1 DEF AppendMessage, ChangeRequest, Stamped, TypeOK
<1>5. Shows(batch'[TheWindow].status, runs'[TheWindow]) = "waiting"
  BY <1>1, <1>2 DEF Shows
<1>6. \A n \in Messages : batchOf[n] # TheWindow
  BY <1>1 DEF NoMessageStranded
<1>7. ASSUME NEW n \in Messages
      PROVE  /\ batchOf'[n] = Unsent => MessageState(n)' = "unsent"
             /\ batchOf'[n] = Unbatched => MessageState(n)' = "waiting"
             /\ batchOf'[n] = TheWindow => MessageState(n)' = "waiting"
  BY <1>1, <1>5, BoundsAreNumbers DEF MessageState, Shows, Holds
<1>8. MessageState(m) = "unsent" /\ MessageState(m)' = "waiting"
  BY <1>1, <1>3, <1>7, StateOfAMessage
<1>9. ASSUME NEW n \in Messages, n # m PROVE MessageState(n)' = MessageState(n)
  <2>1. CASE batchOf'[n] # batchOf[n]
    BY <1>4, <1>7, <1>9, <2>1, StateOfAMessage
  <2>2. CASE batchOf'[n] = batchOf[n] /\ batchOf[n] \in {Unsent, Unbatched}
    BY <1>7, <2>2, StateOfAMessage
  <2>3. CASE batchOf'[n] = batchOf[n] /\ batchOf[n] \in Batches
    <3>1. batch'[batchOf[n]] = batch[batchOf[n]]
      BY <1>2, <1>6, <2>3
    <3> QED
      BY <1>1, <2>3, <3>1 DEF MessageState, Holds
  <2> QED
    BY <2>1, <2>2, <2>3, StateOfAMessage
<1> QED
  BY <1>8, <1>9, MessageArrives DEF InboxMoves

LEMMA CloseStep ==
  ASSUME IInv, TypeOK', CloseDue
  PROVE  States' = States
<1> USE DEF IInv
<1>1. /\ TheWindow \in Batches /\ batch[TheWindow].status = "OPEN"
      /\ runs[TheWindow] = 0 /\ UNCHANGED runs
  BY OpenIsTheWindow DEF CloseDue, BatchesFollow, Holds, decisionVars
<1>2. /\ batch'[TheWindow].status = "CLOSED"
      /\ \A a \in Batches : a # TheWindow => batch'[a] = batch[a]
  <2>1. [batch[TheWindow] EXCEPT !.status = "CLOSED"].status = "CLOSED"
    BY <1>1, BatchIsARow DEF BatchType
  <2> QED
    BY <1>1, <2>1, RowOfABatch DEF CloseDue
<1>3. \A n \in Messages : batchOf'[n] = IF batchOf[n] = Unbatched THEN TheWindow ELSE batchOf[n]
  BY DEF CloseDue, Stamped
<1>4. \A n \in Messages : batchOf[n] # TheWindow
  BY <1>1 DEF NoMessageStranded
<1>5. ASSUME NEW n \in Messages PROVE MessageState(n)' = MessageState(n)
  <2>1. CASE batchOf[n] = Unbatched
    <3>1. batchOf'[n] = TheWindow
      BY <1>3, <2>1
    <3>2. MessageState(n)' = "waiting"
      BY <1>1, <1>2, <3>1, BoundsAreNumbers DEF MessageState, Holds
    <3> QED
      BY <2>1, <3>2, StateOfAMessage
  <2>2. CASE batchOf[n] = Unsent
    BY <1>3, <2>2, BoundsAreNumbers DEF MessageState
  <2>3. CASE batchOf[n] \in Batches
    <3>1. batchOf'[n] = batchOf[n] /\ batch'[batchOf[n]] = batch[batchOf[n]]
      BY <1>2, <1>3, <1>4, <2>3, BoundsAreNumbers
    <3> QED
      BY <1>1, <2>3, <3>1 DEF MessageState, Holds
  <2> QED
    BY <2>1, <2>2, <2>3, StateOfAMessage
<1> QED
  BY <1>5 DEF States

LEMMA InboxStep == ASSUME IInv, TypeOK', [Next]_vars PROVE InboxMoves
<1> USE DEF IInv, Numbered
<1>1. ASSUME NEW m \in Messages, AppendMessage(m) \/ ChangeRequest(m) PROVE InboxMoves
  BY <1>1, ArrivalStep
<1>2. CASE CloseDue
  BY <1>2, CloseStep DEF InboxMoves
<1>3. ASSUME NEW b \in Batches, RetryBatch(b) PROVE InboxMoves
  <2> DEFINE row == [batch[b] EXCEPT !.status = "CLOSED", !.attempts = 0, !.reason = "NONE"]
  <2>1. row.status = "CLOSED"
    BY BatchIsARow DEF BatchType
  <2>2. /\ SetBatch(b, row) /\ UNCHANGED batchOf /\ batch[b].status = "FAILED"
        /\ runs'[b] = 0 /\ \A a \in Batches : a # b => runs'[a] = runs[a]
    BY <1>3 DEF RetryBatch, TypeOK, Holds
  <2> HIDE DEF row
  <2>3. batch'[b] = row /\ \A a \in Batches : a # b => batch'[a] = batch[a]
    BY <2>2, RowOfABatch
  <2>4. Shows(batch[b].status, runs[b]) \in {"given up"} /\ Shows(batch'[b].status, runs'[b]) = "waiting"
    BY <2>1, <2>2, <2>3 DEF Shows
  <2> QED
    BY <2>2, <2>3, <2>4, RowMoves DEF InboxMoves, Inbox!Retry
<1>4. ASSUME NEW b \in Batches, NEW row, SetBatch(b, row), UNCHANGED <<batchOf, runs>>,
             batch[b].status \in {"CLOSED", "PROCESSING"}, row.status \in {"CLOSED", "PROCESSING", "FAILED"}
      PROVE  InboxMoves
  <2>1. batch'[b] = row /\ \A a \in Batches : a # b => batch'[a] = batch[a]
    BY <1>4, RowOfABatch
  <2>2. CASE row.status = "FAILED"
    <3>1. /\ Shows(batch[b].status, runs[b]) \in {"waiting", "answered"}
          /\ Shows(batch'[b].status, runs'[b]) = "given up"
      BY <1>4, <2>1, <2>2 DEF Shows
    <3> QED
      BY <1>4, <2>1, <3>1, RowMoves DEF InboxMoves, Inbox!GiveUp
  <2>3. CASE row.status # "FAILED"
    <3>1. Shows(batch'[b].status, runs'[b]) = Shows(batch[b].status, runs[b])
      BY <1>4, <2>1, <2>3 DEF Shows
    <3> QED
      BY <1>4, <2>1, <3>1, RowStays DEF InboxMoves
  <2> QED
    BY <2>2, <2>3
<1>5. ASSUME NEW b \in Batches, ReclaimStuck(b) PROVE InboxMoves
  BY <1>4, <1>5, AttemptedIsClosed DEF ReclaimStuck, Holds, decisionVars
<1>6. ASSUME NEW w \in Workers, Claim(w) PROVE InboxMoves
  <2> PICK b \in Batches :
        Claimable(b) /\ SetBatch(b, [batch[b] EXCEPT !.status = "PROCESSING", !.owner = w])
    BY <1>6 DEF Claim
  <2>1. [batch[b] EXCEPT !.status = "PROCESSING", !.owner = w].status = "PROCESSING"
    BY BatchIsARow DEF BatchType
  <2> QED
    BY <1>4, <1>6, <2>1 DEF Claim, Claimable, Holds, decisionVars
<1>7. ASSUME NEW w \in Workers, Apply(w), UNCHANGED <<batchOf, batch>> PROVE InboxMoves
  <2> DEFINE b == worker[w].batch
  <2>1. /\ b \in Batches /\ batch[b].status = "PROCESSING"
        /\ runs' = [runs EXCEPT ![b] = @ + 1]
    BY <1>7 DEF Apply, At, Held, Holds, HoldersKnow
  <2> HIDE DEF b
  <2>2. runs'[b] > 0 /\ \A a \in Batches : a # b => runs'[a] = runs[a]
    BY <2>1 DEF TypeOK
  <2>3. Shows(batch[b].status, runs[b]) \in {"waiting", "answered"}
        /\ Shows(batch'[b].status, runs'[b]) = "answered"
    BY <1>7, <2>1, <2>2 DEF Shows
  <2>4. CASE Shows(batch[b].status, runs[b]) = "answered"
    BY <1>7, <2>1, <2>2, <2>3, <2>4, RowStays DEF InboxMoves
  <2>5. CASE Shows(batch[b].status, runs[b]) \in {"waiting"}
    BY <1>7, <2>1, <2>2, <2>3, <2>5, RowMoves DEF InboxMoves, Inbox!Answer
  <2> QED
    BY <2>3, <2>4, <2>5
<1>8. ASSUME NEW w \in Workers, Settle(w) \/ Release(w) PROVE InboxMoves
  <2>1. UNCHANGED <<batchOf, runs>>
    BY <1>8 DEF Settle, Release, decisionVars
  <2>2. CASE UNCHANGED batch
    BY <2>1, <2>2 DEF InboxMoves, States, MessageState, Holds
  <2>3. CASE ~UNCHANGED batch
    <3> PICK row \in BatchType :
          /\ worker[w].batch \in Batches /\ batch[worker[w].batch].status = "PROCESSING" /\ Held(w)
          /\ SetBatch(worker[w].batch, row) /\ row.status \in {"CLOSED", "PROCESSED", "FAILED"}
      BY <1>8, <2>3, PassRow DEF Holds
    <3>1. CASE row.status # "PROCESSED"
      BY <1>4, <2>1, <3>1
    <3>2. CASE row.status = "PROCESSED"
      <4> DEFINE b == worker[w].batch
      <4>1. batch'[b] = row /\ \A a \in Batches : a # b => batch'[a] = batch[a]
        BY RowOfABatch
      <4>2. runs[b] > 0
        <5>1. CASE Release(w)
          <6>1. [batch[b] EXCEPT !.status = "CLOSED", !.owner = Nobody].status = "CLOSED"
            BY BatchIsARow DEF BatchType
          <6>2. batch'[b] = [batch[b] EXCEPT !.status = "CLOSED", !.owner = Nobody]
            BY <5>1, RowOfABatch DEF Release
          <6> QED
            BY <3>2, <4>1, <6>1, <6>2
        <5>2. CASE Settle(w)
          <6>1. batch'[b] = Outcome(w)
            BY <5>2, RowOfABatch DEF Settle
          <6>2. At(w, "done")
            BY <3>2, <4>1, <5>2, <6>1, OutcomeCounts DEF Settle
          <6> QED
            BY <5>2, <6>2 DEF HoldersKnow, Settle, At
        <5> QED
          BY <1>8, <5>1, <5>2
      <4>3. /\ Shows(batch[b].status, runs[b]) \in {"answered"}
            /\ Shows(batch'[b].status, runs'[b]) = "handled"
        BY <2>1, <3>2, <4>1, <4>2 DEF Shows
      <4> QED
        BY <2>1, <4>1, <4>3, RowMoves DEF InboxMoves, Inbox!Handled
    <3> QED
      BY <3>1, <3>2
  <2> QED
    BY <2>2, <2>3
<1>9. CASE UNCHANGED <<batchOf, batch, runs>>
  BY <1>9 DEF InboxMoves, States, MessageState, Holds
<1>10. CASE Tick
  BY <1>10 DEF Tick, decisionVars, InboxMoves, States, MessageState, Holds
<1> QED
  BY <1>1, <1>2, <1>3, <1>5, <1>6, <1>7, <1>8, <1>9, <1>10, QueueFrame

(* The windows, claims and passes keep the promise of CustomerInbox: what a *)
(* customer wrote is answered before it counts as handled, handled it stays *)
(* so, and what was given up only comes back to the queue.                  *)
THEOREM ImplementsInbox == Spec => InboxSpec
<1>1. Init => Inbox!Init
  BY BoundsAreNumbers DEF Init, Inbox!Init, MessageState
<1>2. IInv /\ [Next]_vars => [Inbox!Next]_States
  <2> SUFFICES ASSUME IInv, [Next]_vars PROVE [Inbox!Next]_States
    OBVIOUS
  <2>1. TypeOK'
    BY TypeStep DEF IInv, Numbered
  <2>2. InboxMoves
    BY <2>1, InboxStep
  <2> QED
    BY <2>2 DEF InboxMoves, Inbox!Next
<1>3. Spec => [][Inbox!Next]_States
  BY <1>2, Invariant, PTL DEF Spec
<1> QED
  BY <1>1, <1>3, PTL DEF Spec, InboxSpec, Inbox!Spec, States

=============================================================================
