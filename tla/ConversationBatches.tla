------------------------- MODULE ConversationBatches -------------------------
(***************************************************************************)
(* The conversation of one sent quote: the windows its customer's messages *)
(* are gathered in, the queue of closed batches, the workers that claim    *)
(* them, and the handler that turns a batch into changes of the draft.     *)
(*                                                                         *)
(* A step is one database transaction (every writer of a conversation      *)
(* takes the quote's row lock first) or one call of the model, made        *)
(* outside any.  A worker is one pass of the sweep in some process: the    *)
(* API's ticker, or the scheduled job; passes overlap and may die.  The    *)
(* quote itself moves as QuoteLifecycle allows, which QuoteDelivery        *)
(* implements.                                                             *)
(***************************************************************************)
EXTENDS Integers, FiniteSets, SequencesExt

CONSTANTS
  Workers,       \* passes of the sweep
  WindowReset,   \* ticks a window waits after the latest message
  WindowMax,     \* ticks a window waits after its first message
  MaxAttempts,   \* failed attempts that leave a batch FAILED
  MaxMessages,   \* bound: messages the customer writes
  MaxVersion,    \* bound: versions the quote reaches
  Nobody

ASSUME BatchesAssumption ==
  /\ Nobody \notin Workers /\ MaxMessages \in Nat
  /\ WindowReset \in Nat \ {0} /\ WindowMax \in Nat /\ WindowMax > WindowReset
  /\ MaxAttempts \in Nat \ {0} /\ MaxVersion \in Nat \ {0}

Versions == 1..MaxVersion
Messages == 1..MaxMessages   \* in the order they are stored
Batches == 1..MaxMessages    \* a window opens for a message
Unsent == -1                 \* not written yet
Unbatched == 0               \* batch_id IS NULL

VARIABLES
  (* the quote: the variables of QuoteLifecycle, and archived_at *)
  status, version, draft, standing, archived,
  (* quote_message and message_batch rows *)
  batchOf,      \* of each message: Unsent, Unbatched or its batch
  opened,       \* batches are numbered as their windows open
  batch,        \* the rows
  window,       \* ticks the OPEN window has left, and until its cap
  order,        \* closed batches by closed_at
  (* handler_decision rows *)
  runs,         \* of each batch, since its attempts were last counted from 0
  undecided,    \* those the seller has not decided, by version and outcome
  worker,       \* the passes
  late          \* history: batches that took a place in the queue others had passed

quoteVars == <<status, version, draft, standing, archived>>
queueVars == <<batchOf, opened, batch, window, order, late>>
decisionVars == <<runs, undecided>>
vars == <<quoteVars, queueVars, decisionVars, worker>>

Idle == [pc |-> "idle", batch |-> 0, read |-> 0, moved |-> FALSE,
         changes |-> FALSE, targets |-> FALSE]

BatchType ==
  [status : {"NONE", "OPEN", "CLOSED", "PROCESSING", "PROCESSED", "FAILED"},
   attempts : 0..MaxAttempts,
   reason : {"NONE", "ATTEMPTS_EXHAUSTED", "UNPROCESSABLE"},
   owner : Workers \cup {Nobody}]   \* whose claim processing_started_at dates

WorkerType ==
  [pc : {"idle", "claimed", "proposing", "applying", "done", "failed", "refused"},
   batch : Batches \cup {0},
   read : Versions \cup {0},        \* preparedBatch.draft
   moved : BOOLEAN,                 \* lines it read are not on that draft any more
   changes : BOOLEAN,               \* the proposal is not a no-match
   targets : BOOLEAN]               \* its operations name lines of the draft

TypeOK ==
  /\ status \in {"DRAFT", "QUOTED", "SENT", "CHANGE_REQUESTED", "ACCEPTED", "REJECTED"}
  /\ version \in Versions
  /\ draft \in BOOLEAN /\ standing \in BOOLEAN /\ archived \in BOOLEAN
  /\ batchOf \in [Messages -> {Unsent, Unbatched} \cup Batches]
  /\ opened \in 0..MaxMessages
  /\ batch \in [Batches -> BatchType]
  /\ window \in [left : 0..WindowReset, cap : 0..WindowMax]
  /\ order \in Seq(Batches) /\ late \in SUBSET Batches
  /\ runs \in [Batches -> Nat]
  /\ undecided \in SUBSET [version : Versions, applied : BOOLEAN]
  /\ worker \in [Workers -> WorkerType]

Lifecycle == INSTANCE QuoteLifecycle

Init ==
  /\ Lifecycle!Init /\ archived = FALSE
  /\ batchOf = [m \in Messages |-> Unsent] /\ opened = 0
  /\ batch = [b \in Batches |-> [status |-> "NONE", attempts |-> 0, reason |-> "NONE",
                                 owner |-> Nobody]]
  /\ window = [left |-> 0, cap |-> 0]
  /\ order = <<>> /\ late = {}
  /\ runs = [b \in Batches |-> 0] /\ undecided = {}
  /\ worker = [w \in Workers |-> Idle]

Holds(b, state) == batch[b].status = state
SetBatch(b, row) == batch' = [batch EXCEPT ![b] = row]

(* ValidateHandlerRun; a conversation accepts messages under the same rule. *)
HandlerMayRun == ~archived /\ status \in {"SENT", "CHANGE_REQUESTED"}

-----------------------------------------------------------------------------
(* The customer *)

OpenWindow == {b \in Batches : Holds(b, "OPEN")}

(* OpenOrExtend: the quote's OPEN window, or one opened now. *)
TheWindow == IF OpenWindow = {} THEN opened + 1 ELSE CHOOSE b \in OpenWindow : TRUE

Smaller(a, b) == IF a < b THEN a ELSE b

(* A message is new, and the next one to be stored. *)
NextMessage(m) == batchOf[m] = Unsent /\ \A n \in 1..(m - 1) : batchOf[n] # Unsent

(* A WhatsApp or email reply: Route locks the quote and checks it again, then *)
(* the message opens or extends the window in the same transaction.           *)
AppendMessage(m) ==
  /\ HandlerMayRun /\ NextMessage(m)
  /\ batchOf' = [batchOf EXCEPT ![m] = Unbatched]
  /\ SetBatch(TheWindow, [batch[TheWindow] EXCEPT !.status = "OPEN"])
  /\ IF OpenWindow = {}
       THEN /\ opened' = opened + 1
            /\ window' = [left |-> WindowReset, cap |-> WindowMax]
       ELSE /\ UNCHANGED opened
            /\ window' = [window EXCEPT !.left = Smaller(WindowReset, window.cap)]
  /\ UNCHANGED <<quoteVars, order, late, decisionVars, worker>>

(* Mutant of Stamped: the close forgets the messages. *)
Unstamped(batches, b) == batches

(* The messages a closing window takes: every CLIENT message without a batch. *)
Stamped(batches, b) ==
  [m \in Messages |-> IF batches[m] = Unbatched THEN b ELSE batches[m]]

(* createChangeRequest, from the public link: the next draft, the message, its *)
(* window and the close of that window. closed_at is when the transaction      *)
(* began, before it waited for the quote's lock: batches may have closed since.*)
ChangeRequest(m) ==
  /\ ~archived /\ NextMessage(m)
  /\ Lifecycle!ChangeRequested /\ ~draft /\ version' \in Versions
  /\ batchOf' = Stamped([batchOf EXCEPT ![m] = Unbatched], TheWindow)
  /\ opened' = IF OpenWindow = {} THEN opened + 1 ELSE opened
  /\ SetBatch(TheWindow, [batch[TheWindow] EXCEPT !.status = "CLOSED"])
  /\ \E k \in 0..Len(order) :
       /\ order' = InsertAt(order, k + 1, TheWindow)
       /\ late' = IF k < Len(order) THEN late \cup {TheWindow} ELSE late
  /\ window' = [left |-> 0, cap |-> 0]
  /\ UNCHANGED <<archived, decisionVars, worker>>

-----------------------------------------------------------------------------
(* The seller, and everything else that moves the quote *)

(* A version is frozen for sending: HandlerDecisionSettler decides every run *)
(* on it in the same transaction.                                            *)
Freeze ==
  /\ ~archived /\ draft /\ Lifecycle!Freeze
  /\ undecided' = {d \in undecided : d.version # version}
  /\ UNCHANGED <<archived, queueVars, runs, worker>>

(* Price, publish, answer, pay and reopen. A publication is confirmed, and the *)
(* sweep's late version opened, on archived quotes too.                        *)
QuoteMoves ==
  /\ \/ Lifecycle!Publish
     \/ Lifecycle!LateDraft /\ version' \in Versions
     \/ ~archived /\ Lifecycle!Price
     \/ ~archived /\ Lifecycle!Answer
     \/ ~archived /\ Lifecycle!Settle
     \/ ~archived /\ Lifecycle!ReopenForResend
     \/ ~archived /\ Lifecycle!ReopenForEdit /\ version' \in Versions
  /\ UNCHANGED <<archived, queueVars, decisionVars, worker>>

SetArchived ==
  /\ archived' = ~archived
  /\ UNCHANGED <<status, version, draft, standing, queueVars, decisionVars, worker>>

(* Lines that a pass read, and names or may come to name, are gone: their row *)
(* ids do not come back.                                                      *)
LinesGone ==
  worker' = [w \in Workers |->
    IF worker[w].read = version /\ (worker[w].pc = "proposing" \/ worker[w].targets)
      THEN [worker[w] EXCEPT !.moved = TRUE] ELSE worker[w]]

(* The seller deletes lines of the draft. *)
RemoveLines ==
  /\ ~archived /\ draft /\ status \in {"DRAFT", "QUOTED", "CHANGE_REQUESTED"}
  /\ LinesGone
  /\ UNCHANGED <<quoteVars, queueVars, decisionVars>>

(* DiscardAIChanges: the draft's lines are written anew from the version the  *)
(* customer has, and the applied runs are REJECTED; a no-match stays pending. *)
DiscardAIChanges ==
  /\ ~archived /\ status = "CHANGE_REQUESTED" /\ draft
  /\ \E d \in undecided : d.version = version /\ d.applied
  /\ undecided' = {d \in undecided : ~(d.version = version /\ d.applied)}
  /\ LinesGone
  /\ UNCHANGED <<quoteVars, queueVars, runs>>

(* RetryBatch and Requeue. *)
RetryBatch(b) ==
  /\ HandlerMayRun
  /\ Holds(b, "FAILED") /\ batch[b].reason = "ATTEMPTS_EXHAUSTED"
  /\ SetBatch(b, [batch[b] EXCEPT !.status = "CLOSED", !.attempts = 0, !.reason = "NONE"])
  /\ late' = late \cup {b}
  /\ runs' = [runs EXCEPT ![b] = 0]
  /\ UNCHANGED <<quoteVars, batchOf, opened, window, order, undecided, worker>>

-----------------------------------------------------------------------------
(* The sweep: closing windows and reclaiming claims *)

(* Time passes for the open window. *)
Tick ==
  /\ OpenWindow # {} /\ window.left > 0
  /\ window' = [left |-> window.left - 1, cap |-> window.cap - 1]
  /\ UNCHANGED <<quoteVars, batchOf, opened, batch, order, late, decisionVars, worker>>

(* closePage: the quote's lock, the close and the stamping in one transaction. *)
CloseDue ==
  /\ OpenWindow # {} /\ window.left = 0
  /\ SetBatch(TheWindow, [batch[TheWindow] EXCEPT !.status = "CLOSED"])
  /\ batchOf' = Stamped(batchOf, TheWindow)
  /\ order' = Append(order, TheWindow)
  /\ window' = [left |-> 0, cap |-> 0]
  /\ UNCHANGED <<quoteVars, opened, late, decisionVars, worker>>

(* Mutant of Attempted: the attempt is not counted. *)
Uncounted(b, limit, why) ==
  [status |-> IF batch[b].attempts >= limit THEN "FAILED" ELSE "CLOSED",
   attempts |-> batch[b].attempts, reason |-> why, owner |-> Nobody]

(* An attempt that did not finish, and the limit it counts towards. *)
Attempted(b, limit, why) ==
  LET failed == batch[b].attempts + 1 >= limit IN
  [status |-> IF failed THEN "FAILED" ELSE "CLOSED",
   attempts |-> batch[b].attempts + 1,
   reason |-> IF failed THEN why ELSE "NONE",
   owner |-> Nobody]

(* ReclaimStuck: the claim is older than a handler may take. Its worker died, *)
(* or was held up and does not know.                                          *)
ReclaimStuck(b) ==
  /\ Holds(b, "PROCESSING")
  /\ SetBatch(b, Attempted(b, MaxAttempts, "ATTEMPTS_EXHAUSTED"))
  /\ UNCHANGED <<quoteVars, batchOf, opened, window, order, late, decisionVars, worker>>

-----------------------------------------------------------------------------
(* A pass working the queue *)

Before(a, b) ==
  \E i, j \in DOMAIN order : i < j /\ order[i] = a /\ order[j] = b

(* Mutant of Claimable: the batches closed before it are not looked at. *)
ClaimableOutOfTurn(b) ==
  /\ Holds(b, "CLOSED")
  /\ \A a \in Batches : ~Holds(a, "PROCESSING")

(* ClaimNext: a CLOSED batch at the head of its quote's queue, no other in process. *)
Claimable(b) ==
  /\ Holds(b, "CLOSED")
  /\ \A a \in Batches : ~Holds(a, "PROCESSING") /\ ~(Holds(a, "CLOSED") /\ Before(a, b))

Claim(w) ==
  /\ worker[w].pc = "idle"
  /\ \E b \in Batches :
       /\ Claimable(b)
       /\ SetBatch(b, [batch[b] EXCEPT !.status = "PROCESSING", !.owner = w])
       /\ worker' = [worker EXCEPT ![w] = [Idle EXCEPT !.pc = "claimed", !.batch = b]]
  /\ UNCHANGED <<quoteVars, batchOf, opened, window, order, late, decisionVars>>

(* Mutant of Held: the claim is not told from a later one. *)
HeldByAnybody(w) == Holds(worker[w].batch, "PROCESSING")

(* LockClaim, and the WHERE of every write that settles a claim. *)
Held(w) ==
  /\ Holds(worker[w].batch, "PROCESSING")
  /\ batch[worker[w].batch].owner = w

At(w, pc) == worker[w].pc = pc
(* What is left of a run once its outcome is known. *)
Goes(w, pc) == worker' = [worker EXCEPT ![w] = [Idle EXCEPT !.pc = pc, !.batch = worker[w].batch]]

(* prepare: the quote becomes CHANGE_REQUESTED and has its draft, committed *)
(* before the model is called.                                              *)
Prepare(w) ==
  /\ At(w, "claimed") /\ Held(w) /\ HandlerMayRun
  /\ \/ Lifecycle!ChangeRequested /\ version' \in Versions
     \/ status = "CHANGE_REQUESTED" /\ Lifecycle!NextDraft /\ version' \in Versions
        /\ UNCHANGED <<status, standing>>
  /\ worker' = [worker EXCEPT ![w].pc = "proposing", ![w].read = version', ![w].moved = FALSE]
  /\ UNCHANGED <<archived, queueVars, decisionVars>>

(* The matrix's row check refuses the batch for good. *)
PrepareRefused(w) ==
  /\ At(w, "claimed") /\ Held(w) /\ ~HandlerMayRun
  /\ Goes(w, "refused")
  /\ UNCHANGED <<quoteVars, queueVars, decisionVars>>

(* What is left of an answer once validated: changes, which name lines of the *)
(* draft or only add some, or a no-match, which a refused proposal becomes.   *)
Proposals == {p \in [changes : BOOLEAN, targets : BOOLEAN] : p.targets => p.changes}

(* The model answers; without one the answer is a no-match. *)
Propose(w) ==
  /\ At(w, "proposing")
  /\ \E p \in Proposals :
       worker' = [worker EXCEPT ![w].pc = "applying", ![w].changes = p.changes,
                                ![w].targets = p.targets, ![w].moved = @ /\ p.targets]
  /\ UNCHANGED <<quoteVars, queueVars, decisionVars>>

(* Mutant of DraftStands: is_immutable is not read again. *)
VersionStands(w) == version = worker[w].read

(* apply re-checks, in this order, the draft, the matrix and the lines. *)
DraftStands(w) == draft /\ version = worker[w].read
LinesStand(w) == worker[w].targets => ~worker[w].moved
ChangesAllowed(w) == worker[w].changes => HandlerMayRun

Apply(w) ==
  /\ At(w, "applying") /\ Held(w)
  /\ DraftStands(w) /\ ChangesAllowed(w) /\ LinesStand(w)
  /\ LET b == worker[w].batch IN
       /\ runs' = [runs EXCEPT ![b] = @ + 1]
       /\ undecided' = undecided \cup
            {[version |-> version, applied |-> worker[w].changes]}
  /\ Goes(w, "done")
  /\ UNCHANGED <<quoteVars, queueVars>>

(* No recipe or promotion delivers: the write rolls back, and a no-match is *)
(* recorded by another transaction.                                         *)
RecipesExhausted(w) ==
  /\ At(w, "applying") /\ Held(w) /\ worker[w].changes
  /\ DraftStands(w) /\ ChangesAllowed(w) /\ LinesStand(w)
  /\ worker' = [worker EXCEPT ![w].changes = FALSE, ![w].targets = FALSE,
                                ![w].moved = FALSE]
  /\ UNCHANGED <<quoteVars, queueVars, decisionVars>>

ApplyRefused(w) ==
  /\ At(w, "applying") /\ Held(w) /\ DraftStands(w) /\ ~ChangesAllowed(w)
  /\ Goes(w, "refused")
  /\ UNCHANGED <<quoteVars, queueVars, decisionVars>>

(* The claim was lost, the draft moved, or the database or the model failed. *)
HandleFails(w) ==
  /\ worker[w].pc \in {"claimed", "proposing", "applying"}
  /\ Goes(w, "failed")
  /\ UNCHANGED <<quoteVars, queueVars, decisionVars>>

(* Mutant of Outcome: a batch the matrix refused is done with. *)
OutcomeOfRefusedIsDone(w) ==
  LET b == worker[w].batch IN
  CASE At(w, "failed") -> Attempted(b, MaxAttempts, "ATTEMPTS_EXHAUSTED")
    [] OTHER -> [batch[b] EXCEPT !.status = "PROCESSED", !.owner = Nobody]

(* What the claim is settled with: the matrix's refusal spends the last attempt. *)
Outcome(w) ==
  LET b == worker[w].batch IN
  CASE At(w, "done") -> [batch[b] EXCEPT !.status = "PROCESSED", !.owner = Nobody]
    [] At(w, "failed") -> Attempted(b, MaxAttempts, "ATTEMPTS_EXHAUSTED")
    [] At(w, "refused") -> Attempted(b, 1, "UNPROCESSABLE")

(* Mutant of Settle: the WHERE of the update asks for the batch alone. *)
SettleAnyway(w) ==
  /\ worker[w].pc \in {"done", "failed", "refused"}
  /\ SetBatch(worker[w].batch, Outcome(w))
  /\ worker' = [worker EXCEPT ![w] = Idle]
  /\ UNCHANGED <<quoteVars, batchOf, opened, window, order, late, decisionVars>>

(* MarkProcessed and RecordFailure; a lost claim settles nothing. *)
Settle(w) ==
  /\ worker[w].pc \in {"done", "failed", "refused"}
  /\ IF Held(w) THEN SetBatch(worker[w].batch, Outcome(w)) ELSE UNCHANGED batch
  /\ worker' = [worker EXCEPT ![w] = Idle]
  /\ UNCHANGED <<quoteVars, batchOf, opened, window, order, late, decisionVars>>

(* A shutdown interrupts the handler and hands the claim back, uncounted. *)
Release(w) ==
  /\ worker[w].pc \in {"claimed", "proposing", "applying", "failed", "refused"}
  /\ IF Held(w)
       THEN SetBatch(worker[w].batch, [batch[worker[w].batch] EXCEPT !.status = "CLOSED",
                                                                   !.owner = Nobody])
       ELSE UNCHANGED batch
  /\ worker' = [worker EXCEPT ![w] = Idle]
  /\ UNCHANGED <<quoteVars, batchOf, opened, window, order, late, decisionVars>>

(* The process dies, or the write that settles the claim fails. *)
Dies(w) ==
  /\ worker[w].pc # "idle"
  /\ worker' = [worker EXCEPT ![w] = Idle]
  /\ UNCHANGED <<quoteVars, queueVars, decisionVars>>

-----------------------------------------------------------------------------
Environment ==
  \/ \E m \in Messages : AppendMessage(m) \/ ChangeRequest(m)
  \/ Freeze \/ QuoteMoves \/ SetArchived \/ RemoveLines \/ DiscardAIChanges
  \/ \E b \in Batches : RetryBatch(b)
  \/ \E w \in Workers : Release(w) \/ Dies(w)

Reclaim == \E b \in Batches : ReclaimStuck(b)

Works(w) ==
  \/ Claim(w) \/ Prepare(w) \/ PrepareRefused(w) \/ Propose(w) \/ Apply(w)
  \/ RecipesExhausted(w) \/ ApplyRefused(w) \/ HandleFails(w) \/ Settle(w)

Next == Environment \/ Tick \/ CloseDue \/ Reclaim \/ \E w \in Workers : Works(w)

Spec == Init /\ [][Next]_vars

(* The ticker runs the sweep for as long as some process is up: time passes, *)
(* due windows are closed, stuck claims reclaimed, and a pass goes on until  *)
(* it has settled its claim. Nothing is asked of customers and sellers.      *)
Fairness ==
  /\ WF_vars(Tick) /\ WF_vars(CloseDue) /\ WF_vars(Reclaim)
  /\ \A w \in Workers : WF_vars(Works(w))

FairSpec == Spec /\ Fairness

-----------------------------------------------------------------------------
(* Properties *)

(* A customer's message outside any batch is in an open window, which the    *)
(* sweep closes, and every window and every batch has a message: the insert, *)
(* OpenOrExtend and the two closes leave no message behind and hand the      *)
(* handler no empty batch.                                                   *)
NoMessageStranded ==
  /\ (\E m \in Messages : batchOf[m] = Unbatched) <=> OpenWindow # {}
  /\ \A b \in Batches : batch[b].status \notin {"NONE", "OPEN"} <=> \E m \in Messages : batchOf[m] = b

(* Batches are worked in the order of closed_at: whatever is claimed, lost,  *)
(* released or retried, a batch leaves the queue only after the ones before  *)
(* it are settled, except those that took their place when it had gone.      *)
QueueInOrder ==
  \A i, j \in DOMAIN order :
    i < j /\ order[i] \notin late /\ batch[order[j]].status # "CLOSED"
      => batch[order[i]].status \in {"PROCESSED", "FAILED"}

(* Every run of the handler was either counted as an attempt or is the one   *)
(* that finishes the batch, and a batch is not finished without one: a pass  *)
(* whose claim was lost writes no decision, and no claim writes two.         *)
RunsAreCounted ==
  \A b \in Batches :
    /\ runs[b] <= batch[b].attempts + (IF batch[b].status \in {"PROCESSING", "PROCESSED"} THEN 1 ELSE 0)
    /\ Holds(b, "PROCESSED") => runs[b] > 0

(* A pass whose claim was reclaimed comes back late and changes nothing: not *)
(* the quote, not the batch, which may be another's by now, not a decision.  *)
LateRunChangesNothing ==
  [][\A w \in Workers :
       worker[w].pc \notin {"idle", worker'[w].pc} /\ ~Held(w)
         => UNCHANGED <<quoteVars, batch, decisionVars>>]_vars

(* What the seller has not decided is on the live draft: freezing a version  *)
(* settles every run on it, and no run is recorded on a frozen one, however  *)
(* late the model answers.                                                   *)
UndecidedOnTheDraft == \A d \in undecided : draft /\ d.version = version

(* The inductive invariant: beside the properties above, windows and batches *)
(* are numbered with the messages, an attempt is left until the last one, and *)
(* a pass that holds its claim knows whether it has run.                      *)
WindowsFollow ==
  /\ window.left <= window.cap
  /\ \A m \in Messages : batchOf[m] = Unsent => opened < m
  /\ \A a, b \in OpenWindow : a = b

BatchesFollow ==
  \A b \in Batches :
    /\ b > opened => Holds(b, "NONE")
    /\ batch[b].status \in {"NONE", "OPEN"} => batch[b].attempts = 0 /\ runs[b] = 0
    /\ batch[b].status \notin {"PROCESSED", "FAILED"} => batch[b].attempts < MaxAttempts

HoldersKnow ==
  \A w \in Workers :
    worker[w].pc # "idle" =>
      /\ worker[w].batch \in Batches
      /\ Held(w) => IF At(w, "done") THEN runs[worker[w].batch] > 0
                                    ELSE runs[worker[w].batch] <= batch[worker[w].batch].attempts

IInv ==
  /\ TypeOK /\ WindowsFollow /\ BatchesFollow /\ HoldersKnow
  /\ RunsAreCounted /\ NoMessageStranded /\ UndecidedOnTheDraft

(* The queue implements what CustomerInbox promises. *)
MessageState(m) ==
  LET b == batchOf[m] IN
  CASE b = Unsent -> "unsent"
    [] b = Unbatched -> "waiting"
    [] OTHER -> CASE Holds(b, "PROCESSED") -> "handled"
                  [] Holds(b, "FAILED") -> "given up"
                  [] OTHER -> IF runs[b] > 0 THEN "answered" ELSE "waiting"

Inbox == INSTANCE CustomerInbox WITH state <- [m \in Messages |-> MessageState(m)]

InboxSpec == Inbox!Spec

(* Every message a customer sent is handled or given up in the end, however  *)
(* many processes die and whatever else happens to the quote, unless two     *)
(* things go on for ever: shutdowns, whose lost attempts are not counted,    *)
(* and a seller's retries, which take the place they had in the queue.       *)
EveryMessageSettles ==
  <>[][~\E w \in Workers : Release(w)]_vars /\ <>[][~\E b \in Batches : RetryBatch(b)]_vars =>
    \A m \in Messages : batchOf[m] # Unsent ~> MessageState(m) \in {"handled", "given up"}

=============================================================================
