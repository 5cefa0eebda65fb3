-------------------------- MODULE OrderIntake_proofs --------------------------
(***************************************************************************)
(* Proofs about OrderIntake, for any ways in, deliveries, runs of the      *)
(* sweep, files and bound on versions.                                     *)
(***************************************************************************)
EXTENDS OrderIntake, TLAPS

-----------------------------------------------------------------------------
(* Types *)

(* The states of a file, the places of a delivery and those of a run. *)
FileRow     == [status : {"NONE", "PENDING", "PROCESSING", "DONE", "FAILED"}, claim : Sweeps \cup {Nobody}]
DeliveryRow ==
  [pc : {"idle", "reserving", "receiving", "storing", "interpreting", "deferring", "failing",
         "persisting"},
   file : Files \cup {Nobody}]
SweepRow ==
  [pc : {"idle", "reading", "extracting", "failing", "writing", "closing"}, conn : BOOLEAN,
   left : SUBSET Files, read : SUBSET Files, quoted : BOOLEAN, failed : BOOLEAN]

(* FilesBecome and what else writes files keep their type. *)
LEMMA FilesType ==
  ASSUME file \in [Files -> FileRow], NEW fs, NEW state \in {"PENDING", "DONE", "FAILED"},
         FilesBecome(fs, state)
  PROVE  file' \in [Files -> FileRow]
  BY DEF FilesBecome, FileRow

(* A file whose state is not written stays as it is, and a written one has the state. *)
LEMMA FilesRow ==
  ASSUME NEW fs, NEW state, FilesBecome(fs, state)
  PROVE  /\ \A f \in Files : f \in fs => file'[f].status = state
         /\ \A f \in Files : f \notin fs => file'[f] = file[f]
<1>1. ASSUME NEW f \in Files, f \in fs PROVE file'[f].status = state
  <2>1. file'[f] = [status |-> state, claim |-> Nobody]
    BY <1>1 DEF FilesBecome
  <2> QED
    BY <2>1
<1>2. ASSUME NEW f \in Files, f \notin fs PROVE file'[f] = file[f]
  BY <1>2 DEF FilesBecome
<1> QED
  BY <1>1, <1>2

(* Goes and Leaves move one delivery, and let go of its own lock only. *)
LEMMA GoesRow ==
  ASSUME delivery \in [Deliveries -> DeliveryRow], NEW d \in Deliveries, NEW pc, Goes(d, pc)
  PROVE  /\ delivery'[d] = [delivery[d] EXCEPT !.pc = pc]
         /\ delivery'[d].pc = pc /\ delivery'[d].file = delivery[d].file
         /\ \A e \in Deliveries : e # d => delivery'[e] = delivery[e]
         /\ lock' = lock
  BY DEF Goes, DeliveryRow

LEMMA GoesType ==
  ASSUME delivery \in [Deliveries -> DeliveryRow], lock \in Deliveries \cup {Nobody},
         NEW d \in Deliveries,
         NEW pc \in {"idle", "reserving", "receiving", "storing", "interpreting", "deferring",
                     "failing", "persisting"},
         Goes(d, pc)
  PROVE  delivery' \in [Deliveries -> DeliveryRow] /\ lock' \in Deliveries \cup {Nobody}
  BY DEF Goes, DeliveryRow

LEMMA LeavesRow ==
  ASSUME delivery \in [Deliveries -> DeliveryRow], NEW d \in Deliveries, Leaves(d)
  PROVE  /\ delivery'[d] = Waiting /\ delivery'[d].pc = "idle"
         /\ \A e \in Deliveries : e # d => delivery'[e] = delivery[e]
  BY DEF Leaves, Waiting

LEMMA LeavesType ==
  ASSUME delivery \in [Deliveries -> DeliveryRow], lock \in Deliveries \cup {Nobody},
         NEW d \in Deliveries, Leaves(d)
  PROVE  delivery' \in [Deliveries -> DeliveryRow] /\ lock' \in Deliveries \cup {Nobody}
<1>1. Waiting \in DeliveryRow
  BY DEF Waiting, DeliveryRow
<1> QED
  BY <1>1 DEF Leaves

(* Step and Ends move one run. *)
LEMMA StepRow ==
  ASSUME sweep \in [Sweeps -> SweepRow], NEW s \in Sweeps, NEW pc, Step(s, pc)
  PROVE  /\ sweep'[s].pc = pc
         /\ sweep'[s].conn = sweep[s].conn /\ sweep'[s].left = sweep[s].left
         /\ sweep'[s].read = sweep[s].read /\ sweep'[s].quoted = sweep[s].quoted
         /\ sweep'[s].failed = sweep[s].failed
         /\ \A t \in Sweeps : t # s => sweep'[t] = sweep[t]
  BY DEF Step, SweepRow

LEMMA StepType ==
  ASSUME sweep \in [Sweeps -> SweepRow], NEW s \in Sweeps,
         NEW pc \in {"idle", "reading", "extracting", "failing", "writing", "closing"}, Step(s, pc)
  PROVE  sweep' \in [Sweeps -> SweepRow]
  BY DEF Step, SweepRow

LEMMA EndsRow ==
  ASSUME sweep \in [Sweeps -> SweepRow], NEW s \in Sweeps, Ends(s)
  PROVE  /\ sweep'[s] = Asleep
         /\ \A t \in Sweeps : t # s => sweep'[t] = sweep[t]
  BY DEF Ends

LEMMA AsleepIsARun ==
  /\ Asleep \in SweepRow
  /\ Asleep.pc = "idle" /\ Asleep.conn = FALSE /\ Asleep.left = {} /\ Asleep.read = {}
  /\ Asleep.quoted = FALSE /\ Asleep.failed = FALSE
  BY DEF Asleep, SweepRow

LEMMA EndsType ==
  ASSUME sweep \in [Sweeps -> SweepRow], NEW s \in Sweeps, Ends(s)
  PROVE  sweep' \in [Sweeps -> SweepRow]
  BY AsleepIsARun DEF Ends

(* The parts of the type invariant. *)
QuoteType ==
  /\ quoted \in BOOLEAN /\ draft \in BOOLEAN /\ standing \in BOOLEAN /\ archived \in BOOLEAN
  /\ status \in {"DRAFT", "QUOTED", "SENT", "CHANGE_REQUESTED", "ACCEPTED", "REJECTED"}
  /\ version \in 1..MaxVersion
OrderType ==
  /\ entry \in Entries
  /\ rfq \in {"NONE", "RECEIVED", "GENERATED", "FAILED"}
  /\ reserved \in {"nothing", "order", "joined", "named"}
  /\ orders \in Nat /\ joins \in Nat
HistoryType == inline \subseteq Files /\ weighed \subseteq Files /\ mishap \in BOOLEAN
ActorsType ==
  /\ file \in [Files -> FileRow] /\ lock \in Deliveries \cup {Nobody}
  /\ delivery \in [Deliveries -> DeliveryRow] /\ sweep \in [Sweeps -> SweepRow]

LEMMA TypeParts == TypeOK <=> QuoteType /\ OrderType /\ HistoryType /\ ActorsType
  BY DEF TypeOK, QuoteType, OrderType, HistoryType, ActorsType, FileRow, DeliveryRow, SweepRow

LEMMA TypeInit == Init => TypeOK
<1> SUFFICES ASSUME Init PROVE TypeOK
  OBVIOUS
<1>1. QuoteType
  <2>1. version \in 1..MaxVersion
    BY IntakeAssumption DEF Init, Lifecycle!Init
  <2> QED
    BY <2>1, Zenon DEF Init, Lifecycle!Init, QuoteType
<1>2. OrderType /\ HistoryType
  BY DEF Init, OrderType, HistoryType
<1>3. ActorsType
  BY AsleepIsARun DEF Init, ActorsType, FileRow, DeliveryRow, Waiting
<1> QED
  BY <1>1, <1>2, <1>3, TypeParts

LEMMA DeliveryTypeStep ==
  ASSUME QuoteType, OrderType, HistoryType, ActorsType, NEW d \in Deliveries, Delivers(d)
  PROVE  QuoteType' /\ OrderType' /\ HistoryType' /\ ActorsType'
<1> USE DEF quoteVars, messageVars, historyVars
<1>1. CASE Deliver(d)
  <2>1. delivery' \in [Deliveries -> DeliveryRow] /\ lock' \in Deliveries \cup {Nobody}
    BY <1>1 DEF Deliver, ActorsType, DeliveryRow
  <2> QED
    BY <1>1, <2>1 DEF Deliver, QuoteType, OrderType, HistoryType, ActorsType
<1>2. CASE SellerAsks(d)
  BY <1>2, GoesType DEF SellerAsks, QuoteType, OrderType, HistoryType, ActorsType
<1>3. CASE Reserve(d)
  <2>1. PICK outcome \in Readings :
          /\ reserved' = IF reserved = "nothing" THEN outcome ELSE reserved
          /\ joins' = JoinsKept(outcome)
    BY <1>3 DEF Reserve
  <2>2. OrderType'
    <3>1. reserved' \in {"nothing", "order", "joined", "named"}
      BY <2>1 DEF Readings, OrderType
    <3>2. joins' \in Nat
      BY <2>1 DEF JoinsKept, OrderType
    <3> QED
      BY <1>3, <3>1, <3>2 DEF Reserve, OrderType
  <2>3. ActorsType'
    BY <1>3, GoesType, LeavesType DEF Reserve, ActorsType
  <2> QED
    BY <1>3, <2>2, <2>3 DEF Reserve, QuoteType, HistoryType
<1>4. CASE FindEmail(d)
  BY <1>4, GoesType, LeavesType DEF FindEmail, QuoteType, OrderType, HistoryType, ActorsType
<1>5. CASE StoreEmail(d)
  <2>1. ActorsType'
    BY <1>5, FilesType, LeavesType DEF StoreEmail, ActorsType
  <2>2. OrderType'
    <3>1. /\ rfq' \in {"NONE", "RECEIVED", "GENERATED", "FAILED"}
          /\ reserved' \in {"nothing", "order", "joined", "named"}
      BY <1>5 DEF StoreEmail, OrderType
    <3>2. orders' \in Nat
      BY <1>5 DEF StoreEmail, OrderType
    <3> QED
      BY <1>5, <3>1, <3>2 DEF StoreEmail, OrderType
  <2> QED
    BY <1>5, <2>1, <2>2 DEF StoreEmail, QuoteType, HistoryType
<1>6. CASE Receive(d)
  <2>1. ActorsType'
    BY <1>6, GoesType, LeavesType DEF Receive, ActorsType
  <2>2. OrderType'
    <3>1. rfq' \in {"NONE", "RECEIVED", "GENERATED", "FAILED"}
      BY <1>6 DEF Receive, OrderType
    <3>2. orders' = orders \/ orders' = orders + 1
      BY <1>6, Zenon DEF Receive
    <3>3. orders' \in Nat
      BY <3>2 DEF OrderType
    <3> QED
      BY <1>6, <3>1, <3>3 DEF Receive, OrderType
  <2> QED
    BY <1>6, <2>1, <2>2 DEF Receive, QuoteType, HistoryType
<1>7. CASE StoreForRFQ(d)
  <2>1. PICK f \in Files :
          /\ FilesBecome({f}, "DONE") /\ inline' = inline \cup {f}
          /\ delivery' = [delivery EXCEPT ![d] = [pc |-> "interpreting", file |-> f]]
    BY <1>7 DEF StoreForRFQ, FilesIn
  <2>2. ActorsType'
    BY <1>7, <2>1, FilesType DEF StoreForRFQ, ActorsType, DeliveryRow
  <2> QED
    BY <1>7, <2>1, <2>2 DEF StoreForRFQ, QuoteType, OrderType, HistoryType
<1>8. CASE StorePendingForRFQ(d)
  <2>1. ActorsType'
    BY <1>8, FilesType, LeavesType DEF StorePendingForRFQ, ActorsType
  <2> QED
    BY <1>8, <2>1 DEF StorePendingForRFQ, QuoteType, OrderType, HistoryType
<1>9. CASE Interpret(d)
  BY <1>9, GoesType DEF Interpret, QuoteType, OrderType, HistoryType, ActorsType
<1>10. CASE Defer(d)
  BY <1>10, FilesType, GoesType, LeavesType DEF Defer, QuoteType, OrderType, HistoryType, ActorsType
<1>11. CASE MarkFailed(d)
  BY <1>11, LeavesType DEF MarkFailed, QuoteType, OrderType, HistoryType, ActorsType
<1>12. CASE Persist(d)
  BY <1>12, LeavesType DEF Persist, DraftQuote, QuoteType, OrderType, HistoryType, ActorsType
<1>13. CASE Stops(d)
  BY <1>13, LeavesType DEF Stops, QuoteType, OrderType, HistoryType, ActorsType
<1>14. CASE LoseLock(d)
  BY <1>14 DEF LoseLock, QuoteType, OrderType, HistoryType, ActorsType
<1> QED
  BY <1>1, <1>2, <1>3, <1>4, <1>5, <1>6, <1>7, <1>8, <1>9, <1>10, <1>11, <1>12, <1>13, <1>14
     DEF Delivers

LEMMA FoldTypeStep ==
  ASSUME QuoteType, OrderType, HistoryType, ActorsType, NEW s \in Sweeps, Folds(s)
  PROVE  QuoteType' /\ OrderType' /\ HistoryType' /\ ActorsType'
<1> USE DEF quoteVars, messageVars, historyVars
<1>1. ASSUME NEW f \in Files, ReadFile(s, f)
      PROVE  QuoteType' /\ OrderType' /\ HistoryType' /\ ActorsType'
  <2>1. file' \in [Files -> FileRow]
    BY <1>1, FilesType DEF ReadFile, ActorsType
  <2>2. sweep' \in [Sweeps -> SweepRow]
    BY <1>1 DEF ReadFile, ActorsType, SweepRow
  <2> QED
    BY <1>1, <2>1, <2>2 DEF ReadFile, QuoteType, OrderType, HistoryType, ActorsType
<1>2. ASSUME NEW f \in Files, CloseOut(s, f)
      PROVE  QuoteType' /\ OrderType' /\ HistoryType' /\ ActorsType'
  <2>1. file' \in [Files -> FileRow]
    BY <1>2, FilesType DEF CloseOut, ActorsType
  <2>2. sweep' \in [Sweeps -> SweepRow]
    BY <1>2 DEF CloseOut, ActorsType, SweepRow
  <2> QED
    BY <1>2, <2>1, <2>2 DEF CloseOut, QuoteType, OrderType, HistoryType, ActorsType
<1>3. Weighs(s) => sweep' \in [Sweeps -> SweepRow] /\ weighed' \subseteq Files
  BY StepType DEF Weighs, ActorsType, HistoryType, SweepRow
<1>4. CASE Decide(s)
  <2>1. sweep' \in [Sweeps -> SweepRow] /\ weighed' \subseteq Files
    <3>1. CASE Weighs(s)
      BY <1>3, <3>1
    <3>2. CASE Step(s, IF FailsWithoutQuote(quoted, rfq = "FAILED") THEN "failing" ELSE "closing")
               /\ UNCHANGED weighed
      BY <3>2, StepType DEF ActorsType, HistoryType
    <3>3. CASE /\ sweep' = [sweep EXCEPT ![s].pc = "extracting", ![s].quoted = quoted,
                                         ![s].failed = (rfq = "FAILED")]
               /\ UNCHANGED weighed
      <4>1. quoted \in BOOLEAN /\ (rfq = "FAILED") \in BOOLEAN
        BY DEF QuoteType
      <4>2. sweep' = [sweep EXCEPT ![s] = [sweep[s] EXCEPT !.pc = "extracting", !.quoted = quoted,
                                                           !.failed = (rfq = "FAILED")]]
        BY <3>3 DEF ActorsType
      <4>3. [sweep[s] EXCEPT !.pc = "extracting", !.quoted = quoted, !.failed = (rfq = "FAILED")]
              \in SweepRow
        BY <4>1 DEF ActorsType, SweepRow
      <4> QED
        BY <3>3, <4>2, <4>3 DEF ActorsType, HistoryType
    <3> QED
      BY <1>4, <3>1, <3>2, <3>3 DEF Decide
  <2> QED
    BY <1>4, <2>1 DEF Decide, QuoteType, OrderType, HistoryType, ActorsType
<1>5. CASE Extract(s)
  <2>1. sweep' \in [Sweeps -> SweepRow] /\ weighed' \subseteq Files
    BY <1>3, <1>5, StepType DEF Extract, ActorsType, HistoryType
  <2> QED
    BY <1>5, <2>1 DEF Extract, QuoteType, OrderType, HistoryType, ActorsType
<1>6. CASE ExtractFails(s)
  BY <1>6, EndsType DEF ExtractFails, QuoteType, OrderType, HistoryType, ActorsType
<1>7. CASE FailOrder(s)
  <2>1. rfq' \in {"NONE", "RECEIVED", "GENERATED", "FAILED"} /\ mishap' \in BOOLEAN
    BY <1>7, Zenon DEF FailOrder, OrderType, HistoryType
  <2> QED
    BY <1>3, <1>7, <2>1 DEF FailOrder, QuoteType, OrderType, HistoryType, ActorsType
<1>8. CASE WriteDraft(s)
  <2>1. sweep' \in [Sweeps -> SweepRow] /\ weighed' \subseteq Files
    BY <1>3, <1>8, EndsType DEF WriteDraft, ActorsType, HistoryType
  <2> QED
    <3>1. rfq' \in {"NONE", "RECEIVED", "GENERATED", "FAILED"} /\ quoted' \in BOOLEAN
      BY <1>8, Zenon DEF WriteDraft, DraftQuote, QuoteType, OrderType
    <3> QED
      BY <1>8, <2>1, <3>1 DEF WriteDraft, DraftQuote, QuoteType, OrderType, HistoryType, ActorsType
<1>9. CASE WriteVersion(s)
  <2>1. sweep' \in [Sweeps -> SweepRow] /\ weighed' \subseteq Files
    BY <1>3, <1>9, EndsType DEF WriteVersion, ActorsType, HistoryType
  <2>2. version' \in 1..MaxVersion /\ draft' \in BOOLEAN
    <3>1. CASE draft \/ version = MaxVersion
      BY <1>9, <3>1, Zenon DEF WriteVersion, QuoteType
    <3>2. CASE ~(draft \/ version = MaxVersion)
      <4>1. version' = version + 1 /\ version # MaxVersion
        BY <1>9, <3>2 DEF WriteVersion
      <4>2. version' \in 1..MaxVersion
        BY <4>1, IntakeAssumption DEF QuoteType
      <4> QED
        BY <1>9, <3>2, <4>2, Zenon DEF WriteVersion
    <3> QED
      BY <3>1, <3>2
  <2> QED
    BY <1>9, <2>1, <2>2 DEF WriteVersion, QuoteType, OrderType, HistoryType, ActorsType
<1>10. CASE Finish(s)
  BY <1>10, EndsType DEF Finish, QuoteType, OrderType, HistoryType, ActorsType
<1> QED
  BY <1>1, <1>2, <1>4, <1>5, <1>6, <1>7, <1>8, <1>9, <1>10 DEF Folds

LEMMA TypeStep == TypeOK /\ [Next]_vars => TypeOK'
<1> SUFFICES ASSUME TypeOK, [Next]_vars PROVE TypeOK'
  OBVIOUS
<1> USE DEF quoteVars, messageVars, historyVars
<1>1. QuoteType /\ OrderType /\ HistoryType /\ ActorsType
  BY TypeParts
<1> SUFFICES QuoteType' /\ OrderType' /\ HistoryType' /\ ActorsType'
  BY TypeParts, PTL
<1>2. CASE UNCHANGED vars
  BY <1>1, <1>2 DEF vars, QuoteType, OrderType, HistoryType, ActorsType
<1>3. ASSUME NEW d \in Deliveries, Delivers(d)
      PROVE  QuoteType' /\ OrderType' /\ HistoryType' /\ ActorsType'
  BY <1>1, <1>3, DeliveryTypeStep
<1>4. ASSUME NEW f \in Files, Upload(f)
      PROVE  QuoteType' /\ OrderType' /\ HistoryType' /\ ActorsType'
  BY <1>1, <1>4, FilesType DEF Upload, QuoteType, OrderType, HistoryType, ActorsType
<1>5. ASSUME NEW s \in Sweeps, NEW expired \in SUBSET Files, StartSweep(s, expired)
      PROVE  QuoteType' /\ OrderType' /\ HistoryType' /\ ActorsType'
  <2> DEFINE claimed == FilesIn({"PENDING"}) \cup expired
  <2>1. file' = [f \in Files |-> IF f \in claimed THEN [status |-> "PROCESSING", claim |-> s] ELSE file[f]]
    BY <1>5 DEF StartSweep
  <2>2. sweep' = [sweep EXCEPT ![s] =
                    [Asleep EXCEPT !.pc = "reading", !.conn = TRUE, !.left = claimed]]
    BY <1>5 DEF StartSweep
  <2>3. claimed \subseteq Files
    BY DEF FilesIn
  <2> HIDE DEF claimed
  <2>4. file' \in [Files -> FileRow]
    BY <1>1, <2>1 DEF ActorsType, FileRow
  <2>5. sweep' \in [Sweeps -> SweepRow]
    BY <1>1, <2>2, <2>3 DEF ActorsType, SweepRow, Asleep
  <2> QED
    BY <1>1, <1>5, <2>4, <2>5 DEF StartSweep, QuoteType, OrderType, HistoryType, ActorsType
<1>6. ASSUME NEW s \in Sweeps, Folds(s)
      PROVE  QuoteType' /\ OrderType' /\ HistoryType' /\ ActorsType'
  BY <1>1, <1>6, FoldTypeStep
<1>7. ASSUME NEW s \in Sweeps, SweepStops(s) \/ LoseConnection(s)
      PROVE  QuoteType' /\ OrderType' /\ HistoryType' /\ ActorsType'
  <2>1. CASE SweepStops(s)
    <3>1. sweep' \in [Sweeps -> SweepRow]
      BY <1>1, <2>1, EndsType DEF SweepStops, ActorsType
    <3>2. HistoryType'
      BY <1>1, <2>1, Zenon DEF SweepStops, HistoryType
    <3> QED
      BY <1>1, <2>1, <3>1, <3>2 DEF SweepStops, QuoteType, OrderType, ActorsType
  <2>2. CASE LoseConnection(s)
    <3>1. sweep' \in [Sweeps -> SweepRow]
      BY <1>1, <2>2 DEF LoseConnection, ActorsType, SweepRow
    <3> QED
      BY <1>1, <2>2, <3>1 DEF LoseConnection, QuoteType, OrderType, HistoryType, ActorsType
  <2> QED
    BY <1>7, <2>1, <2>2
<1>8. CASE QuoteMoves
  <2>1. version' = version \/ (version' = version + 1 /\ version' <= MaxVersion)
    BY <1>8
       DEF QuoteMoves, Lifecycle!Publish, Lifecycle!Price, Lifecycle!Freeze,
           Lifecycle!Answer, Lifecycle!ReopenForResend, Lifecycle!ReopenForEdit,
           Lifecycle!ChangeRequested, Lifecycle!NextDraft
  <2>2. version' \in 1..MaxVersion
    BY <1>1, <2>1, IntakeAssumption DEF QuoteType
  <2>3. /\ draft' \in BOOLEAN
        /\ status' \in {"DRAFT", "QUOTED", "SENT", "CHANGE_REQUESTED", "ACCEPTED", "REJECTED"}
        /\ UNCHANGED <<quoted, standing, archived>>
    BY <1>1, <1>8, Zenon
       DEF QuoteMoves, QuoteType, Lifecycle!Publish, Lifecycle!Price, Lifecycle!Freeze,
           Lifecycle!Answer, Lifecycle!ReopenForResend, Lifecycle!ReopenForEdit,
           Lifecycle!ChangeRequested, Lifecycle!NextDraft
  <2>4. QuoteType'
    BY <1>1, <2>2, <2>3 DEF QuoteType
  <2> QED
    BY <1>1, <1>8, <2>4 DEF QuoteMoves, OrderType, HistoryType, ActorsType
<1>9. CASE SetArchived
  BY <1>1, <1>9 DEF SetArchived, QuoteType, OrderType, HistoryType, ActorsType
<1> QED
  BY <1>2, <1>3, <1>4, <1>5, <1>6, <1>7, <1>8, <1>9 DEF Next

-----------------------------------------------------------------------------
(* What a step does to the order, to its quote and to each file *)

(* The order and what became of the message are written by few actions. *)
LEMMA OrderFrame ==
  ASSUME [Next]_vars
  PROVE  /\ entry' = entry
         /\ \/ UNCHANGED <<rfq, reserved, orders, joins>>
            \/ \E d \in Deliveries :
                 Reserve(d) \/ StoreEmail(d) \/ Receive(d) \/ MarkFailed(d) \/ Persist(d)
            \/ \E s \in Sweeps : FailOrder(s) \/ WriteDraft(s)
<1> USE DEF messageVars
<1>1. CASE UNCHANGED vars
  BY <1>1 DEF vars
<1>2. ASSUME NEW d \in Deliveries, Delivers(d)
      PROVE  /\ entry' = entry
             /\ \/ UNCHANGED <<rfq, reserved, orders, joins>>
                \/ Reserve(d) \/ StoreEmail(d) \/ Receive(d) \/ MarkFailed(d) \/ Persist(d)
  BY <1>2
     DEF Delivers, Deliver, SellerAsks, Reserve, FindEmail, StoreEmail, Receive, StoreForRFQ,
         StorePendingForRFQ, Interpret, Defer, MarkFailed, Persist, Stops, LoseLock
<1>3. ASSUME NEW s \in Sweeps, Folds(s)
      PROVE  /\ entry' = entry
             /\ UNCHANGED <<rfq, reserved, orders, joins>> \/ FailOrder(s) \/ WriteDraft(s)
  BY <1>3
     DEF Folds, ReadFile, CloseOut, Decide, Extract, ExtractFails, FailOrder, WriteDraft,
         WriteVersion, Finish
<1>4. ASSUME \/ \E f \in Files : Upload(f)
             \/ \E s \in Sweeps :
                  \/ \E expired \in SUBSET Files : StartSweep(s, expired)
                  \/ SweepStops(s) \/ LoseConnection(s)
             \/ QuoteMoves \/ SetArchived
      PROVE  entry' = entry /\ UNCHANGED <<rfq, reserved, orders, joins>>
  BY <1>4 DEF Upload, StartSweep, SweepStops, LoseConnection, QuoteMoves, SetArchived
<1> QED
  BY <1>1, <1>2, <1>3, <1>4 DEF Next

(* What an order becomes: it is interpreted from the moment it is received, and once. *)
LEMMA OrderMoves ==
  ASSUME IInv, [Next]_vars
  PROVE  /\ \/ rfq' = rfq
            \/ rfq = "NONE" /\ rfq' \in {"RECEIVED", "FAILED"}
            \/ rfq # "NONE" /\ rfq' \in {"GENERATED", "FAILED"}
         /\ reserved' = reserved \/ reserved = "nothing"
<1>1. CASE UNCHANGED <<rfq, reserved>>
  BY <1>1
<1>2. ASSUME NEW d \in Deliveries, MarkFailed(d) \/ Persist(d)
      PROVE  rfq # "NONE" /\ (rfq' = rfq \/ rfq' \in {"GENERATED", "FAILED"}) /\ reserved' = reserved
  <2>1. rfq # "NONE"
    BY <1>2 DEF MarkFailed, Persist, IInv, IntakeFollows, Interprets, At
  <2> QED
    BY <1>2, <2>1 DEF MarkFailed, Persist, DraftQuote, messageVars
<1>3. ASSUME NEW s \in Sweeps, FailOrder(s) \/ WriteDraft(s)
      PROVE  rfq # "NONE" /\ (rfq' = rfq \/ rfq' \in {"GENERATED", "FAILED"}) /\ reserved' = reserved
  <2>1. rfq # "NONE"
    BY <1>3 DEF FailOrder, WriteDraft, IInv, OrderIsThere, In
  <2> QED
    BY <1>3, <2>1 DEF FailOrder, WriteDraft, DraftQuote, messageVars
<1>4. ASSUME NEW d \in Deliveries, Reserve(d)
      PROVE  rfq' = rfq /\ (reserved' = reserved \/ reserved = "nothing")
  BY <1>4 DEF Reserve
<1>5. ASSUME NEW d \in Deliveries, Receive(d)
      PROVE  (rfq' = rfq \/ (rfq = "NONE" /\ rfq' = "RECEIVED")) /\ reserved' = reserved
  BY <1>5 DEF Receive
<1>6. ASSUME NEW d \in Deliveries, StoreEmail(d)
      PROVE  /\ rfq' = rfq \/ (rfq = "NONE" /\ rfq' \in {"RECEIVED", "FAILED"})
             /\ reserved' = reserved \/ reserved = "nothing"
  <2>1. reserved = "nothing" => rfq = "NONE"
    <3>1. entry = "email"
      BY <1>6 DEF StoreEmail
    <3> QED
      BY <3>1 DEF IInv, OneOutcome, TypeOK
  <2> QED
    BY <1>6, <2>1 DEF StoreEmail
<1> QED
  BY <1>1, <1>2, <1>3, <1>4, <1>5, <1>6, OrderFrame

(* A message becomes one thing. *)
LEMMA OneOutcomeStep ==
  ASSUME IInv, [Next]_vars
  PROVE  OneOutcome'
<1>1. /\ orders \in Nat /\ joins \in Nat /\ orders + joins <= 1
      /\ joins = 1 <=> reserved = "joined"
      /\ orders = 1 <=> rfq # "NONE"
      /\ entry \notin {"typed", "upload"} /\ orders = 1 => reserved = "order"
      /\ entry \in {"typed", "upload"} => reserved = "nothing"
      /\ entry' = entry
  BY OrderFrame DEF IInv, TypeOK, OneOutcome, IntakeFollows
<1>2. CASE UNCHANGED <<rfq, reserved, orders, joins>>
  BY <1>1, <1>2 DEF OneOutcome
<1>3. ASSUME NEW d \in Deliveries, Reserve(d) PROVE OneOutcome'
  <2>1. PICK outcome \in Readings :
          /\ reserved' = IF reserved = "nothing" THEN outcome ELSE reserved
          /\ joins' = JoinsKept(outcome)
    BY <1>3 DEF Reserve
  <2>2. entry \notin {"typed", "upload"} /\ orders' = orders /\ rfq' = rfq
    BY <1>3 DEF Reserve
  <2>3. CASE reserved = "nothing"
    <3>1. orders = 0 /\ joins = 0
      BY <1>1, <2>2, <2>3
    <3>2. joins' = (IF outcome = "joined" THEN 1 ELSE 0) /\ reserved' = outcome
      BY <2>1, <2>3, <3>1 DEF JoinsKept
    <3> QED
      BY <1>1, <2>2, <3>1, <3>2 DEF OneOutcome
  <2>4. CASE reserved # "nothing"
    <3>1. joins' = joins /\ reserved' = reserved
      BY <2>1, <2>4 DEF JoinsKept
    <3> QED
      BY <1>1, <2>2, <3>1 DEF OneOutcome
  <2> QED
    BY <2>3, <2>4
<1>4. ASSUME NEW d \in Deliveries, StoreEmail(d) PROVE OneOutcome'
  <2>1. entry = "email" /\ joins' = joins
    BY <1>4 DEF StoreEmail, messageVars
  <2>2. CASE reserved # "nothing"
    BY <1>1, <1>2, <1>4, <2>1, <2>2 DEF StoreEmail
  <2>3. CASE reserved = "nothing"
    <3>1. orders = 0 /\ joins = 0 /\ rfq = "NONE"
      BY <1>1, <2>1, <2>3
    <3>2. \/ rfq' # "NONE" /\ reserved' = "order" /\ orders' = 1
          \/ rfq' = rfq /\ reserved' = "named" /\ orders' = orders
      BY <1>4, <2>3, <3>1 DEF StoreEmail
    <3> QED
      BY <1>1, <2>1, <3>1, <3>2 DEF OneOutcome
  <2> QED
    BY <2>2, <2>3
<1>5. ASSUME NEW d \in Deliveries, Receive(d) PROVE OneOutcome'
  <2>1. /\ At(d, "receiving") /\ UNCHANGED <<reserved, joins>>
        /\ rfq' = (IF rfq = "NONE" THEN "RECEIVED" ELSE rfq)
        /\ orders' = (IF rfq = "NONE" THEN orders + 1 ELSE orders)
    BY <1>5 DEF Receive
  <2>2. entry \in EntryKinds
    BY IntakeAssumption DEF IInv, TypeOK
  <2>3. entry \in {"typed", "upload"} \/ reserved = "order"
    BY <2>1, <2>2 DEF IInv, IntakeFollows, EntryKinds
  <2>4. joins = 0
    BY <1>1, <2>3
  <2>5. orders' = 1 /\ rfq' # "NONE"
    BY <1>1, <2>1
  <2> QED
    BY <1>1, <2>1, <2>3, <2>4, <2>5 DEF OneOutcome
<1>6. ASSUME \/ \E d \in Deliveries : MarkFailed(d) \/ Persist(d)
             \/ \E s \in Sweeps : FailOrder(s) \/ WriteDraft(s)
      PROVE  OneOutcome'
  <2>1. UNCHANGED <<reserved, orders, joins>>
    BY <1>6 DEF MarkFailed, Persist, FailOrder, WriteDraft, messageVars
  <2>2. rfq # "NONE"
    BY <1>6 DEF MarkFailed, Persist, FailOrder, WriteDraft, IInv, IntakeFollows, Interprets, At,
                OrderIsThere, In
  <2>3. rfq' # "NONE"
    BY <2>2, OrderMoves
  <2> QED
    BY <1>1, <2>1, <2>2, <2>3 DEF OneOutcome
<1> QED
  BY <1>2, <1>3, <1>4, <1>5, <1>6, OrderFrame

(* A quote is drafted with its order's interpretation, and stays. *)
LEMMA QuoteStays ==
  ASSUME IInv, [Next]_vars
  PROVE  quoted' = quoted \/ (quoted' = TRUE /\ rfq' = "GENERATED")
<1> USE DEF quoteVars
<1>1. CASE UNCHANGED vars
  BY <1>1 DEF vars
<1>2. ASSUME NEW d \in Deliveries, Delivers(d)
      PROVE  quoted' = quoted \/ (quoted' = TRUE /\ rfq' = "GENERATED")
  BY <1>2
     DEF Delivers, Deliver, SellerAsks, Reserve, FindEmail, StoreEmail, Receive, StoreForRFQ,
         StorePendingForRFQ, Interpret, Defer, MarkFailed, Persist, Stops, LoseLock, DraftQuote
<1>3. ASSUME NEW s \in Sweeps, Folds(s)
      PROVE  quoted' = quoted \/ (quoted' = TRUE /\ rfq' = "GENERATED")
  BY <1>3
     DEF Folds, ReadFile, CloseOut, Decide, Extract, ExtractFails, FailOrder, WriteDraft,
         WriteVersion, Finish, DraftQuote
<1>4. ASSUME \/ \E f \in Files : Upload(f)
             \/ \E s \in Sweeps :
                  \/ \E expired \in SUBSET Files : StartSweep(s, expired)
                  \/ SweepStops(s) \/ LoseConnection(s)
             \/ QuoteMoves \/ SetArchived
      PROVE  quoted' = quoted
  BY <1>4 DEF Upload, StartSweep, SweepStops, LoseConnection, QuoteMoves, SetArchived
<1> QED
  BY <1>1, <1>2, <1>3, <1>4 DEF Next

(* What was weighed stays so, and what went wrong is not forgotten. *)
LEMMA HistoryGrows ==
  ASSUME IInv, [Next]_vars
  PROVE  weighed \subseteq weighed' /\ (mishap' = mishap \/ mishap' = TRUE)
<1> USE DEF historyVars
<1>1. CASE UNCHANGED vars
  BY <1>1 DEF vars
<1>2. ASSUME NEW d \in Deliveries, Delivers(d) PROVE weighed' = weighed /\ (mishap' = mishap \/ mishap' = TRUE)
  BY <1>2
     DEF Delivers, Deliver, SellerAsks, Reserve, FindEmail, StoreEmail, Receive, StoreForRFQ,
         StorePendingForRFQ, Interpret, Defer, MarkFailed, Persist, Stops, LoseLock
<1>3. ASSUME NEW s \in Sweeps, Folds(s) PROVE weighed \subseteq weighed' /\ (mishap' = mishap \/ mishap' = TRUE)
  BY <1>3
     DEF Folds, ReadFile, CloseOut, Decide, Extract, ExtractFails, FailOrder, WriteDraft,
         WriteVersion, Finish, Weighs
<1>4. ASSUME \/ \E f \in Files : Upload(f)
             \/ \E s \in Sweeps :
                  \/ \E expired \in SUBSET Files : StartSweep(s, expired)
                  \/ SweepStops(s) \/ LoseConnection(s)
             \/ QuoteMoves \/ SetArchived
      PROVE  weighed' = weighed /\ (mishap' = mishap \/ mishap' = TRUE)
  BY <1>4 DEF Upload, StartSweep, SweepStops, LoseConnection, QuoteMoves, SetArchived
<1> QED
  BY <1>1, <1>2, <1>3, <1>4 DEF Next

(* The files are written by few actions. *)
LEMMA FileFrame ==
  ASSUME [Next]_vars
  PROVE  \/ UNCHANGED <<file, inline>>
         \/ \E d \in Deliveries : StoreEmail(d) \/ StoreForRFQ(d) \/ StorePendingForRFQ(d) \/ Defer(d)
         \/ \E f \in Files : Upload(f)
         \/ \E s \in Sweeps :
              \/ \E expired \in SUBSET Files : Expired(expired) /\ StartSweep(s, expired)
              \/ \E f \in Files : ReadFile(s, f) \/ CloseOut(s, f)
<1> USE DEF historyVars
<1>1. CASE UNCHANGED vars
  BY <1>1 DEF vars
<1>2. ASSUME NEW d \in Deliveries, Delivers(d)
      PROVE  \/ UNCHANGED <<file, inline>>
             \/ StoreEmail(d) \/ StoreForRFQ(d) \/ StorePendingForRFQ(d) \/ Defer(d)
  BY <1>2
     DEF Delivers, Deliver, SellerAsks, Reserve, FindEmail, Receive, Interpret, MarkFailed, Persist,
         Stops, LoseLock
<1>3. ASSUME NEW s \in Sweeps, Folds(s)
      PROVE  UNCHANGED <<file, inline>> \/ \E f \in Files : ReadFile(s, f) \/ CloseOut(s, f)
  BY <1>3 DEF Folds, Decide, Extract, ExtractFails, FailOrder, WriteDraft, WriteVersion, Finish
<1>4. ASSUME \/ \E s \in Sweeps : SweepStops(s) \/ LoseConnection(s)
             \/ QuoteMoves \/ SetArchived
      PROVE  UNCHANGED <<file, inline>>
  BY <1>4 DEF SweepStops, LoseConnection, QuoteMoves, SetArchived
<1> QED
  BY <1>1, <1>2, <1>3, <1>4 DEF Next

(* What a step may do to a file: store it, return it to the queue, claim it, or close it *)
(* under the claim of a run that holds the job.                                          *)
Stored(f) ==
  /\ file[f].status = "NONE" /\ rfq' # "NONE"
  /\ file'[f].status = "PENDING" \/ (file'[f].status = "DONE" /\ f \in inline')
Returned(f) ==
  /\ file[f].status = "DONE" /\ f \in inline /\ f \notin inline'
  /\ file'[f].status = "PENDING"
Claimed(f) ==
  /\ file[f].status \in {"PENDING", "PROCESSING"} /\ file'[f].status = "PROCESSING"
  /\ \A s \in Sweeps : ~sweep[s].conn
Closed(f, s) ==
  /\ sweep[s].conn /\ sweep'[s] # sweep[s]
  /\ sweep'[s].pc = sweep[s].pc /\ sweep'[s].conn
  /\ file[f].status = "PROCESSING" /\ file[f].claim = s
  /\ f \notin sweep'[s].left \cup sweep'[s].read
  /\ \/ In(s, "reading") /\ f \in sweep[s].left /\ file'[f].status = "FAILED"
     \/ In(s, "closing") /\ f \in sweep[s].read /\ file'[f].status = "DONE"

LEMMA FilesMove ==
  ASSUME IInv, [Next]_vars, NEW f \in Files, file'[f] # file[f]
  PROVE  Stored(f) \/ Returned(f) \/ Claimed(f) \/ \E s \in Sweeps : Closed(f, s)
<1> USE DEF FilesIn
<1>1. /\ file \in [Files -> FileRow] /\ delivery \in [Deliveries -> DeliveryRow]
      /\ sweep \in [Sweeps -> SweepRow] /\ RunsAreAlone /\ IntakeFollows /\ OrderIsThere
  BY TypeParts DEF IInv, ActorsType
<1>2. rfq # "NONE" => rfq' # "NONE"
  BY OrderMoves
<1>3. ASSUME NEW d \in Deliveries, StoreEmail(d) PROVE Stored(f)
  <2>1. PICK fs \in SUBSET Files : FilesBecome(fs, "PENDING") /\ rfq' # "NONE" /\ reserved = "nothing"
    BY <1>3 DEF StoreEmail
  <2>2. file[f].status = "NONE"
    <3>1. entry = "email"
      BY <1>3 DEF StoreEmail
    <3>2. rfq = "NONE"
      BY <2>1, <3>1 DEF IInv, OneOutcome, TypeOK
    <3> QED
      BY <1>1, <3>2 DEF OrderIsThere
  <2>3. file'[f].status = "PENDING"
    BY <2>1, FilesRow
  <2> QED
    BY <2>1, <2>2, <2>3 DEF Stored
<1>4. ASSUME NEW d \in Deliveries, StoreForRFQ(d) PROVE Stored(f)
  <2>1. PICK g \in Files :
          file[g].status = "NONE" /\ FilesBecome({g}, "DONE") /\ inline' = inline \cup {g}
    BY <1>4 DEF StoreForRFQ
  <2>2. f = g /\ file'[f].status = "DONE"
    BY <2>1, FilesRow
  <2>3. rfq # "NONE"
    BY <1>1, <1>4 DEF StoreForRFQ, IntakeFollows, Interprets
  <2> QED
    BY <1>2, <2>1, <2>2, <2>3 DEF Stored
<1>5. ASSUME NEW d \in Deliveries, StorePendingForRFQ(d) PROVE Stored(f)
  <2>1. PICK g \in Files : file[g].status = "NONE" /\ FilesBecome({g}, "PENDING")
    BY <1>5 DEF StorePendingForRFQ
  <2>2. f = g /\ file'[f].status = "PENDING"
    BY <2>1, FilesRow
  <2>3. rfq # "NONE"
    BY <1>1, <1>5 DEF StorePendingForRFQ, IntakeFollows, Interprets
  <2> QED
    BY <1>2, <2>1, <2>2, <2>3 DEF Stored
<1>6. ASSUME NEW d \in Deliveries, Defer(d) PROVE Returned(f)
  <2>1. FilesBecome({delivery[d].file}, "PENDING") /\ inline' = inline \ {delivery[d].file}
    BY <1>6 DEF Defer
  <2>2. f = delivery[d].file /\ file'[f].status = "PENDING"
    BY <2>1, FilesRow
  <2>3. HoldsFile(d)
    BY <1>1, <1>6 DEF Defer, IntakeFollows, HoldsFile, At
  <2> QED
    BY <1>1, <2>1, <2>2, <2>3 DEF IntakeFollows, Returned
<1>7. ASSUME NEW g \in Files, Upload(g) PROVE Stored(f)
  <2>1. f = g /\ file'[f].status = "PENDING"
    BY <1>7, FilesRow DEF Upload
  <2> QED
    BY <1>2, <1>7, <2>1 DEF Upload, Stored
<1>8. ASSUME NEW s \in Sweeps, NEW expired \in SUBSET Files, Expired(expired), StartSweep(s, expired)
      PROVE  Claimed(f)
  <2>1. file'[f] = (IF f \in FilesIn({"PENDING"}) \cup expired
                    THEN [status |-> "PROCESSING", claim |-> s] ELSE file[f])
    BY <1>8 DEF StartSweep
  <2>2. f \in FilesIn({"PENDING"}) \cup expired /\ file'[f].status = "PROCESSING"
    BY <2>1
  <2>3. \A t \in Sweeps : ~sweep[t].conn
    BY <1>1, <1>8, AsleepIsARun DEF StartSweep, JobIsFree, HoldsJob, In, RunsAreAlone
  <2> QED
    BY <1>8, <2>2, <2>3 DEF Expired, Claimed
<1>9. ASSUME NEW s \in Sweeps, NEW g \in Files, ReadFile(s, g) PROVE Closed(f, s)
  <2>1. /\ In(s, "reading") /\ g \in sweep[s].left /\ sweep[s].conn /\ FilesBecome({g}, "FAILED")
        /\ sweep' = [sweep EXCEPT ![s].left = @ \ {g}]
    BY <1>9 DEF ReadFile, Connected
  <2>2. f = g /\ file'[f].status = "FAILED"
    BY <2>1, FilesRow
  <2>3. /\ sweep'[s].left = sweep[s].left \ {g} /\ sweep'[s].read = sweep[s].read
        /\ sweep'[s].pc = sweep[s].pc /\ sweep'[s].conn = sweep[s].conn
    BY <1>1, <2>1 DEF SweepRow
  <2>4. sweep'[s] # sweep[s] /\ g \notin sweep'[s].left \cup sweep'[s].read
    BY <1>1, <2>1, <2>3 DEF RunsAreAlone
  <2> QED
    BY <1>1, <2>1, <2>2, <2>3, <2>4 DEF RunsAreAlone, Closed
<1>10. ASSUME NEW s \in Sweeps, NEW g \in Files, CloseOut(s, g) PROVE Closed(f, s)
  <2>1. /\ In(s, "closing") /\ g \in sweep[s].read /\ sweep[s].conn /\ FilesBecome({g}, "DONE")
        /\ sweep' = [sweep EXCEPT ![s].read = @ \ {g}]
    BY <1>10 DEF CloseOut, Connected
  <2>2. f = g /\ file'[f].status = "DONE"
    BY <2>1, FilesRow
  <2>3. /\ sweep'[s].read = sweep[s].read \ {g} /\ sweep'[s].left = sweep[s].left
        /\ sweep'[s].pc = sweep[s].pc /\ sweep'[s].conn = sweep[s].conn
    BY <1>1, <2>1 DEF SweepRow
  <2>4. sweep[s].left = {}
    BY <2>1 DEF IInv, RunsAreWeighed, In
  <2>5. sweep'[s] # sweep[s] /\ g \notin sweep'[s].left \cup sweep'[s].read
    BY <2>1, <2>3, <2>4
  <2> QED
    BY <1>1, <2>1, <2>2, <2>3, <2>5 DEF RunsAreAlone, Closed
<1> QED
  BY <1>3, <1>4, <1>5, <1>6, <1>7, <1>8, <1>9, <1>10, FileFrame

(* A file leaves those the intake stored as read only by going back to the queue. *)
LEMMA InlineLeaves ==
  ASSUME IInv, [Next]_vars, NEW f \in Files, f \in inline, f \notin inline'
  PROVE  file'[f].status = "PENDING"
<1>1. PICK d \in Deliveries : Defer(d)
  BY FileFrame
     DEF StoreEmail, StoreForRFQ, StorePendingForRFQ, Upload, StartSweep, ReadFile, CloseOut,
         historyVars
<1>2. f = delivery[d].file /\ FilesBecome({f}, "PENDING")
  BY <1>1 DEF Defer
<1> QED
  BY <1>2, FilesRow

(* A file the sweep closed as read was weighed in an interpretation that ended. *)
LEMMA DoneStep ==
  ASSUME IInv, [Next]_vars
  PROVE  DoneWasWeighed'
<1> SUFFICES ASSUME NEW f \in Files, file'[f].status = "DONE" PROVE f \in weighed' \cup inline'
  BY DEF DoneWasWeighed, FilesIn
<1>1. CASE file'[f] = file[f]
  <2>1. f \in weighed \cup inline
    BY <1>1 DEF IInv, DoneWasWeighed, FilesIn
  <2> QED
    BY <2>1, HistoryGrows, InlineLeaves
<1>2. CASE file'[f] # file[f]
  <2>1. \A s \in Sweeps : Closed(f, s) => f \in weighed
    BY DEF Closed, IInv, RunsAreWeighed
  <2>2. Stored(f) => f \in inline'
    BY DEF Stored
  <2>3. ~Returned(f) /\ ~Claimed(f)
    BY DEF Returned, Claimed
  <2> QED
    BY <1>2, <2>1, <2>2, <2>3, FilesMove, HistoryGrows
<1> QED
  BY <1>1, <1>2

-----------------------------------------------------------------------------
(* What a step does to the runs of the sweep *)

(* A run that starts claims the files that wait, while nobody holds the job. *)
Starts(s) ==
  /\ In(s, "idle") /\ \A t \in Sweeps : ~sweep[t].conn
  /\ sweep'[s].pc = "reading" /\ sweep'[s].read = {} /\ sweep'[s].left # {}
  /\ sweep'[s].left \subseteq FilesIn({"PENDING", "PROCESSING"})
  /\ \A f \in sweep'[s].left : file'[f].status = "PROCESSING" /\ file'[f].claim = s
  /\ sweep'[s].quoted = FALSE /\ sweep'[s].failed = FALSE
  /\ UNCHANGED <<rfq, quoted, weighed, mishap>>

(* A run that goes on takes no file more, and loses its connection for good. *)
Shrinks(s) ==
  /\ sweep'[s].pc # "idle" => ~In(s, "idle")
  /\ sweep'[s].pc = "idle" => sweep'[s] = Asleep
  /\ sweep'[s].conn => sweep[s].conn
  /\ sweep'[s].left \subseteq sweep[s].left
  /\ sweep'[s].left \cup sweep'[s].read \subseteq sweep[s].left \cup sweep[s].read
  /\ sweep'[s].left \cap sweep'[s].read = {}

(* The part of RunsAreWeighed that is about one run. *)
Knows(s) ==
  /\ ~In(s, "idle") /\ ~In(s, "reading") => sweep[s].left = {}
  /\ In(s, "closing") => sweep[s].read \subseteq weighed
  /\ In(s, "closing") => rfq # "RECEIVED" \/ mishap
  /\ sweep[s].quoted => quoted
  /\ sweep[s].failed => rfq # "RECEIVED"

LEMMA SweepFrame ==
  ASSUME [Next]_vars
  PROVE  \/ sweep' = sweep
         \/ \E s \in Sweeps :
              \/ \E expired \in SUBSET Files : Expired(expired) /\ StartSweep(s, expired)
              \/ Folds(s) \/ SweepStops(s) \/ LoseConnection(s)
<1>1. CASE UNCHANGED vars
  BY <1>1 DEF vars
<1>2. ASSUME NEW d \in Deliveries, Delivers(d) PROVE sweep' = sweep
  BY <1>2
     DEF Delivers, Deliver, SellerAsks, Reserve, FindEmail, StoreEmail, Receive, StoreForRFQ,
         StorePendingForRFQ, Interpret, Defer, MarkFailed, Persist, Stops, LoseLock
<1>3. ASSUME (\E f \in Files : Upload(f)) \/ QuoteMoves \/ SetArchived PROVE sweep' = sweep
  BY <1>3 DEF Upload, QuoteMoves, SetArchived
<1> QED
  BY <1>1, <1>2, <1>3 DEF Next

(* A step moves one run. *)
LEMMA OtherRunsStay ==
  ASSUME sweep \in [Sweeps -> SweepRow], NEW s \in Sweeps,
         \/ \E expired \in SUBSET Files : StartSweep(s, expired)
         \/ Folds(s) \/ SweepStops(s) \/ LoseConnection(s)
  PROVE  \A t \in Sweeps : t # s => sweep'[t] = sweep[t]
<1>1. CASE \E expired \in SUBSET Files : StartSweep(s, expired)
  BY <1>1 DEF StartSweep
<1>2. CASE Folds(s)
  BY <1>2
     DEF Folds, ReadFile, CloseOut, Decide, Extract, ExtractFails, FailOrder, WriteDraft,
         WriteVersion, Finish, Weighs, Step, Ends
<1>3. CASE SweepStops(s) \/ LoseConnection(s)
  BY <1>3 DEF SweepStops, LoseConnection, Ends
<1> QED
  BY <1>1, <1>2, <1>3

LEMMA RunStarts ==
  ASSUME IInv, NEW s \in Sweeps, NEW expired \in SUBSET Files, Expired(expired), StartSweep(s, expired)
  PROVE  Starts(s)
<1> DEFINE claimed == FilesIn({"PENDING"}) \cup expired
<1>1. /\ file' = [f \in Files |-> IF f \in claimed THEN [status |-> "PROCESSING", claim |-> s] ELSE file[f]]
      /\ sweep' = [sweep EXCEPT ![s] = [Asleep EXCEPT !.pc = "reading", !.conn = TRUE, !.left = claimed]]
      /\ claimed # {} /\ In(s, "idle") /\ UNCHANGED <<rfq, quoted, weighed, mishap>>
  BY DEF StartSweep, quoteVars, historyVars
<1>2. claimed \subseteq FilesIn({"PENDING", "PROCESSING"}) /\ claimed \subseteq Files
  BY DEF Expired, FilesIn
<1>3. \A t \in Sweeps : ~sweep[t].conn
  BY AsleepIsARun DEF StartSweep, JobIsFree, HoldsJob, In, IInv, RunsAreAlone
<1> HIDE DEF claimed
<1>4. sweep'[s] = [Asleep EXCEPT !.pc = "reading", !.conn = TRUE, !.left = claimed]
  BY <1>1, TypeParts DEF IInv, ActorsType
<1>5. /\ sweep'[s].pc = "reading" /\ sweep'[s].read = {} /\ sweep'[s].left = claimed
      /\ sweep'[s].quoted = FALSE /\ sweep'[s].failed = FALSE
  BY <1>4 DEF Asleep
<1>6. ASSUME NEW f \in claimed PROVE file'[f].status = "PROCESSING" /\ file'[f].claim = s
  <2>1. file'[f] = [status |-> "PROCESSING", claim |-> s]
    BY <1>1, <1>2, <1>6
  <2> QED
    BY <2>1
<1> QED
  BY <1>1, <1>2, <1>3, <1>5, <1>6 DEF Starts

(* An order that was interpreted is not in progress again. *)
LEMMA SettledStays ==
  ASSUME IInv, [Next]_vars, rfq \notin {"NONE", "RECEIVED"}
  PROVE  rfq' # "RECEIVED"
  BY OrderMoves

(* A run that ends forgets what it knew. *)
LEMMA RunEnds ==
  ASSUME IInv, NEW s \in Sweeps, Ends(s)
  PROVE  Shrinks(s) /\ Knows(s)'
<1>1. sweep'[s] = Asleep
  BY EndsRow, TypeParts DEF IInv, ActorsType
<1>2. \/ sweep'[s].pc = "idle" /\ sweep'[s].conn = FALSE /\ sweep'[s].left = {} /\ sweep'[s].read = {}
      /\ sweep'[s].quoted = FALSE /\ sweep'[s].failed = FALSE
  BY <1>1, AsleepIsARun
<1> QED
  BY <1>1, <1>2 DEF Shrinks, Knows, In

(* A run that only moves on keeps its files and what it saw. *)
LEMMA RunSteps ==
  ASSUME IInv, NEW s \in Sweeps, NEW pc \in {"extracting", "failing", "writing", "closing"},
         Step(s, pc), ~In(s, "idle"), sweep[s].left = {}
  PROVE  /\ Shrinks(s)
         /\ sweep'[s].pc = pc /\ sweep'[s].left = {} /\ sweep'[s].read = sweep[s].read
         /\ sweep'[s].quoted = sweep[s].quoted /\ sweep'[s].failed = sweep[s].failed
<1>1. sweep \in [Sweeps -> SweepRow] /\ sweep[s].left \cap sweep[s].read = {}
  BY TypeParts DEF IInv, ActorsType, RunsAreAlone
<1> QED
  BY <1>1, StepRow DEF Shrinks

(* The run that closes its files knows that the order is settled. *)
LEMMA RunWeighs ==
  ASSUME IInv, [Next]_vars, NEW s \in Sweeps, Weighs(s), ~In(s, "idle"), sweep[s].left = {},
         rfq' # "RECEIVED" \/ mishap'
  PROVE  Shrinks(s) /\ Knows(s)'
<1>1. Step(s, "closing") /\ weighed' = weighed \cup sweep[s].read
  BY DEF Weighs
<1>2. /\ Shrinks(s)
      /\ sweep'[s].pc = "closing" /\ sweep'[s].left = {} /\ sweep'[s].read = sweep[s].read
      /\ sweep'[s].quoted = sweep[s].quoted /\ sweep'[s].failed = sweep[s].failed
  BY <1>1, RunSteps
<1>3. (sweep[s].quoted => quoted') /\ (sweep[s].failed => rfq' # "RECEIVED")
  <2>1. (sweep[s].quoted => quoted) /\ (sweep[s].failed => rfq # "RECEIVED") /\ rfq # "NONE"
    BY DEF IInv, RunsAreWeighed, OrderIsThere
  <2> QED
    BY <2>1, QuoteStays, SettledStays
<1> QED
  BY <1>1, <1>2, <1>3 DEF Knows, In

LEMMA RunGoesOn ==
  ASSUME IInv, [Next]_vars, NEW s \in Sweeps,
         Folds(s) \/ SweepStops(s) \/ LoseConnection(s)
  PROVE  Shrinks(s) /\ Knows(s)'
<1>1. /\ sweep \in [Sweeps -> SweepRow]
      /\ RunsAreAlone /\ RunsAreWeighed /\ OrderIsThere
  BY TypeParts DEF IInv, ActorsType
<1>2. CASE SweepStops(s) \/ ExtractFails(s) \/ Finish(s)
  BY <1>2, RunEnds DEF SweepStops, ExtractFails, Finish
<1>3. CASE LoseConnection(s)
  <2>1. /\ UNCHANGED <<rfq, quoted, weighed, mishap>>
        /\ sweep' = [sweep EXCEPT ![s].conn = FALSE] /\ ~In(s, "idle")
    BY <1>3 DEF LoseConnection, HoldsJob, quoteVars, historyVars
  <2>2. /\ sweep'[s].pc = sweep[s].pc /\ sweep'[s].left = sweep[s].left
        /\ sweep'[s].read = sweep[s].read /\ sweep'[s].quoted = sweep[s].quoted
        /\ sweep'[s].failed = sweep[s].failed /\ ~sweep'[s].conn
    BY <1>1, <2>1 DEF SweepRow
  <2> QED
    BY <1>1, <2>1, <2>2 DEF Shrinks, Knows, In, RunsAreAlone, RunsAreWeighed
<1>4. ASSUME NEW f \in Files, ReadFile(s, f) PROVE Shrinks(s) /\ Knows(s)'
  <2>1. In(s, "reading") /\ f \in sweep[s].left /\ UNCHANGED <<rfq, quoted, weighed, mishap>>
    BY <1>4 DEF ReadFile, quoteVars, historyVars
  <2>2. /\ sweep'[s].pc = "reading" /\ sweep'[s].left = sweep[s].left \ {f}
        /\ sweep'[s].read \in {sweep[s].read, sweep[s].read \cup {f}}
        /\ sweep'[s].conn = sweep[s].conn
        /\ sweep'[s].quoted = sweep[s].quoted /\ sweep'[s].failed = sweep[s].failed
    BY <1>1, <1>4, <2>1 DEF ReadFile, SweepRow, In
  <2> QED
    BY <1>1, <2>1, <2>2 DEF Shrinks, Knows, In, RunsAreAlone, RunsAreWeighed
<1>5. ASSUME NEW f \in Files, CloseOut(s, f) PROVE Shrinks(s) /\ Knows(s)'
  <2>1. In(s, "closing") /\ UNCHANGED <<rfq, quoted, weighed, mishap>>
    BY <1>5 DEF CloseOut, quoteVars, historyVars
  <2>2. /\ sweep'[s].pc = "closing" /\ sweep'[s].left = sweep[s].left
        /\ sweep'[s].read = sweep[s].read \ {f}
        /\ sweep'[s].conn = sweep[s].conn
        /\ sweep'[s].quoted = sweep[s].quoted /\ sweep'[s].failed = sweep[s].failed
    BY <1>1, <1>5, <2>1 DEF CloseOut, SweepRow, In
  <2> QED
    BY <1>1, <2>1, <2>2 DEF Shrinks, Knows, In, RunsAreAlone, RunsAreWeighed
<1>6. CASE Decide(s)
  <2>1. /\ In(s, "reading") /\ ~In(s, "idle") /\ sweep[s].left = {} /\ rfq # "NONE"
        /\ UNCHANGED <<rfq, quoted, mishap>>
    BY <1>1, <1>6 DEF Decide, quoteVars, In, OrderIsThere
  <2>2. CASE Weighs(s) /\ quoted
    BY <1>1, <2>1, <2>2, RunWeighs DEF OrderIsThere
  <2>3. CASE /\ sweep[s].read = {} /\ UNCHANGED weighed
             /\ Step(s, IF FailsWithoutQuote(quoted, rfq = "FAILED") THEN "failing" ELSE "closing")
    <3>1. PICK pc \in {"failing", "closing"} :
            Step(s, pc) /\ (pc = "closing" => ~FailsWithoutQuote(quoted, rfq = "FAILED"))
      BY <2>3
    <3>2. /\ Shrinks(s)
          /\ sweep'[s].pc = pc /\ sweep'[s].left = {} /\ sweep'[s].read = sweep[s].read
          /\ sweep'[s].quoted = sweep[s].quoted /\ sweep'[s].failed = sweep[s].failed
      BY <2>1, <3>1, RunSteps
    <3>3. pc = "closing" => rfq # "RECEIVED"
      BY <1>1, <3>1 DEF FailsWithoutQuote, OrderIsThere
    <3> QED
      BY <1>1, <2>1, <2>3, <3>2, <3>3 DEF Knows, In, RunsAreWeighed
  <2>4. CASE /\ sweep' = [sweep EXCEPT ![s].pc = "extracting", ![s].quoted = quoted,
                                       ![s].failed = (rfq = "FAILED")]
             /\ UNCHANGED weighed
    <3>1. /\ sweep'[s].pc = "extracting" /\ sweep'[s].left = sweep[s].left
          /\ sweep'[s].read = sweep[s].read /\ sweep'[s].conn = sweep[s].conn
          /\ sweep'[s].quoted = quoted /\ sweep'[s].failed = (rfq = "FAILED")
      BY <1>1, <2>4 DEF SweepRow
    <3> QED
      BY <1>1, <2>1, <2>4, <3>1 DEF Shrinks, Knows, In, RunsAreAlone
  <2> QED
    BY <1>6, <2>2, <2>3, <2>4 DEF Decide
<1>7. CASE Extract(s)
  <2>1. /\ In(s, "extracting") /\ ~In(s, "idle") /\ sweep[s].left = {} /\ rfq # "NONE"
        /\ UNCHANGED <<rfq, quoted, mishap>>
    BY <1>1, <1>7 DEF Extract, quoteVars, In, OrderIsThere, RunsAreWeighed
  <2>2. CASE Weighs(s) /\ ~FailsWithoutQuote(sweep[s].quoted, sweep[s].failed)
    <3>1. rfq # "RECEIVED"
      BY <1>1, <2>2 DEF FailsWithoutQuote, OrderIsThere, RunsAreWeighed
    <3> QED
      BY <2>1, <2>2, <3>1, RunWeighs
  <2>3. ASSUME NEW pc \in {"writing", "failing"}, Step(s, pc), UNCHANGED weighed
        PROVE  Shrinks(s) /\ Knows(s)'
    <3>1. /\ Shrinks(s)
          /\ sweep'[s].pc = pc /\ sweep'[s].left = {} /\ sweep'[s].read = sweep[s].read
          /\ sweep'[s].quoted = sweep[s].quoted /\ sweep'[s].failed = sweep[s].failed
      BY <2>1, <2>3, RunSteps
    <3> QED
      BY <1>1, <2>1, <2>3, <3>1 DEF Knows, In, RunsAreWeighed
  <2> QED
    BY <1>7, <2>2, <2>3 DEF Extract
<1>8. CASE FailOrder(s)
  <2>1. Weighs(s) /\ In(s, "failing") /\ ~In(s, "idle") /\ sweep[s].left = {}
    BY <1>1, <1>8 DEF FailOrder, In, RunsAreWeighed
  <2>2. rfq' # "RECEIVED" \/ mishap'
    BY <1>8 DEF FailOrder
  <2> QED
    BY <2>1, <2>2, RunWeighs
<1>9. CASE WriteDraft(s)
  <2>1. In(s, "writing") /\ ~In(s, "idle") /\ sweep[s].left = {}
    BY <1>1, <1>9 DEF WriteDraft, In, RunsAreWeighed
  <2>2. Ends(s) \/ (Weighs(s) /\ rfq' = "GENERATED")
    BY <1>9 DEF WriteDraft, DraftQuote
  <2> QED
    BY <2>1, <2>2, RunWeighs, RunEnds
<1>10. CASE WriteVersion(s)
  <2>1. /\ In(s, "writing") /\ ~In(s, "idle") /\ sweep[s].left = {} /\ rfq' = rfq
        /\ sweep[s].quoted
    BY <1>1, <1>10 DEF WriteVersion, In, RunsAreWeighed
  <2>2. rfq # "RECEIVED"
    BY <1>1, <2>1 DEF OrderIsThere, RunsAreWeighed
  <2>3. Ends(s) \/ Weighs(s)
    BY <1>10 DEF WriteVersion
  <2> QED
    BY <2>1, <2>2, <2>3, RunWeighs, RunEnds
<1> QED
  BY <1>2, <1>3, <1>4, <1>5, <1>6, <1>7, <1>8, <1>9, <1>10 DEF Folds

(* What a step does to a run: nothing, its start, or a part of its work. *)
LEMMA RunsMove ==
  ASSUME IInv, [Next]_vars
  PROVE  \E s \in Sweeps \cup {Nobody} :
           /\ \A t \in Sweeps : t # s => sweep'[t] = sweep[t]
           /\ s \in Sweeps => Starts(s) \/ (Shrinks(s) /\ Knows(s)')
<1>1. CASE sweep' = sweep
  <2> WITNESS Nobody \in Sweeps \cup {Nobody}
  <2> QED
    BY <1>1, IntakeAssumption
<1>2. ASSUME NEW s \in Sweeps,
             \/ \E expired \in SUBSET Files : Expired(expired) /\ StartSweep(s, expired)
             \/ Folds(s) \/ SweepStops(s) \/ LoseConnection(s)
      PROVE  \E r \in Sweeps \cup {Nobody} :
               /\ \A t \in Sweeps : t # r => sweep'[t] = sweep[t]
               /\ r \in Sweeps => Starts(r) \/ (Shrinks(r) /\ Knows(r)')
  <2>1. \A t \in Sweeps : t # s => sweep'[t] = sweep[t]
    BY <1>2, OtherRunsStay, TypeParts DEF IInv, ActorsType
  <2>2. Starts(s) \/ (Shrinks(s) /\ Knows(s)')
    BY <1>2, RunStarts, RunGoesOn
  <2> WITNESS s \in Sweeps \cup {Nobody}
  <2> QED
    BY <2>1, <2>2
<1> QED
  BY <1>1, <1>2, SweepFrame

(* What the other runs know stays true. *)
LEMMA KnowsStays ==
  ASSUME IInv, [Next]_vars, NEW t \in Sweeps, sweep'[t] = sweep[t]
  PROVE  Knows(t)'
<1>1. Knows(t) /\ (~In(t, "idle") => rfq # "NONE")
  BY DEF IInv, RunsAreWeighed, Knows, OrderIsThere
<1>2. CASE In(t, "idle")
  <2>1. sweep[t] = Asleep
    BY <1>2 DEF IInv, RunsAreAlone
  <2> QED
    BY <2>1, AsleepIsARun DEF Knows, In
<1>3. CASE ~In(t, "idle")
  <2>1. (quoted => quoted') /\ (rfq # "RECEIVED" => rfq' # "RECEIVED")
    <3>1. quoted => quoted'
      BY QuoteStays, Zenon
    <3>2. rfq # "RECEIVED" => rfq' # "RECEIVED"
      BY <1>1, <1>3, SettledStays
    <3> QED
      BY <3>1, <3>2
  <2>2. weighed \subseteq weighed' /\ (mishap => mishap')
    <3>1. mishap => mishap'
      BY HistoryGrows, Zenon
    <3> QED
      BY <3>1, HistoryGrows
  <2> QED
    BY <1>1, <2>1, <2>2 DEF Knows, In
<1> QED
  BY <1>2, <1>3

LEMMA RunsWeighedStep ==
  ASSUME IInv, [Next]_vars
  PROVE  RunsAreWeighed'
<1>1. PICK s \in Sweeps \cup {Nobody} :
        /\ \A t \in Sweeps : t # s => sweep'[t] = sweep[t]
        /\ s \in Sweeps => Starts(s) \/ (Shrinks(s) /\ Knows(s)')
  BY RunsMove
<1>2. ASSUME NEW t \in Sweeps PROVE Knows(t)'
  <2>1. CASE t # s
    BY <1>1, <2>1, KnowsStays
  <2>2. CASE t = s /\ Starts(t)
    BY <2>2 DEF Starts, Knows, In
  <2> QED
    BY <1>1, <2>1, <2>2
<1> QED
  BY <1>2 DEF RunsAreWeighed, Knows

LEMMA RunsAloneStep ==
  ASSUME IInv, [Next]_vars
  PROVE  RunsAreAlone'
<1>1. PICK s \in Sweeps \cup {Nobody} :
        /\ \A t \in Sweeps : t # s => sweep'[t] = sweep[t]
        /\ s \in Sweeps => Starts(s) \/ (Shrinks(s) /\ Knows(s)')
  BY RunsMove
<1>2. RunsAreAlone /\ sweep \in [Sweeps -> SweepRow]
  BY TypeParts DEF IInv, ActorsType
<1>3. ASSUME NEW t \in Sweeps, sweep'[t].conn, ~(t = s /\ Starts(t))
      PROVE  /\ sweep[t].conn
             /\ \A f \in sweep'[t].left \cup sweep'[t].read :
                  file'[f].status = "PROCESSING" /\ file'[f].claim = t
  <2>1. /\ sweep[t].conn
        /\ sweep'[t].left \cup sweep'[t].read \subseteq sweep[t].left \cup sweep[t].read
    BY <1>1, <1>3 DEF Shrinks
  <2>2. ASSUME NEW f \in sweep'[t].left \cup sweep'[t].read
        PROVE  file'[f].status = "PROCESSING" /\ file'[f].claim = t
    <3>1. /\ file[f].status = "PROCESSING" /\ file[f].claim = t /\ f \in Files
      BY <1>2, <2>1, <2>2 DEF RunsAreAlone, SweepRow
    <3>2. ~Stored(f) /\ ~Returned(f) /\ ~Claimed(f)
      BY <2>1, <3>1 DEF Stored, Returned, Claimed
    <3>3. \A x \in Sweeps : ~Closed(f, x)
      BY <2>2, <3>1 DEF Closed
    <3>4. file'[f] = file[f]
      BY <3>1, <3>2, <3>3, FilesMove
    <3> QED
      BY <3>1, <3>4
  <2> QED
    BY <2>1, <2>2
<1>4. ASSUME NEW t \in Sweeps
      PROVE  /\ sweep'[t].pc = "idle" => sweep'[t] = Asleep
             /\ sweep'[t].left \cap sweep'[t].read = {}
  BY <1>1, <1>2 DEF Starts, Shrinks, RunsAreAlone, In
<1>5. ASSUME NEW t \in Sweeps, NEW x \in Sweeps, sweep'[t].conn, sweep'[x].conn PROVE t = x
  <2>1. CASE ~(t = s /\ Starts(t)) /\ ~(x = s /\ Starts(x))
    BY <1>2, <1>3, <1>5, <2>1 DEF RunsAreAlone
  <2>2. CASE s \in Sweeps /\ Starts(s)
    BY <1>1, <1>5, <2>2 DEF Starts
  <2> QED
    BY <2>1, <2>2
<1>6. ASSUME NEW t \in Sweeps, sweep'[t].conn
      PROVE  \A f \in sweep'[t].left \cup sweep'[t].read :
               file'[f].status = "PROCESSING" /\ file'[f].claim = t
  <2>1. CASE t = s /\ Starts(t)
    BY <2>1 DEF Starts
  <2> QED
    BY <1>3, <1>6, <2>1
<1> QED
  BY <1>4, <1>5, <1>6 DEF RunsAreAlone, In

-----------------------------------------------------------------------------
(* What a step does to the deliveries *)

LEMMA OrderThereStep ==
  ASSUME IInv, [Next]_vars
  PROVE  OrderIsThere'
<1>1. OrderIsThere
  BY DEF IInv
<1>2. rfq # "NONE" => rfq' # "NONE"
  BY OrderMoves
<1>3. ASSUME NEW f \in Files, file'[f].status # "NONE" PROVE rfq' # "NONE"
  <2>1. CASE file[f].status # "NONE"
    <3>1. FilesIn({"NONE"}) # Files
      BY <2>1 DEF FilesIn
    <3> QED
      BY <1>1, <1>2, <3>1 DEF OrderIsThere
  <2>2. CASE file[f].status = "NONE"
    <3>1. ~Returned(f) /\ ~Claimed(f) /\ \A s \in Sweeps : ~Closed(f, s)
      BY <2>2 DEF Returned, Claimed, Closed
    <3>2. Stored(f)
      BY <1>3, <2>2, <3>1, FilesMove
    <3> QED
      BY <3>2 DEF Stored
  <2> QED
    BY <2>1, <2>2
<1>4. ASSUME NEW t \in Sweeps, sweep'[t].pc # "idle" PROVE rfq' # "NONE"
  <2>1. PICK s \in Sweeps \cup {Nobody} :
          /\ \A x \in Sweeps : x # s => sweep'[x] = sweep[x]
          /\ s \in Sweeps => Starts(s) \/ (Shrinks(s) /\ Knows(s)')
    BY RunsMove
  <2>2. CASE sweep[t].pc # "idle"
    BY <1>1, <1>2, <2>2 DEF OrderIsThere, In
  <2>3. CASE t = s /\ Starts(t)
    <3>1. PICK f \in sweep'[t].left : file'[f].status = "PROCESSING" /\ f \in Files
      BY <2>3 DEF Starts, FilesIn
    <3> QED
      BY <1>3, <3>1
  <2> QED
    BY <1>4, <2>1, <2>2, <2>3 DEF Shrinks, In
<1>5. quoted' => rfq' \in {"GENERATED", "FAILED"}
  <2>1. CASE quoted' = quoted
    BY <1>1, <2>1, OrderMoves DEF OrderIsThere
  <2>2. CASE quoted' = TRUE /\ rfq' = "GENERATED"
    BY <2>2
  <2> QED
    BY <2>1, <2>2, QuoteStays
<1> QED
  BY <1>3, <1>4, <1>5 DEF OrderIsThere, FilesIn, In

(* The deliveries, and the files stored as read, are moved by deliveries alone. *)
LEMMA DeliveryFrame ==
  ASSUME [Next]_vars
  PROVE  UNCHANGED <<delivery, inline>> \/ \E d \in Deliveries : Delivers(d)
<1> USE DEF historyVars
<1>1. CASE UNCHANGED vars
  BY <1>1 DEF vars
<1>2. ASSUME NEW s \in Sweeps, Folds(s) PROVE UNCHANGED <<delivery, inline>>
  BY <1>2
     DEF Folds, ReadFile, CloseOut, Decide, Extract, ExtractFails, FailOrder, WriteDraft,
         WriteVersion, Finish
<1>3. ASSUME \/ \E f \in Files : Upload(f)
             \/ \E s \in Sweeps :
                  \/ \E expired \in SUBSET Files : StartSweep(s, expired)
                  \/ SweepStops(s) \/ LoseConnection(s)
             \/ QuoteMoves \/ SetArchived
      PROVE  UNCHANGED <<delivery, inline>>
  BY <1>3 DEF Upload, StartSweep, SweepStops, LoseConnection, QuoteMoves, SetArchived
<1> QED
  BY <1>1, <1>2, <1>3 DEF Next

(* The parts of IntakeFollows that are about one delivery, and about two. *)
Follows(d) ==
  /\ At(d, "reserving") => entry \in {"channel text", "public file", "email"}
  /\ At(d, "receiving") =>
       entry # "email" /\ (entry \in {"channel text", "public file"} => reserved = "order")
  /\ At(d, "deferring") => entry = "upload"
  /\ Interprets(d) => rfq # "NONE"
  /\ HoldsFile(d) => delivery[d].file \in inline /\ file[delivery[d].file].status = "DONE"
Apart(d, e) == HoldsFile(d) /\ HoldsFile(e) => delivery[e].file # delivery[d].file

LEMMA IntakeParts ==
  IntakeFollows <=>
    /\ \A d \in Deliveries : Follows(d)
    /\ \A d, e \in Deliveries : d # e => Apart(d, e)
    /\ entry \in {"typed", "upload"} => reserved = "nothing"
  BY DEF IntakeFollows, Follows, Apart

(* The file of a request that is not the one that moves stays as the intake stored it. *)
LEMMA HeldFileStays ==
  ASSUME IInv, [Next]_vars, NEW e \in Deliveries, HoldsFile(e),
         UNCHANGED <<delivery, inline>>
         \/ \E d \in Deliveries \ {e} : Delivers(d)
  PROVE  delivery[e].file \in inline' /\ file'[delivery[e].file].status = "DONE"
<1> DEFINE f == delivery[e].file
<1>1. IntakeFollows /\ inline \subseteq Files
  BY DEF IInv, TypeOK
<1>2. f \in inline /\ f \in Files /\ file[f].status = "DONE"
  BY <1>1 DEF IntakeFollows
<1>3. f \in inline'
  <2>1. CASE UNCHANGED <<delivery, inline>>
    BY <1>2, <2>1
  <2>2. ASSUME NEW d \in Deliveries \ {e}, Delivers(d) PROVE f \in inline'
    <3>1. CASE Defer(d)
      <4>1. HoldsFile(d)
        BY <1>1, <3>1 DEF IntakeFollows, HoldsFile, Defer, At
      <4>2. delivery[d].file # f
        BY <1>1, <4>1 DEF IntakeFollows
      <4>3. inline' = inline \/ inline' = inline \ {delivery[d].file}
        BY <3>1 DEF Defer
      <4> QED
        BY <1>2, <4>2, <4>3
    <3>2. CASE ~Defer(d)
      BY <1>2, <2>2, <3>2
         DEF Delivers, Deliver, SellerAsks, Reserve, FindEmail, StoreEmail, Receive, StoreForRFQ,
             StorePendingForRFQ, Interpret, MarkFailed, Persist, Stops, LoseLock, historyVars
    <3> QED
      BY <3>1, <3>2
  <2> QED
    BY <2>1, <2>2
<1>4. file'[f] = file[f]
  <2>1. ~Stored(f) /\ ~Returned(f) /\ ~Claimed(f) /\ \A s \in Sweeps : ~Closed(f, s)
    BY <1>2, <1>3 DEF Stored, Returned, Claimed, Closed
  <2> QED
    BY <1>2, <2>1, FilesMove
<1> QED
  BY <1>2, <1>3, <1>4

(* What a delivery knows stays true while others move. *)
LEMMA FollowsStays ==
  ASSUME IInv, [Next]_vars, NEW e \in Deliveries, delivery'[e] = delivery[e],
         UNCHANGED <<delivery, inline>>
         \/ \E d \in Deliveries \ {e} : Delivers(d)
  PROVE  Follows(e)'
<1>1. entry' = entry /\ (rfq # "NONE" => rfq' # "NONE") /\ (reserved = "order" => reserved' = "order")
  BY OrderFrame, OrderMoves
<1>2. Follows(e)
  BY IntakeParts DEF IInv
<1>3. HoldsFile(e) => delivery[e].file \in inline' /\ file'[delivery[e].file].status = "DONE"
  BY HeldFileStays
<1> QED
  BY <1>1, <1>2, <1>3 DEF Follows, Interprets, HoldsFile, At

(* A delivery that moves knows what its next step rests on, and holds no file of another. *)
LEMMA DeliveryFollows ==
  ASSUME IInv, [Next]_vars, NEW d \in Deliveries, Delivers(d)
  PROVE  /\ Follows(d)'
         /\ \A e \in Deliveries : e # d => delivery'[e] = delivery[e]
         /\ HoldsFile(d)' =>
              \A e \in Deliveries : e # d /\ HoldsFile(e) => delivery[e].file # delivery'[d].file
<1> DEFINE Goal ==
      /\ Follows(d)'
      /\ \A e \in Deliveries : e # d => delivery'[e] = delivery[e]
      /\ HoldsFile(d)' =>
           \A e \in Deliveries : e # d /\ HoldsFile(e) => delivery[e].file # delivery'[d].file
<1>1. /\ IntakeFollows /\ OrderIsThere /\ entry \in EntryKinds
      /\ delivery \in [Deliveries -> DeliveryRow] /\ file \in [Files -> FileRow]
  BY TypeParts, IntakeAssumption DEF IInv, ActorsType, OrderType
<1>2. entry' = entry /\ (rfq # "NONE" => rfq' # "NONE") /\ (reserved = "order" => reserved' = "order")
  BY OrderFrame, OrderMoves
<1>3. ASSUME Leaves(d) PROVE Goal
  BY <1>1, <1>3, LeavesRow DEF Follows, Interprets, HoldsFile, At
<1>4. ASSUME NEW pc, Goes(d, pc),
             pc = "receiving" =>
               entry # "email" /\ (entry \in {"channel text", "public file"} => reserved' = "order"),
             pc \in {"failing", "persisting"} => rfq # "NONE",
             pc = "storing" => entry = "email" \/ rfq' # "NONE",
             pc = "interpreting" => entry # "upload" /\ rfq' # "NONE",
             pc \notin {"reserving", "deferring"}
      PROVE  Goal
  <2>1. /\ delivery'[d].pc = pc /\ delivery'[d].file = delivery[d].file
        /\ \A e \in Deliveries : e # d => delivery'[e] = delivery[e]
    BY <1>1, <1>4, GoesRow
  <2> QED
    BY <1>2, <1>4, <2>1 DEF Follows, Interprets, HoldsFile, At
<1>5. CASE Deliver(d)
  <2>1. /\ delivery'[d].pc = "reserving" /\ entry \in {"channel text", "public file", "email"}
        /\ \A e \in Deliveries : e # d => delivery'[e] = delivery[e]
    BY <1>1, <1>5 DEF Deliver, DeliveryRow
  <2> QED
    BY <1>2, <2>1 DEF Follows, Interprets, HoldsFile, At
<1>6. CASE SellerAsks(d)
  BY <1>4, <1>6 DEF SellerAsks
<1>7. CASE Reserve(d)
  BY <1>3, <1>4, <1>7 DEF Reserve
<1>8. CASE FindEmail(d)
  BY <1>3, <1>4, <1>8 DEF FindEmail
<1>9. CASE StoreEmail(d) \/ StorePendingForRFQ(d) \/ MarkFailed(d) \/ Persist(d) \/ Stops(d)
  BY <1>3, <1>9 DEF StoreEmail, StorePendingForRFQ, MarkFailed, Persist, Stops
<1>10. CASE Receive(d)
  <2>1. rfq' # "NONE"
    BY <1>10 DEF Receive
  <2> QED
    BY <1>3, <1>4, <1>10, <2>1 DEF Receive
<1>11. CASE StoreForRFQ(d)
  <2>1. PICK f \in Files :
          /\ file[f].status = "NONE" /\ FilesBecome({f}, "DONE") /\ inline' = inline \cup {f}
          /\ delivery' = [delivery EXCEPT ![d] = [pc |-> "interpreting", file |-> f]]
    BY <1>11 DEF StoreForRFQ, FilesIn
  <2>2. /\ delivery'[d].pc = "interpreting" /\ delivery'[d].file = f
        /\ \A e \in Deliveries : e # d => delivery'[e] = delivery[e]
    BY <1>1, <2>1 DEF DeliveryRow
  <2>3. rfq # "NONE"
    BY <1>1, <1>11 DEF StoreForRFQ, IntakeFollows, Interprets
  <2>4. file'[f].status = "DONE"
    BY <2>1, FilesRow
  <2>5. \A e \in Deliveries : HoldsFile(e) => delivery[e].file # f
    BY <1>1, <2>1 DEF IntakeFollows
  <2>6. delivery'[d].file \in inline' /\ file'[delivery'[d].file].status = "DONE"
    BY <2>1, <2>2, <2>4
  <2>7. rfq' # "NONE"
    BY <1>2, <2>3
  <2>8. Follows(d)'
    BY <2>2, <2>6, <2>7 DEF Follows, Interprets, HoldsFile, At
  <2> QED
    BY <2>2, <2>5, <2>8
<1>12. CASE Interpret(d)
  <2>1. At(d, "interpreting") /\ rfq # "NONE" /\ UNCHANGED <<file, inline>>
    BY <1>1, <1>12 DEF Interpret, IntakeFollows, Interprets, At, historyVars
  <2>2. CASE Goes(d, "persisting") \/ Goes(d, "failing")
    BY <1>4, <2>1, <2>2
  <2>3. CASE entry = "upload" /\ Goes(d, "deferring")
    <3>1. HoldsFile(d)
      BY <2>1, <2>3 DEF HoldsFile, At
    <3>2. /\ delivery'[d].pc = "deferring" /\ delivery'[d].file = delivery[d].file
          /\ \A e \in Deliveries : e # d => delivery'[e] = delivery[e]
      BY <1>1, <2>3, GoesRow
    <3>3. /\ delivery[d].file \in inline /\ file[delivery[d].file].status = "DONE"
          /\ \A e \in Deliveries \ {d} : HoldsFile(e) => delivery[e].file # delivery[d].file
      BY <1>1, <3>1 DEF IntakeFollows
    <3> QED
      BY <1>2, <2>1, <2>3, <3>2, <3>3 DEF Follows, Interprets, HoldsFile, At
  <2> QED
    BY <1>12, <2>2, <2>3 DEF Interpret
<1>13. CASE Defer(d)
  <2>1. rfq # "NONE"
    BY <1>1, <1>13 DEF Defer, IntakeFollows, Interprets, At
  <2> QED
    BY <1>3, <1>4, <1>13, <2>1 DEF Defer
<1>14. CASE LoseLock(d)
  <2>1. UNCHANGED <<entry, rfq, reserved, file, delivery, inline>>
    BY <1>14 DEF LoseLock, messageVars, historyVars
  <2>2. Follows(d) /\ \A e \in Deliveries : e # d => Apart(d, e)
    BY <1>1, IntakeParts
  <2> QED
    BY <2>1, <2>2 DEF Follows, Apart, Interprets, HoldsFile, At
<1> QED
  BY <1>5, <1>6, <1>7, <1>8, <1>9, <1>10, <1>11, <1>12, <1>13, <1>14 DEF Delivers

LEMMA IntakeStep ==
  ASSUME IInv, [Next]_vars
  PROVE  IntakeFollows'
<1>1. IntakeFollows /\ entry' = entry
  BY OrderFrame DEF IInv
<1>2. entry \in {"typed", "upload"} => reserved' = "nothing"
  <2> SUFFICES ASSUME entry \in {"typed", "upload"} PROVE reserved' = "nothing"
    OBVIOUS
  <2>1. reserved = "nothing"
    BY <1>1 DEF IntakeFollows
  <2>2. \A d \in Deliveries :
          ~Reserve(d) /\ ~StoreEmail(d) /\ (Receive(d) \/ MarkFailed(d) \/ Persist(d) => reserved' = reserved)
    BY DEF Reserve, StoreEmail, Receive, MarkFailed, Persist, messageVars
  <2>3. \A s \in Sweeps : FailOrder(s) \/ WriteDraft(s) => reserved' = reserved
    BY DEF FailOrder, WriteDraft, messageVars
  <2> QED
    BY <2>1, <2>2, <2>3, OrderFrame
<1>3. CASE UNCHANGED <<delivery, inline>>
  <2>1. \A d \in Deliveries : Follows(d)'
    BY <1>3, FollowsStays
  <2>2. \A d, e \in Deliveries : d # e => Apart(d, e)'
    <3>1. \A d, e \in Deliveries : d # e => Apart(d, e)
      BY <1>1, IntakeParts
    <3> QED
      BY <1>1, <1>3, <3>1 DEF Apart, HoldsFile
  <2> QED
    BY <1>1, <1>2, <2>1, <2>2 DEF IntakeFollows, Follows, Apart
<1>4. ASSUME NEW d \in Deliveries, Delivers(d) PROVE IntakeFollows'
  <2>1. /\ Follows(d)'
        /\ \A e \in Deliveries : e # d => delivery'[e] = delivery[e]
        /\ HoldsFile(d)' =>
             \A e \in Deliveries : e # d /\ HoldsFile(e) => delivery[e].file # delivery'[d].file
    BY <1>4, DeliveryFollows
  <2>2. ASSUME NEW e \in Deliveries, e # d PROVE Follows(e)'
    BY <1>4, <2>1, <2>2, FollowsStays
  <2>3. ASSUME NEW x \in Deliveries, NEW e \in Deliveries, x # e PROVE Apart(x, e)'
    <3>1. \A y, z \in Deliveries : y # z => Apart(y, z)
      BY <1>1, IntakeParts
    <3> QED
      BY <1>1, <2>1, <2>3, <3>1 DEF Apart, HoldsFile
  <2> QED
    BY <1>1, <1>2, <2>1, <2>2, <2>3 DEF IntakeFollows, Follows, Apart
<1> QED
  BY <1>3, <1>4, DeliveryFrame

-----------------------------------------------------------------------------
(* An order in progress is settled by somebody *)

(* Past its intake, a request ends with the order settled, or leaves it a file that waits. *)
LEMMA InterpretsOn ==
  ASSUME IInv, [Next]_vars, NEW d \in Deliveries, Interprets(d), rfq = "RECEIVED",
         rfq' = "RECEIVED", ~mishap'
  PROVE  Interprets(d)' \/ \E f \in Files : file'[f].status = "PENDING"
<1>1. /\ IntakeFollows /\ OrderIsThere /\ delivery \in [Deliveries -> DeliveryRow]
      /\ inline \subseteq Files /\ entry' = entry
  BY OrderFrame, TypeParts DEF IInv, ActorsType, HistoryType
<1>2. CASE delivery'[d] = delivery[d]
  BY <1>1, <1>2 DEF Interprets, At
<1>3. CASE Delivers(d)
  <2>1. ~Deliver(d) /\ ~SellerAsks(d) /\ ~Reserve(d) /\ ~FindEmail(d) /\ ~StoreEmail(d) /\ ~Receive(d)
    BY DEF Interprets, Deliver, SellerAsks, Reserve, FindEmail, StoreEmail, Receive, At
  <2>2. ~quoted
    BY <1>1 DEF OrderIsThere
  <2>3. ~MarkFailed(d) /\ ~Persist(d) /\ ~Stops(d)
    BY <2>2 DEF MarkFailed, Persist, DraftQuote, Stops
  <2>4. CASE StoreForRFQ(d)
    <3>1. delivery'[d].pc = "interpreting"
      BY <1>1, <2>4 DEF StoreForRFQ
    <3> QED
      BY <3>1 DEF Interprets
  <2>5. CASE StorePendingForRFQ(d)
    <3>1. PICK f \in Files : FilesBecome({f}, "PENDING")
      BY <2>5 DEF StorePendingForRFQ, FilesIn
    <3> QED
      BY <3>1, FilesRow
  <2>6. CASE Interpret(d)
    <3>1. delivery'[d].pc \in {"persisting", "failing", "deferring"}
      BY <1>1, <2>6, GoesRow DEF Interpret
    <3> QED
      BY <3>1 DEF Interprets
  <2>7. CASE Defer(d)
    <3>1. delivery[d].file \in Files
      BY <1>1, <2>7 DEF Defer, IntakeFollows, HoldsFile, At
    <3>2. CASE FilesBecome({delivery[d].file}, "PENDING")
      BY <3>1, <3>2, FilesRow
    <3>3. CASE Goes(d, "failing")
      BY <1>1, <3>3, GoesRow DEF Interprets
    <3> QED
      BY <2>7, <3>2, <3>3 DEF Defer
  <2>8. CASE LoseLock(d)
    BY <2>8 DEF LoseLock, Interprets, At
  <2> QED
    BY <1>3, <2>1, <2>3, <2>4, <2>5, <2>6, <2>7, <2>8 DEF Delivers
<1> QED
  BY <1>2, <1>3, DeliveryFrame, DeliveryFollows

(* A run bound to settle the order goes on until it is settled. *)
LEMMA SettlesOn ==
  ASSUME IInv, [Next]_vars, NEW s \in Sweeps, SettlesIt(s), rfq = "RECEIVED",
         rfq' = "RECEIVED", ~mishap'
  PROVE  SettlesIt(s)'
<1>1. /\ OrderIsThere /\ RunsAreWeighed /\ sweep \in [Sweeps -> SweepRow] /\ ~quoted
  BY TypeParts DEF IInv, ActorsType, OrderIsThere
<1>2. ~sweep[s].quoted
  BY <1>1 DEF RunsAreWeighed
<1>3. CASE sweep'[s] = sweep[s]
  BY <1>3 DEF SettlesIt, In
<1>4. CASE \E expired \in SUBSET Files : StartSweep(s, expired)
  BY <1>4 DEF StartSweep, SettlesIt, In
<1>5. CASE SweepStops(s)
  BY <1>5 DEF SweepStops
<1>6. CASE LoseConnection(s)
  <2>1. /\ sweep'[s].pc = sweep[s].pc /\ sweep'[s].left = sweep[s].left
        /\ sweep'[s].read = sweep[s].read
    BY <1>1, <1>6 DEF LoseConnection, SweepRow
  <2> QED
    BY <2>1 DEF SettlesIt, In
<1>7. CASE Folds(s)
  <2>1. \A f \in Files : ~ReadFile(s, f) /\ ~CloseOut(s, f)
    BY DEF ReadFile, CloseOut, SettlesIt, In
  <2>2. ~Extract(s) /\ ~ExtractFails(s) /\ ~Finish(s)
    BY DEF Extract, ExtractFails, Finish, SettlesIt, In
  <2>3. ~FailOrder(s) /\ ~WriteDraft(s) /\ ~WriteVersion(s)
    BY <1>1, <1>2 DEF FailOrder, WriteDraft, DraftQuote, WriteVersion
  <2>4. CASE Decide(s)
    <3>1. sweep[s].read = {}
      BY <2>4 DEF Decide, SettlesIt, In
    <3>2. Step(s, "failing")
      BY <1>1, <2>4, <3>1 DEF Decide, FailsWithoutQuote
    <3> QED
      BY <1>1, <3>2, StepRow DEF SettlesIt
  <2> QED
    BY <1>7, <2>1, <2>2, <2>3, <2>4 DEF Folds
<1> QED
  BY <1>1, <1>3, <1>4, <1>5, <1>6, <1>7, SweepFrame, OtherRunsStay

(* A file that waits or is claimed keeps the order in progress until the run that *)
(* closes it has no other file, and is bound to settle it.                        *)
LEMMA WaitsOn ==
  ASSUME IInv, [Next]_vars, NEW f \in Files, file[f].status \in {"PENDING", "PROCESSING"},
         rfq = "RECEIVED", ~mishap
  PROVE  \/ \E g \in Files : file'[g].status \in {"PENDING", "PROCESSING"}
         \/ \E s \in Sweeps : SettlesIt(s)'
<1>1. CASE file'[f] = file[f]
  BY <1>1
<1>2. ~Stored(f) /\ ~Returned(f) /\ (Claimed(f) => file'[f].status = "PROCESSING")
  BY DEF Stored, Returned, Claimed
<1>3. ASSUME NEW s \in Sweeps, Closed(f, s)
      PROVE  \/ \E g \in Files : file'[g].status \in {"PENDING", "PROCESSING"}
             \/ \E x \in Sweeps : SettlesIt(x)'
  <2>1. sweep'[s].pc = "reading" /\ sweep'[s].conn
    BY <1>3 DEF Closed, In, IInv, RunsAreWeighed
  <2>2. CASE sweep'[s].left \cup sweep'[s].read = {}
    BY <2>1, <2>2 DEF SettlesIt, In
  <2>3. CASE sweep'[s].left \cup sweep'[s].read # {}
    <3>1. PICK g \in sweep'[s].left \cup sweep'[s].read : TRUE
      BY <2>3
    <3>2. file'[g].status = "PROCESSING"
      BY <2>1, <3>1, RunsAloneStep DEF RunsAreAlone
    <3>3. g \in Files
      <4>1. TypeOK'
        BY TypeStep DEF IInv
      <4>2. sweep' \in [Sweeps -> SweepRow]
        BY <4>1 DEF TypeOK, SweepRow
      <4> QED
        BY <3>1, <4>2 DEF SweepRow
    <3> QED
      BY <3>2, <3>3
  <2> QED
    BY <2>2, <2>3
<1> QED
  BY <1>1, <1>2, <1>3, FilesMove

(* An order that is received is worked from that step on. *)
LEMMA ReceivedStarts ==
  ASSUME IInv, [Next]_vars, rfq # "RECEIVED", rfq' = "RECEIVED"
  PROVE  \/ \E d \in Deliveries : Interprets(d)'
         \/ \E f \in Files : file'[f].status = "PENDING"
<1>1. /\ OrderIsThere /\ delivery \in [Deliveries -> DeliveryRow] /\ rfq = "NONE"
      /\ entry' = entry /\ entry \in EntryKinds
  BY OrderMoves, OrderFrame, TypeParts, IntakeAssumption DEF IInv, ActorsType, OrderType
<1>2. ASSUME NEW d \in Deliveries, StoreEmail(d) PROVE \E f \in Files : file'[f].status = "PENDING"
  <2>1. PICK fs \in SUBSET Files : FilesBecome(fs, "PENDING") /\ fs # {}
    BY <1>1, <1>2 DEF StoreEmail
  <2> QED
    BY <2>1, FilesRow
<1>3. ASSUME NEW d \in Deliveries, Receive(d) PROVE Interprets(d)'
  <2>1. FilesIn({"NONE"}) = Files
    BY <1>1 DEF OrderIsThere
  <2>2. Goes(d, "interpreting") \/ (Goes(d, "storing") /\ entry # "email")
    BY <1>1, <1>3, <2>1 DEF Receive
  <2>3. delivery'[d].pc = "interpreting" \/ (delivery'[d].pc = "storing" /\ entry # "email")
    BY <1>1, <2>2, GoesRow
  <2> QED
    BY <1>1, <2>3 DEF Interprets, At
<1>4. \A d \in Deliveries : ~Reserve(d) /\ ~MarkFailed(d) /\ ~Persist(d)
  BY <1>1 DEF Reserve, MarkFailed, Persist, DraftQuote, quoteVars
<1>5. \A s \in Sweeps : ~FailOrder(s) /\ ~WriteDraft(s)
  BY <1>1 DEF FailOrder, WriteDraft, DraftQuote
<1> QED
  BY <1>1, <1>2, <1>3, <1>4, <1>5, OrderFrame

LEMMA SettledStep ==
  ASSUME IInv, [Next]_vars
  PROVE  ReceivedIsSettled'
<1> DEFINE Worked ==
      \/ \E d \in Deliveries : Interprets(d)'
      \/ \E s \in Sweeps : SettlesIt(s)'
      \/ \E f \in Files : file'[f].status \in {"PENDING", "PROCESSING"}
<1>1. SUFFICES ASSUME rfq' = "RECEIVED", ~mishap' PROVE Worked
  BY DEF ReceivedIsSettled, FilesIn
<1>2. CASE rfq # "RECEIVED"
  BY <1>1, <1>2, ReceivedStarts
<1>3. CASE rfq = "RECEIVED"
  <2>1. mishap => mishap'
    BY HistoryGrows, Zenon
  <2>2. ~mishap
    BY <1>1, <2>1
  <2>3. \/ \E d \in Deliveries : Interprets(d)
        \/ \E s \in Sweeps : SettlesIt(s)
        \/ \E f \in Files : file[f].status \in {"PENDING", "PROCESSING"}
    BY <1>3, <2>2 DEF IInv, ReceivedIsSettled, FilesIn
  <2>4. CASE \E d \in Deliveries : Interprets(d)
    BY <1>1, <1>3, <2>4, InterpretsOn
  <2>5. CASE \E s \in Sweeps : SettlesIt(s)
    BY <1>1, <1>3, <2>5, SettlesOn
  <2>6. CASE \E f \in Files : file[f].status \in {"PENDING", "PROCESSING"}
    BY <1>3, <2>2, <2>6, WaitsOn
  <2> QED
    BY <2>3, <2>4, <2>5, <2>6
<1> QED
  BY <1>2, <1>3

-----------------------------------------------------------------------------
(* The theorems *)

LEMMA InvariantInit == Init => IInv
<1> SUFFICES ASSUME Init PROVE IInv
  OBVIOUS
<1>1. /\ entry \in Entries /\ rfq = "NONE" /\ reserved = "nothing" /\ orders = 0 /\ joins = 0
      /\ quoted = FALSE /\ inline = {} /\ weighed = {}
      /\ \A f \in Files : file[f].status = "NONE"
      /\ \A d \in Deliveries : delivery[d].pc = "idle"
      /\ \A s \in Sweeps : sweep[s] = Asleep
  BY DEF Init, Waiting
<1>2. TypeOK
  BY TypeInit
<1>3. OneOutcome /\ DoneWasWeighed
  BY <1>1 DEF OneOutcome, DoneWasWeighed, FilesIn
<1>4. IntakeFollows
  BY <1>1 DEF IntakeFollows, Interprets, HoldsFile, At
<1>5. OrderIsThere /\ RunsAreAlone /\ RunsAreWeighed
  BY <1>1, AsleepIsARun DEF OrderIsThere, RunsAreAlone, RunsAreWeighed, FilesIn, In
<1>6. ReceivedIsSettled
  BY <1>1 DEF ReceivedIsSettled
<1> QED
  BY <1>2, <1>3, <1>4, <1>5, <1>6 DEF IInv

LEMMA InvariantStep == IInv /\ [Next]_vars => IInv'
<1> SUFFICES ASSUME IInv, [Next]_vars PROVE IInv'
  OBVIOUS
<1>1. TypeOK'
  BY TypeStep DEF IInv
<1>2. OneOutcome' /\ DoneWasWeighed'
  BY OneOutcomeStep, DoneStep
<1>3. IntakeFollows' /\ OrderIsThere'
  BY IntakeStep, OrderThereStep
<1>4. RunsAreAlone' /\ RunsAreWeighed'
  BY RunsAloneStep, RunsWeighedStep
<1>5. ReceivedIsSettled'
  BY SettledStep
<1> QED
  BY <1>1, <1>2, <1>3, <1>4, <1>5 DEF IInv

(* The order, its message, its files and what each delivery and run knows of them stay *)
(* consistent, however deliveries, requests, runs of the sweep and the seller's edits  *)
(* interleave, stop, or lose their locks.                                              *)
THEOREM Invariant == Spec => []IInv
<1> QED
  BY InvariantInit, InvariantStep, PTL DEF Spec

(* Every order, quote, file, delivery and run has its type in every reachable state. *)
THEOREM TypeCorrect == Spec => []TypeOK
<1>1. IInv => TypeOK
  BY DEF IInv
<1> QED
  BY <1>1, Invariant, PTL

(* Reserve, storeOne and persistReceivedRFQ make one thing of a message, however often it *)
(* is delivered, and although the lock that serialises its deliveries may be lost.        *)
THEOREM MessagesHaveOneOutcome == Spec => []OneOutcome
<1>1. IInv => OneOutcome
  BY DEF IInv
<1> QED
  BY <1>1, Invariant, PTL

(* While nothing died and no write was refused, an order that reads as in progress has a *)
(* request that interprets it, a run that folds its files, or a file that waits for one. *)
THEOREM OrdersAreWorked == Spec => []ReceivedIsWorked
<1>1. IInv => ReceivedIsWorked
  <2>1. \A d \in Deliveries : Interprets(d) => ~At(d, "idle")
    BY DEF Interprets, At
  <2>2. \A s \in Sweeps : SettlesIt(s) => ~In(s, "idle")
    BY DEF SettlesIt, In
  <2> QED
    BY <2>1, <2>2 DEF IInv, ReceivedIsSettled, ReceivedIsWorked
<1> QED
  BY <1>1, Invariant, PTL

(* A file is closed as read only after an interpretation that took it in has ended: *)
(* ExtractFails, SweepStops and a lost connection close none.                       *)
THEOREM ReadFilesWereWeighed == Spec => []DoneWasWeighed
<1>1. IInv => DoneWasWeighed
  BY DEF IInv
<1> QED
  BY <1>1, Invariant, PTL

(* closeOut asks for no claim and still closes only files its run claims, because it runs *)
(* on the connection that holds the job's lock; a closed file comes back to the queue     *)
(* only by the request that stored it.                                                    *)
THEOREM RunsCloseTheirOwn == Spec => SweepClosesItsOwn
<1> DEFINE ClosesItsOwn ==
      \A f \in Files :
        /\ file'[f].status \in {"DONE", "FAILED"} /\ file'[f] # file[f] =>
             \/ file[f].status = "NONE"
             \/ \E s \in Sweeps : file[f].claim = s /\ sweep'[s] # sweep[s]
        /\ file[f].status \in {"DONE", "FAILED"} /\ file'[f] # file[f] =>
             f \in inline /\ f \notin inline'
<1>1. IInv /\ [Next]_vars => [ClosesItsOwn]_vars
  <2> SUFFICES ASSUME IInv, [Next]_vars, NEW f \in Files, file'[f] # file[f]
               PROVE  /\ file'[f].status \in {"DONE", "FAILED"} =>
                           \/ file[f].status = "NONE"
                           \/ \E s \in Sweeps : file[f].claim = s /\ sweep'[s] # sweep[s]
                      /\ file[f].status \in {"DONE", "FAILED"} =>
                           f \in inline /\ f \notin inline'
    OBVIOUS
  <2> QED
    BY FilesMove DEF Stored, Returned, Claimed, Closed
<1> QED
  BY <1>1, Invariant, PTL DEF Spec, SweepClosesItsOwn

=============================================================================
