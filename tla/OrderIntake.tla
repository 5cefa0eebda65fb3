----------------------------- MODULE OrderIntake -----------------------------
(***************************************************************************)
(* One order on its way to a quote: the message, request or upload it      *)
(* arrives as, the request that interprets it inline, the files it carries *)
(* and the scheduled sweep that reads them.                                *)
(*                                                                         *)
(* A step is one database transaction or one call of a provider, made      *)
(* outside any.  A delivery holds an advisory lock on a connection of its  *)
(* own, which may be lost while the delivery goes on; a run of the sweep   *)
(* holds the job's lock on the very connection it claims and closes files  *)
(* with.  Once it exists, the quote moves as QuoteLifecycle allows; its    *)
(* payment mark and vouchers are left out.                                 *)
(***************************************************************************)
EXTENDS Integers

CONSTANTS
  Entries,      \* how the order arrives, of EntryKinds
  Deliveries,   \* deliveries of its message, or requests of its seller
  Sweeps,       \* runs of the attachment sweep
  Files,
  MaxVersion,   \* bound: versions the quote reaches
  Nobody

EntryKinds == {"typed", "upload", "channel text", "public file", "email"}

ASSUME IntakeAssumption ==
  /\ Entries \subseteq EntryKinds /\ Entries # {}
  /\ Nobody \notin Deliveries \cup Sweeps /\ MaxVersion \in Nat \ {0}

VARIABLES
  entry,
  (* the row of rfq and of inbound_channel_message *)
  rfq,
  reserved,     \* what the message became: nothing yet, an order, a reply
  (* the quote, and whether there is one *)
  quoted, status, version, draft, standing, archived,
  file,         \* rows of rfq_attachment
  lock,         \* the advisory lock of the message
  delivery, sweep,
  (* history *)
  orders, joins,   \* rfq rows and conversation messages made of the message
  inline,          \* files the intake stored as read
  weighed,         \* files a run of the sweep has done with
  mishap           \* a process died, or a provider or the database refused a write

quoteVars == <<quoted, status, version, draft, standing, archived>>
messageVars == <<reserved, orders, joins>>
historyVars == <<inline, weighed>>
vars == <<entry, rfq, messageVars, quoteVars, file, lock, delivery, sweep, historyVars, mishap>>

Waiting == [pc |-> "idle", file |-> Nobody]
Asleep == [pc |-> "idle", conn |-> FALSE, left |-> {}, read |-> {}, quoted |-> FALSE, failed |-> FALSE]

TypeOK ==
  /\ entry \in Entries
  /\ rfq \in {"NONE", "RECEIVED", "GENERATED", "FAILED"}
  /\ reserved \in {"nothing", "order", "joined", "named"}
  /\ quoted \in BOOLEAN /\ draft \in BOOLEAN /\ standing \in BOOLEAN /\ archived \in BOOLEAN
  /\ status \in {"DRAFT", "QUOTED", "SENT", "CHANGE_REQUESTED", "ACCEPTED", "REJECTED"}
  /\ version \in 1..MaxVersion
  /\ file \in [Files -> [status : {"NONE", "PENDING", "PROCESSING", "DONE", "FAILED"},
                         claim : Sweeps \cup {Nobody}]]
  /\ lock \in Deliveries \cup {Nobody}
  /\ delivery \in [Deliveries ->
       [pc : {"idle", "reserving", "receiving", "storing", "interpreting", "deferring",
              "failing", "persisting"},
        file : Files \cup {Nobody}]]
  /\ sweep \in [Sweeps ->
       [pc : {"idle", "reading", "extracting", "failing", "writing", "closing"},
        conn : BOOLEAN,               \* its connection, and the job's lock with it
        left : SUBSET Files, read : SUBSET Files,
        quoted : BOOLEAN, failed : BOOLEAN]]   \* what rfqWithQuote saw
  /\ orders \in Nat /\ joins \in Nat
  /\ inline \subseteq Files /\ weighed \subseteq Files /\ mishap \in BOOLEAN

Lifecycle == INSTANCE QuoteLifecycle

Init ==
  /\ entry \in Entries
  /\ rfq = "NONE" /\ reserved = "nothing"
  /\ Lifecycle!Init /\ quoted = FALSE /\ archived = FALSE
  /\ file = [f \in Files |-> [status |-> "NONE", claim |-> Nobody]]
  /\ lock = Nobody
  /\ delivery = [d \in Deliveries |-> Waiting] /\ sweep = [s \in Sweeps |-> Asleep]
  /\ orders = 0 /\ joins = 0 /\ inline = {} /\ weighed = {} /\ mishap = FALSE

FilesIn(states) == {f \in Files : file[f].status \in states}

(* Files take a state, claimed by nobody any more. *)
FilesBecome(fs, state) ==
  file' = [f \in Files |-> IF f \in fs THEN [status |-> state, claim |-> Nobody] ELSE file[f]]

(* persistGeneratedDraft: the order's one quote, with version 1, and GENERATED. *)
DraftQuote == quoted' = TRUE /\ rfq' = "GENERATED" /\ UNCHANGED <<status, version, draft, standing, archived>>

-----------------------------------------------------------------------------
(* A delivery of the message, or a request of the seller *)

At(d, pc) == delivery[d].pc = pc
Goes(d, pc) == delivery' = [delivery EXCEPT ![d].pc = pc] /\ UNCHANGED lock
(* The handler returns, and lets go of its lock. *)
Leaves(d) ==
  /\ delivery' = [delivery EXCEPT ![d] = Waiting]
  /\ lock' = IF lock = d THEN Nobody ELSE lock

(* A provider delivers as often as it likes, a customer's browser retries. *)
Deliver(d) ==
  /\ At(d, "idle") /\ entry \in {"channel text", "public file", "email"} /\ lock = Nobody
  /\ lock' = d /\ delivery' = [delivery EXCEPT ![d].pc = "reserving"]
  /\ UNCHANGED <<entry, rfq, messageVars, quoteVars, file, sweep, historyVars, mishap>>

(* CreateTextDraft and CreateFileDraft. *)
SellerAsks(d) ==
  /\ entry \in {"typed", "upload"} /\ rfq = "NONE" /\ \A e \in Deliveries : At(e, "idle")
  /\ Goes(d, "receiving")
  /\ UNCHANGED <<entry, rfq, messageVars, quoteVars, file, sweep, historyVars, mishap>>

(* Mutant of JoinsKept: the attempt of a retry is not rolled back. *)
JoinsOfEveryAttempt(outcome) == IF outcome = "joined" THEN joins + 1 ELSE joins

(* A message joins a conversation once: a retry rolls its own attempt back. *)
JoinsKept(outcome) == IF outcome = "joined" /\ reserved = "nothing" THEN joins + 1 ELSE joins

(* What a first attempt would make of the message, as things stand now. *)
Readings == IF entry = "channel text" THEN {"order", "joined", "named"} ELSE {"order"}

(* Reserve: the message keeps what its first delivery made of it. *)
Reserve(d) ==
  /\ At(d, "reserving") /\ entry \in {"channel text", "public file"}
  /\ \E outcome \in Readings :
       /\ reserved' = IF reserved = "nothing" THEN outcome ELSE reserved
       /\ joins' = JoinsKept(outcome)
  /\ IF reserved' = "order" THEN Goes(d, "receiving") ELSE Leaves(d)
  /\ UNCHANGED <<entry, rfq, orders, quoteVars, file, sweep, historyVars, mishap>>

(* EmailInboundService.Ingest: FindByExternalID. *)
FindEmail(d) ==
  /\ At(d, "reserving") /\ entry = "email"
  /\ IF reserved = "nothing" THEN Goes(d, "storing") ELSE Leaves(d)
  /\ UNCHANGED <<entry, rfq, messageVars, quoteVars, file, sweep, historyVars, mishap>>

(* storeOne, which stores the objects first: the order with its files, or a    *)
(* name for the order that asked for it. Reserved by another, it rolls back.   *)
StoreEmail(d) ==
  /\ At(d, "storing") /\ entry = "email"
  /\ \/ /\ reserved = "nothing"
        /\ \E fs \in SUBSET Files :
             /\ FilesBecome(fs, "PENDING")
             /\ rfq' = IF fs = {} THEN "FAILED" ELSE "RECEIVED"
        /\ reserved' = "order" /\ orders' = orders + 1
     \/ reserved = "nothing" /\ reserved' = "named" /\ UNCHANGED <<rfq, orders, file>>
     \/ reserved # "nothing" /\ UNCHANGED <<rfq, reserved, orders, file>>
  /\ Leaves(d)
  /\ UNCHANGED <<entry, joins, quoteVars, sweep, historyVars, mishap>>

(* persistReceivedRFQ and acceptReserved: an order interpreted already is not *)
(* interpreted again, and one that has a file keeps that file.                *)
Receive(d) ==
  /\ At(d, "receiving")
  /\ rfq' = IF rfq = "NONE" THEN "RECEIVED" ELSE rfq
  /\ orders' = IF rfq = "NONE" THEN orders + 1 ELSE orders
  /\ \/ entry \in {"typed", "channel text"} /\ rfq' = "RECEIVED" /\ Goes(d, "interpreting")
     \/ entry \in {"typed", "channel text"} /\ rfq' # "RECEIVED" /\ Leaves(d)
     \/ entry = "upload" /\ Goes(d, "storing")
     \/ entry = "public file" /\ FilesIn({"NONE"}) = Files /\ Goes(d, "storing")
     \/ entry = "public file" /\ FilesIn({"NONE"}) # Files /\ Leaves(d)
  /\ UNCHANGED <<entry, reserved, joins, quoteVars, file, sweep, historyVars, mishap>>

(* StoreForRFQ: the file is closed as read before the model runs. *)
StoreForRFQ(d) ==
  /\ At(d, "storing") /\ entry = "upload"
  /\ \E f \in FilesIn({"NONE"}) :
       /\ FilesBecome({f}, "DONE") /\ inline' = inline \cup {f}
       /\ delivery' = [delivery EXCEPT ![d] = [pc |-> "interpreting", file |-> f]]
  /\ UNCHANGED <<entry, rfq, messageVars, quoteVars, lock, sweep, weighed, mishap>>

StorePendingForRFQ(d) ==
  /\ At(d, "storing") /\ entry = "public file"
  /\ \E f \in FilesIn({"NONE"}) : FilesBecome({f}, "PENDING")
  /\ Leaves(d)
  /\ UNCHANGED <<entry, rfq, messageVars, quoteVars, sweep, historyVars, mishap>>

(* The model and the catalog inside the budget of the request: materials, none, *)
(* an error, or an interruption that says nothing about the file.               *)
Interpret(d) ==
  /\ At(d, "interpreting")
  /\ \/ Goes(d, "persisting")
     \/ Goes(d, "failing")
     \/ entry = "upload" /\ Goes(d, "deferring")
  /\ UNCHANGED <<entry, rfq, messageVars, quoteVars, file, sweep, historyVars, mishap>>

(* ReturnToQueue, or its failure. *)
Defer(d) ==
  /\ At(d, "deferring")
  /\ \/ /\ FilesBecome({delivery[d].file}, "PENDING") /\ inline' = inline \ {delivery[d].file}
        /\ Leaves(d)
     \/ Goes(d, "failing") /\ UNCHANGED <<file, inline>>
  /\ UNCHANGED <<entry, rfq, messageVars, quoteVars, sweep, weighed, mishap>>

(* markRFQFailed, whatever the order has become by now. *)
MarkFailed(d) ==
  /\ At(d, "failing") /\ rfq' = "FAILED" /\ Leaves(d)
  /\ UNCHANGED <<entry, messageVars, quoteVars, file, sweep, historyVars, mishap>>

(* persistGeneratedDraft; with a quote already it is a conflict. *)
Persist(d) ==
  /\ At(d, "persisting")
  /\ IF quoted THEN UNCHANGED <<rfq, quoteVars>> ELSE DraftQuote
  /\ Leaves(d)
  /\ UNCHANGED <<entry, messageVars, file, sweep, historyVars, mishap>>

(* The process dies, or a write of its own is refused: nothing more happens. *)
Stops(d) ==
  /\ ~At(d, "idle") /\ Leaves(d) /\ mishap' = TRUE
  /\ UNCHANGED <<entry, rfq, messageVars, quoteVars, file, sweep, historyVars>>

(* The connection that holds the message's lock dies, and its handler goes on. *)
LoseLock(d) ==
  /\ lock = d /\ lock' = Nobody
  /\ UNCHANGED <<entry, rfq, messageVars, quoteVars, file, delivery, sweep, historyVars, mishap>>

(* A seller adds a file to an order. *)
Upload(f) ==
  /\ rfq # "NONE" /\ file[f].status = "NONE"
  /\ FilesBecome({f}, "PENDING")
  /\ UNCHANGED <<entry, rfq, messageVars, quoteVars, lock, delivery, sweep, historyVars, mishap>>

-----------------------------------------------------------------------------
(* The sweep *)

In(s, pc) == sweep[s].pc = pc
Step(s, pc) == sweep' = [sweep EXCEPT ![s].pc = pc]
Ends(s) == sweep' = [sweep EXCEPT ![s] = Asleep]
HoldsJob(s) == ~In(s, "idle") /\ sweep[s].conn

(* Mutant of JobIsFree: a replica looks at its own run only. *)
FreeHere(s) == ~HoldsJob(s)

(* TryLock: the advisory lock of the job is nobody's. *)
JobIsFree(s) == \A t \in Sweeps : ~HoldsJob(t)

(* Mutant of Expired: claims do not expire. *)
NothingExpires(fs) == fs = {}

(* Claims made longer ago than reclaimAfter: some, or all but for the clock. *)
Expired(fs) == fs \subseteq FilesIn({"PROCESSING"})

(* JobService.Run and ClaimPendingByRFQ: every file of the order that waits. *)
StartSweep(s, expired) ==
  /\ In(s, "idle") /\ JobIsFree(s)
  /\ LET claimed == FilesIn({"PENDING"}) \cup expired IN
       /\ claimed # {}
       /\ file' = [f \in Files |-> IF f \in claimed THEN [status |-> "PROCESSING", claim |-> s] ELSE file[f]]
       /\ sweep' = [sweep EXCEPT ![s] = [Asleep EXCEPT !.pc = "reading", !.conn = TRUE, !.left = claimed]]
  /\ UNCHANGED <<entry, rfq, messageVars, quoteVars, lock, delivery, historyVars, mishap>>

(* Mutant of Connected: files are closed on another connection. *)
ConnectedAnyway(s) == TRUE

(* closeOut has no fence of its own: it runs on the connection of the lock. *)
Connected(s) == sweep[s].conn

(* ReadStoredAttachment: a file that cannot be read is closed FAILED. *)
ReadFile(s, f) ==
  /\ In(s, "reading") /\ f \in sweep[s].left
  /\ \/ /\ sweep' = [sweep EXCEPT ![s].left = @ \ {f}, ![s].read = @ \cup {f}]
        /\ UNCHANGED file
     \/ /\ sweep' = [sweep EXCEPT ![s].left = @ \ {f}]
        /\ IF Connected(s) THEN FilesBecome({f}, "FAILED") ELSE UNCHANGED file
  /\ UNCHANGED <<entry, rfq, messageVars, quoteVars, lock, delivery, historyVars, mishap>>

(* The outcome of a fold is known: its files have been weighed. *)
Weighs(s) == Step(s, "closing") /\ weighed' = weighed \cup sweep[s].read

(* Mutant of FailsWithoutQuote: an order without a quote is left as it was. *)
NeverFails(q, r) == FALSE

(* failWithoutQuote, by what was read of the quote and of the order. *)
FailsWithoutQuote(q, failed) == ~q /\ ~failed

(* rfqWithQuote, and what is decided before the model runs. *)
Decide(s) ==
  /\ In(s, "reading") /\ sweep[s].left = {}
  /\ \/ /\ sweep[s].read = {}
        /\ Step(s, IF FailsWithoutQuote(quoted, rfq = "FAILED") THEN "failing" ELSE "closing")
        /\ UNCHANGED weighed
     \/ /\ sweep[s].read # {} /\ quoted /\ (status # "DRAFT" \/ archived)
        /\ Weighs(s)
     \/ /\ sweep[s].read # {} /\ ~(quoted /\ (status # "DRAFT" \/ archived))
        /\ sweep' = [sweep EXCEPT ![s].pc = "extracting", ![s].quoted = quoted,
                                  ![s].failed = (rfq = "FAILED")]
        /\ UNCHANGED weighed
  /\ UNCHANGED <<entry, rfq, messageVars, quoteVars, file, lock, delivery, inline, mishap>>

(* The model answers within the budget of the sweep: materials or none. *)
Extract(s) ==
  /\ In(s, "extracting")
  /\ \/ Step(s, "writing") /\ UNCHANGED weighed
     \/ /\ FailsWithoutQuote(sweep[s].quoted, sweep[s].failed)
        /\ Step(s, "failing") /\ UNCHANGED weighed
     \/ ~FailsWithoutQuote(sweep[s].quoted, sweep[s].failed) /\ Weighs(s)
  /\ UNCHANGED <<entry, rfq, messageVars, quoteVars, file, lock, delivery, inline, mishap>>

(* Mutant of ExtractFails: the files of a failed extraction are closed. *)
ExtractFailsClosing(s) ==
  /\ In(s, "extracting") /\ Step(s, "closing")
  /\ UNCHANGED <<entry, rfq, messageVars, quoteVars, file, lock, delivery, historyVars, mishap>>

(* The model cannot be reached: the files stay claimed. *)
ExtractFails(s) ==
  /\ In(s, "extracting") /\ Ends(s)
  /\ UNCHANGED <<entry, rfq, messageVars, quoteVars, file, lock, delivery, historyVars, mishap>>

(* markRFQFailed; an error of it is swallowed. *)
FailOrder(s) ==
  /\ In(s, "failing") /\ Weighs(s)
  /\ \/ rfq' = "FAILED" /\ UNCHANGED mishap
     \/ UNCHANGED rfq /\ mishap' = TRUE
  /\ UNCHANGED <<entry, messageVars, quoteVars, file, lock, delivery, inline>>

(* persistGeneratedDraft, for an order that had no quote. *)
WriteDraft(s) ==
  /\ In(s, "writing") /\ ~sweep[s].quoted
  /\ IF quoted
       THEN Ends(s) /\ UNCHANGED <<rfq, quoteVars, weighed>>
       ELSE DraftQuote /\ Weighs(s)
  /\ UNCHANGED <<entry, messageVars, file, lock, delivery, inline, mishap>>

(* persistDraftVersion: the version after the current one becomes current, on *)
(* whatever the quote is by now; uq_quote_version_draft refuses it beside a   *)
(* version that is not frozen.                                                *)
WriteVersion(s) ==
  /\ In(s, "writing") /\ sweep[s].quoted
  /\ IF draft \/ version = MaxVersion
       THEN Ends(s) /\ UNCHANGED <<version, draft, weighed>>
       ELSE version' = version + 1 /\ draft' = TRUE /\ Weighs(s)
  /\ UNCHANGED <<entry, rfq, messageVars, quoted, status, standing, archived, file, lock,
                 delivery, inline, mishap>>

CloseOut(s, f) ==
  /\ In(s, "closing") /\ f \in sweep[s].read
  /\ IF Connected(s) THEN FilesBecome({f}, "DONE") ELSE UNCHANGED file
  /\ sweep' = [sweep EXCEPT ![s].read = @ \ {f}]
  /\ UNCHANGED <<entry, rfq, messageVars, quoteVars, lock, delivery, historyVars, mishap>>

Finish(s) ==
  /\ In(s, "closing") /\ sweep[s].read = {} /\ Ends(s)
  /\ UNCHANGED <<entry, rfq, messageVars, quoteVars, file, lock, delivery, historyVars, mishap>>

SweepStops(s) ==
  /\ ~In(s, "idle") /\ Ends(s) /\ mishap' = TRUE
  /\ UNCHANGED <<entry, rfq, messageVars, quoteVars, file, lock, delivery, historyVars>>

(* The connection dies: the lock is free, and the fold goes on through the pool. *)
LoseConnection(s) ==
  /\ HoldsJob(s) /\ sweep' = [sweep EXCEPT ![s].conn = FALSE]
  /\ UNCHANGED <<entry, rfq, messageVars, quoteVars, file, lock, delivery, historyVars, mishap>>

-----------------------------------------------------------------------------
(* The quote, once there is one *)

QuoteMoves ==
  /\ quoted
  /\ \/ Lifecycle!Publish
     \/ /\ ~archived
        /\ \/ Lifecycle!Price \/ (draft /\ Lifecycle!Freeze) \/ Lifecycle!Answer
           \/ Lifecycle!ReopenForResend
           \/ Lifecycle!ReopenForEdit /\ version' <= MaxVersion
           \/ Lifecycle!ChangeRequested /\ version' <= MaxVersion
  /\ UNCHANGED <<entry, rfq, messageVars, quoted, archived, file, lock, delivery, sweep, historyVars, mishap>>

SetArchived ==
  /\ quoted /\ archived' = ~archived
  /\ UNCHANGED <<entry, rfq, messageVars, quoted, status, version, draft, standing, file, lock,
                 delivery, sweep, historyVars, mishap>>

Delivers(d) ==
  \/ Deliver(d) \/ SellerAsks(d) \/ Reserve(d) \/ FindEmail(d) \/ StoreEmail(d) \/ Receive(d)
  \/ StoreForRFQ(d) \/ StorePendingForRFQ(d) \/ Interpret(d) \/ Defer(d) \/ MarkFailed(d)
  \/ Persist(d) \/ Stops(d) \/ LoseLock(d)

Folds(s) ==
  \/ \E f \in Files : ReadFile(s, f) \/ CloseOut(s, f)
  \/ Decide(s) \/ Extract(s) \/ ExtractFails(s) \/ FailOrder(s)
  \/ WriteDraft(s) \/ WriteVersion(s) \/ Finish(s)

Next ==
  \/ \E d \in Deliveries : Delivers(d)
  \/ \E f \in Files : Upload(f)
  \/ \E s \in Sweeps :
       \/ \E expired \in SUBSET Files : Expired(expired) /\ StartSweep(s, expired)
       \/ Folds(s) \/ SweepStops(s) \/ LoseConnection(s)
  \/ QuoteMoves \/ SetArchived

Spec == Init /\ [][Next]_vars

(* The schedule fires, every claim expires in the end, a run goes on until it *)
(* is through, and a model that is asked again and again answers.             *)
Fires ==
  \E s \in Sweeps : Expired(FilesIn({"PROCESSING"})) /\ StartSweep(s, FilesIn({"PROCESSING"}))

FairSpec ==
  /\ Spec /\ WF_vars(Fires)
  /\ \A s \in Sweeps : WF_vars(Folds(s)) /\ SF_vars(Extract(s))

-----------------------------------------------------------------------------
(* Properties *)

(* A message of a customer becomes exactly one thing, an order, a message of a *)
(* conversation or somebody's name, however often it is delivered, whatever    *)
(* each attempt made of it, and although the lock was lost.                    *)
OneOutcome ==
  /\ orders + joins <= 1
  /\ joins = 1 <=> reserved = "joined"
  /\ orders = 1 <=> rfq # "NONE"
  /\ entry \notin {"typed", "upload"} /\ orders = 1 => reserved = "order"

(* An order that reads as in progress is in progress: while nothing died and   *)
(* no write was refused, somebody interprets it or one of its files waits for  *)
(* the sweep. (markRFQFailed: "so a seller waits on a pipeline that already    *)
(* gave up".)                                                                  *)
ReceivedIsWorked ==
  rfq = "RECEIVED" /\ ~mishap =>
    \/ \E d \in Deliveries : ~At(d, "idle")
    \/ \E s \in Sweeps : ~In(s, "idle")
    \/ FilesIn({"PENDING", "PROCESSING"}) # {}

(* A file the sweep closed as read took part in an interpretation that ended:  *)
(* an extraction that failed, or a run that stopped, closes none.              *)
DoneWasWeighed == FilesIn({"DONE"}) \subseteq weighed \cup inline

(* A run that lost its connection, and whose files another run has claimed,    *)
(* closes none of them: MarkProcessed asks for no claim, and what is closed    *)
(* comes back to the queue only by the request that stored it.                 *)
SweepClosesItsOwn ==
  [][\A f \in Files :
       /\ file'[f].status \in {"DONE", "FAILED"} /\ file'[f] # file[f] =>
            \/ file[f].status = "NONE"
            \/ \E s \in Sweeps : file[f].claim = s /\ sweep'[s] # sweep[s]
       /\ file[f].status \in {"DONE", "FAILED"} /\ file'[f] # file[f] =>
            f \in inline /\ f \notin inline']_vars

(* Every file of an order is closed in the end, unless runs stop for ever or   *)
(* its quote stays a draft, which UploadedFileIsRead is about.                 *)
Unreviewed == quoted /\ status = "DRAFT" /\ ~archived

FilesAreClosed ==
  /\ <>[][~\E s \in Sweeps : SweepStops(s) \/ LoseConnection(s)]_vars
  /\ <>[]~Unreviewed
  => \A f \in Files : file[f].status \in {"PENDING", "PROCESSING"} ~> file[f].status \in {"DONE", "FAILED"}

-----------------------------------------------------------------------------
(* The inductive invariant: what the properties above rest on *)

(* A request that is past the intake of its order. *)
Interprets(d) ==
  \/ delivery[d].pc \in {"interpreting", "deferring", "failing", "persisting"}
  \/ At(d, "storing") /\ entry # "email"

(* The file of an upload, which its request may return to the queue. *)
HoldsFile(d) == entry = "upload" /\ delivery[d].pc \in {"interpreting", "deferring"}

IntakeFollows ==
  /\ \A d \in Deliveries :
       /\ At(d, "reserving") => entry \in {"channel text", "public file", "email"}
       /\ At(d, "receiving") =>
            entry # "email" /\ (entry \in {"channel text", "public file"} => reserved = "order")
       /\ At(d, "deferring") => entry = "upload"
       /\ Interprets(d) => rfq # "NONE"
       /\ HoldsFile(d) =>
            /\ delivery[d].file \in inline /\ file[delivery[d].file].status = "DONE"
            /\ \A e \in Deliveries \ {d} : HoldsFile(e) => delivery[e].file # delivery[d].file
  /\ entry \in {"typed", "upload"} => reserved = "nothing"

(* A quote, a file and a run of the sweep are of an order, and the order of a quote *)
(* is not in progress any more.                                                     *)
OrderIsThere ==
  /\ FilesIn({"NONE"}) # Files => rfq # "NONE"
  /\ \A s \in Sweeps : ~In(s, "idle") => rfq # "NONE"
  /\ quoted => rfq \in {"GENERATED", "FAILED"}

(* A run that has its connection holds the job alone and still claims its files. *)
RunsAreAlone ==
  \A s \in Sweeps :
    /\ In(s, "idle") => sweep[s] = Asleep
    /\ sweep[s].left \cap sweep[s].read = {}
    /\ sweep[s].conn =>
         /\ \A f \in sweep[s].left \cup sweep[s].read :
              file[f].status = "PROCESSING" /\ file[f].claim = s
         /\ \A t \in Sweeps : sweep[t].conn => t = s

(* What a run knows when it has weighed its files. *)
RunsAreWeighed ==
  \A s \in Sweeps :
    /\ ~In(s, "idle") /\ ~In(s, "reading") => sweep[s].left = {}
    /\ In(s, "closing") => sweep[s].read \subseteq weighed
    /\ In(s, "closing") => rfq # "RECEIVED" \/ mishap
    /\ sweep[s].quoted => quoted
    /\ sweep[s].failed => rfq # "RECEIVED"

(* Who is bound to settle an order: not every run that goes on is, for one that  *)
(* lost its claims may end with nothing done.                                    *)
SettlesIt(s) ==
  \/ sweep[s].pc \in {"failing", "writing"}
  \/ In(s, "reading") /\ sweep[s].left = {} /\ sweep[s].read = {}

ReceivedIsSettled ==
  rfq = "RECEIVED" /\ ~mishap =>
    \/ \E d \in Deliveries : Interprets(d)
    \/ \E s \in Sweeps : SettlesIt(s)
    \/ FilesIn({"PENDING", "PROCESSING"}) # {}

IInv ==
  /\ TypeOK /\ OneOutcome /\ DoneWasWeighed
  /\ IntakeFollows /\ OrderIsThere /\ RunsAreAlone /\ RunsAreWeighed /\ ReceivedIsSettled

-----------------------------------------------------------------------------
(* What the repository says of the program, and the program does not keep *)

(* docs/technical/scheduled-jobs.md, on the sweep: "QUOTED onwards | Nothing   *)
(* is written".                                                                *)
ReviewedIsNotRewritten ==
  [][\A s \in Sweeps :
       In(s, "writing") /\ sweep'[s] # sweep[s] /\ version' # version => Unreviewed]_vars

(* docs/technical/scheduled-jobs.md, on the sweep: "DRAFT | A new draft        *)
(* version of the same quote": a file added to an order under review is read.  *)
UploadedFileIsRead ==
  <>[][~\E s \in Sweeps : SweepStops(s) \/ LoseConnection(s)]_vars =>
    \A f \in Files : file[f].status = "PENDING" ~> file[f].status \in {"DONE", "FAILED"}

=============================================================================
