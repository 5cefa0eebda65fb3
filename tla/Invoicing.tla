------------------------------- MODULE Invoicing -------------------------------
(***************************************************************************)
(* Vouchers of one branch at ARCA, the tax authority: the invoice of an    *)
(* accepted sale, the credit note that cancels it and the invoice that     *)
(* bills the sale again. A handler checks the sale, holds it with a        *)
(* PENDING row, claims the next number of the series, asks ARCA outside    *)
(* any transaction and settles the row with the verdict. When the verdict  *)
(* is lost the row stays PENDING, and once stale a later handler leases it *)
(* and reads back what ARCA holds under the claimed number.                *)
(*                                                                         *)
(* A step is one database transaction, or one exchange with ARCA. Between  *)
(* two steps of a handler everyone else may act, and any handler may stop. *)
(***************************************************************************)
EXTENDS Naturals, Sequences, FiniteSets

CONSTANTS
  Quotes,      \* sales of one branch: their vouchers share a series per kind
  Workers,     \* handlers in flight: Issue, IssueCreditNote or Recover
  LookAlikes,  \* sales another system's voucher may equal in receiver, total and day
  MaxRows,     \* bound: rows the invoice table reaches
  MaxVersion,  \* bound: versions a quote reaches
  MaxForeign,  \* bound: vouchers another system issues at the point of sale
  NoQuote

ASSUME InvoicingAssumption ==
  /\ MaxRows \in Nat /\ MaxVersion \in Nat \ {0} /\ MaxForeign \in Nat
  /\ LookAlikes \subseteq Quotes
  /\ NoQuote \notin Quotes

Rows     == 1..MaxRows                 \* in order of created_at
Distinct == Quotes \ LookAlikes        \* sales no other system's voucher is taken for
Kinds    == {"INVOICE", "CREDIT_NOTE"}
Statuses == {"NONE", "PENDING", "ISSUED", "REJECTED"}   \* "NONE": no such row yet

VARIABLES
  (* quote rows *)
  accepted, archived, version,
  unpriced,        \* the current version is one the attachment sweep opened: no prices, total 0
  waived,          \* invoice_waived_at is set: "No requiere factura"
  (* account row and ARCA credential *)
  enabled, connected,
  (* invoice rows *)
  voucher,
  (* ARCA: what it authorized in each series, and the request it was sent for a row *)
  arca, wire,
  (* the handlers being served *)
  worker

saleVars    == <<accepted, archived, version, unpriced, waived>>
accountVars == <<enabled, connected>>
vars == <<saleVars, accountVars, voucher, arca, wire, worker>>

VoucherType ==
  [status : Statuses, kind : Kinds, quote : Quotes \cup {NoQuote}, version : Nat,
   credits : Nat,      \* credited_invoice_id: the row a credit note cancels
   replaces : Nat,     \* replaces_invoice_id: the credited row this invoice follows
   claimed : Nat, number : Nat,
   stale : BOOLEAN]    \* updated_at is older than ReconcileAfter

NoVoucher ==
  [status |-> "NONE", kind |-> "INVOICE", quote |-> NoQuote, version |-> 0,
   credits |-> 0, replaces |-> 0, claimed |-> 0, number |-> 0, stale |-> FALSE]

(* What ARCA holds under a number: the row that asked for it (0: another        *)
(* system) and the sale whose receiver, total and day it shows.                 *)
AuthorizedType == [by : Rows \cup {0}, shows : Quotes \cup {NoQuote}]

Wires == {"none", "sent", "authorized", "taken", "refused", "ticket"}

WorkerType ==
  [pc : {"idle", "leasing", "reading", "closing", "holding", "numbering", "claiming",
         "asking", "waiting", "consulting", "settling"},
   quote : Quotes \cup {NoQuote}, version : Nat,
   invoice : Nat,      \* the row to credit, or 0
   row : Nat, number : Nat,
   verdict : {"none", "nothing", "ours", "other", "authorized", "rejected", "failed", "unknown"},
   renumbered : BOOLEAN]

Idle ==
  [pc |-> "idle", quote |-> NoQuote, version |-> 0, invoice |-> 0, row |-> 0, number |-> 0,
   verdict |-> "none", renumbered |-> FALSE]

TypeOK ==
  /\ accepted \in [Quotes -> BOOLEAN] /\ archived \in [Quotes -> BOOLEAN]
  /\ version \in [Quotes -> Nat] /\ unpriced \in [Quotes -> BOOLEAN]
  /\ waived \in [Quotes -> BOOLEAN]
  /\ enabled \in BOOLEAN /\ connected \in BOOLEAN
  /\ voucher \in [Rows -> VoucherType]
  /\ arca \in [Kinds -> Seq(AuthorizedType)]
  /\ wire \in [Rows -> Wires]
  /\ worker \in [Workers -> WorkerType]

(* Every quote shows a version its seller priced. *)
Init ==
  /\ accepted = [q \in Quotes |-> FALSE] /\ archived = [q \in Quotes |-> FALSE]
  /\ version = [q \in Quotes |-> 1] /\ unpriced = [q \in Quotes |-> FALSE]
  /\ waived = [q \in Quotes |-> FALSE]
  /\ enabled = TRUE /\ connected = TRUE
  /\ voucher = [r \in Rows |-> NoVoucher]
  /\ arca = [k \in Kinds |-> <<>>]
  /\ wire = [r \in Rows |-> "none"]
  /\ worker = [w \in Workers |-> Idle]

-----------------------------------------------------------------------------
(* What the queries answer *)

Newest(rows) == IF rows = {} THEN 0 ELSE CHOOSE r \in rows : \A s \in rows : s <= r

Pending(r) == voucher[r].status = "PENDING"
Issued(r)  == voucher[r].status = "ISSUED"

NotesOf(i) ==
  {r \in Rows : /\ voucher[r].kind = "CREDIT_NOTE" /\ voucher[r].status # "NONE"
                /\ voucher[r].credits = i}

Credited(i) == \E r \in NotesOf(i) : Issued(r)

InvoicesOf(q) ==
  {r \in Rows : /\ voucher[r].kind = "INVOICE" /\ voucher[r].status # "NONE"
                /\ voucher[r].quote = q}

LatestByQuote(q)  == Newest({r \in InvoicesOf(q) : ~Credited(r)})
LatestCredited(q) == Newest({r \in InvoicesOf(q) : Issued(r) /\ Credited(r)})

(* Mutant of HasLiveInvoice: only what was issued counts. *)
HasIssuedInvoice(q) == \E r \in InvoicesOf(q) : Issued(r) /\ ~Credited(r)

HasLiveInvoice(q) ==
  \/ \E r \in Rows : Pending(r) /\ voucher[r].quote = q
  \/ \E r \in InvoicesOf(q) : Issued(r) /\ ~Credited(r)

HasPendingInvoice == \E r \in Rows : Pending(r)

(* creditableInvoice *)
Creditable(i) == Issued(i) /\ voucher[i].kind = "INVOICE" /\ ~Credited(i)

(* Mutant of Matches: whatever stands under the number is adopted. *)
MatchesAnything(found, r) == TRUE

(* matchesPending: ARCA's voucher is compared by receiver, total and day. *)
Matches(found, r) == found.shows = voucher[r].quote

FreeRows == {r \in Rows : voucher[r].status = "NONE"}
NextRow  == CHOOSE r \in FreeRows : \A s \in FreeRows : r <= s

(* Mutant of ActiveQuoteTaken: the index covers PENDING rows alone. *)
ActiveQuotePending(new) ==
  new.kind = "INVOICE" /\
  \E r \in InvoicesOf(new.quote) : Pending(r) /\ voucher[r].replaces = new.replaces

(* The partial unique indexes of the invoice table, over a row about to be added. *)
ActiveQuoteTaken(new) ==
  new.kind = "INVOICE" /\
  \E r \in InvoicesOf(new.quote) :
    voucher[r].status # "REJECTED" /\ voucher[r].replaces = new.replaces

CreditNoteTaken(new) ==
  new.kind = "CREDIT_NOTE" /\
  \E r \in NotesOf(new.credits) : voucher[r].status # "REJECTED"

(* Mutant of PendingSeriesTaken: the index is per sale. *)
PendingSaleTaken(new) ==
  \E r \in Rows : Pending(r) /\ voucher[r].kind = new.kind /\ voucher[r].quote = new.quote

PendingSeriesTaken(new) == \E r \in Rows : Pending(r) /\ voucher[r].kind = new.kind

UniqueViolation(new) == ActiveQuoteTaken(new) \/ CreditNoteTaken(new) \/ PendingSeriesTaken(new)

NumberTaken(kind, n) ==
  \E r \in Rows : Issued(r) /\ voucher[r].kind = kind /\ voucher[r].number = n

-----------------------------------------------------------------------------
(* The sale, as the quote's own handlers move it *)

Accept(q) ==
  /\ ~accepted[q] /\ ~archived[q]
  /\ accepted' = [accepted EXCEPT ![q] = TRUE]
  /\ UNCHANGED <<archived, version, unpriced, waived, accountVars, voucher, arca, wire, worker>>

(* The seller prices the version a sweep opened: AcceptMaterials, or the edits of *)
(* its lines.                                                                     *)
Price(q) ==
  /\ ~accepted[q] /\ ~archived[q]
  /\ unpriced[q] /\ unpriced' = [unpriced EXCEPT ![q] = FALSE]
  /\ UNCHANGED <<accepted, archived, version, waived, accountVars, voucher, arca, wire, worker>>

(* A change request opens the next version, at today's prices. *)
ChangeRequested(q) ==
  /\ ~accepted[q] /\ ~archived[q] /\ ~unpriced[q] /\ version[q] < MaxVersion
  /\ version' = [version EXCEPT ![q] = @ + 1]
  /\ UNCHANGED <<accepted, archived, unpriced, waived, accountVars, voucher, arca, wire, worker>>

(* persistDraftVersion: the sweep read the quote as a draft minutes ago, and opens *)
(* a version on whatever it has become, billed sales included. It takes a frozen   *)
(* current version, of which only that it is priced is kept here.                  *)
FoldVersion(q) ==
  /\ ~unpriced[q] /\ version[q] < MaxVersion
  /\ version' = [version EXCEPT ![q] = @ + 1]
  /\ unpriced' = [unpriced EXCEPT ![q] = TRUE]
  /\ UNCHANGED <<accepted, archived, waived, accountVars, voucher, arca, wire, worker>>

(* Reactivate, for a resend of the version or to edit a new one. That it is refused *)
(* for a paid sale is QuoteDelivery's matter; so is that the version must be frozen, *)
(* but for the sweep's, which cannot be.                                            *)
Reactivate(q, edit) ==
  /\ accepted[q] /\ ~archived[q] /\ ~unpriced[q] /\ ~HasLiveInvoice(q)
  /\ edit => version[q] < MaxVersion
  /\ accepted' = [accepted EXCEPT ![q] = FALSE]
  /\ version' = IF edit THEN [version EXCEPT ![q] = @ + 1] ELSE version
  /\ waived' = [waived EXCEPT ![q] = FALSE]
  /\ UNCHANGED <<archived, unpriced, accountVars, voucher, arca, wire, worker>>

SetArchived(q) ==
  /\ archived' = [archived EXCEPT ![q] = ~@]
  /\ UNCHANGED <<accepted, version, unpriced, waived, accountVars, voucher, arca, wire, worker>>

WaiveInvoice(q) ==
  /\ accepted[q] /\ ~archived[q] /\ enabled /\ ~HasLiveInvoice(q)
  /\ ~waived[q] /\ waived' = [waived EXCEPT ![q] = TRUE]
  /\ UNCHANGED <<accepted, archived, version, unpriced, accountVars, voucher, arca, wire, worker>>

RestoreInvoiceWait(q) ==
  /\ accepted[q] /\ ~archived[q]
  /\ waived[q] /\ waived' = [waived EXCEPT ![q] = FALSE]
  /\ UNCHANGED <<accepted, archived, version, unpriced, accountVars, voucher, arca, wire, worker>>

(* The account: the switch and the connection, both under the account row's lock. *)
SetInvoicingEnabled ==
  /\ enabled => ~HasPendingInvoice
  /\ enabled' = ~enabled
  /\ UNCHANGED <<saleVars, connected, voucher, arca, wire, worker>>

DisconnectARCA ==
  /\ connected /\ ~HasPendingInvoice
  /\ connected' = FALSE
  /\ UNCHANGED <<saleVars, enabled, voucher, arca, wire, worker>>

ConnectARCA ==
  /\ ~connected /\ connected' = TRUE
  /\ UNCHANGED <<saleVars, enabled, voucher, arca, wire, worker>>

-----------------------------------------------------------------------------
(* A handler opens, and recovers the stale row it finds *)

Goes(w, job)   == worker' = [worker EXCEPT ![w] = job]
Writes(r, row) == voucher' = [voucher EXCEPT ![r] = row]

(* The job that opens over `pending`, the stale row to recover first, or 0. *)
Opened(job, pending) ==
  IF pending = 0
  THEN [job EXCEPT !.pc = "holding"]
  ELSE [job EXCEPT !.pc = "leasing", !.row = pending, !.number = voucher[pending].claimed]

(* invoiceIssues: what the sale lacks, of which the status, a total and the *)
(* connection move.                                                         *)
NothingMissing(q) == accepted[q] /\ ~unpriced[q] /\ connected

(* Issue's first transaction. A fresh PENDING invoice or a live one refuses it. *)
IssueOpens(w, q) ==
  LET latest == LatestByQuote(q)
      stale == IF latest # 0 /\ Pending(latest) THEN latest ELSE 0
  IN
  /\ worker[w] = Idle /\ enabled /\ NothingMissing(q) /\ ~archived[q]
  /\ latest # 0 => ~Issued(latest)
  /\ stale # 0 => voucher[stale].stale
  /\ Goes(w, Opened([Idle EXCEPT !.quote = q, !.version = version[q]], stale))
  /\ UNCHANGED <<saleVars, accountVars, voucher, arca, wire>>

(* IssueCreditNote's first transaction; an archived sale is still credited. *)
CreditNoteOpens(w, i) ==
  LET note == Newest(NotesOf(i))
      stale == IF note # 0 /\ Pending(note) THEN note ELSE 0
  IN
  /\ worker[w] = Idle /\ enabled /\ connected
  /\ Creditable(i)
  /\ stale # 0 => voucher[stale].stale
  /\ Goes(w, Opened([Idle EXCEPT !.quote = voucher[i].quote, !.invoice = i], stale))
  /\ UNCHANGED <<saleVars, accountVars, voucher, arca, wire>>

(* Recover reads the row, and only settles it. *)
RecoverOpens(w, r) ==
  /\ worker[w] = Idle /\ Pending(r)
  /\ Goes(w, Opened(Idle, r))
  /\ UNCHANGED <<saleVars, accountVars, voucher, arca, wire>>

(* Mutant of Leased: the UPDATE asks that the row is PENDING, and not how old. *)
LeasedFresh(w) ==
  /\ Pending(worker[w].row)
  /\ worker[w].quote = NoQuote => connected

(* ClaimRecovery: a conditional UPDATE leases the stale row to one handler. *)
Leased(w) ==
  /\ Pending(worker[w].row) /\ voucher[worker[w].row].stale
  /\ worker[w].quote = NoQuote => connected

ClaimRecovery(w) ==
  LET r == worker[w].row IN
  /\ worker[w].pc = "leasing"
  /\ IF Leased(w)
     THEN /\ Writes(r, [voucher[r] EXCEPT !.stale = FALSE])
          /\ Goes(w, [worker[w] EXCEPT !.pc = "reading"])
     ELSE /\ Goes(w, Idle) /\ UNCHANGED voucher
  /\ UNCHANGED <<saleVars, accountVars, arca, wire>>

(* Authorized: what ARCA holds under the number the row had claimed. *)
OnRecord(r, n) ==
  IF n = 0 \/ n > Len(arca[voucher[r].kind]) THEN "nothing"
  ELSE IF Matches(arca[voucher[r].kind][n], r) THEN "ours" ELSE "other"

ReadBack(w) ==
  /\ worker[w].pc = "reading"
  /\ Goes(w, [worker[w] EXCEPT !.pc = "closing",
                               !.verdict = OnRecord(worker[w].row, worker[w].number)])
  /\ UNCHANGED <<saleVars, accountVars, voucher, arca, wire>>

(* Mutant of MarkIssued: the waiver is left as the seller set it. *)
MarkIssuedWaived(r, n) ==
  /\ IF Pending(r) /\ ~NumberTaken(voucher[r].kind, n)
     THEN Writes(r, [voucher[r] EXCEPT !.status = "ISSUED", !.number = n, !.stale = FALSE])
     ELSE UNCHANGED voucher
  /\ UNCHANGED waived

(* markIssued: conditional on PENDING; an invoice ends "No requiere factura". *)
MarkIssued(r, n) ==
  IF Pending(r) /\ ~NumberTaken(voucher[r].kind, n)
  THEN /\ Writes(r, [voucher[r] EXCEPT !.status = "ISSUED", !.number = n, !.stale = FALSE])
       /\ waived' = IF voucher[r].kind = "INVOICE"
                    THEN [waived EXCEPT ![voucher[r].quote] = FALSE] ELSE waived
  ELSE UNCHANGED <<voucher, waived>>

(* MarkRejected and ReleasePending: the row is REJECTED and frees what it held. *)
Release(r) ==
  /\ IF Pending(r) THEN Writes(r, [voucher[r] EXCEPT !.status = "REJECTED", !.stale = FALSE])
     ELSE UNCHANGED voucher
  /\ UNCHANGED waived

(* The end of reconcile. Only a handler that came to issue goes on to hold. *)
Reconcile(w) ==
  LET job == worker[w] IN
  /\ job.pc = "closing"
  /\ CASE job.verdict = "ours"    -> MarkIssued(job.row, job.number) /\ Goes(w, Idle)
       [] job.verdict = "other"   -> UNCHANGED <<voucher, waived>> /\ Goes(w, Idle)
       [] job.verdict = "nothing" ->
            /\ Release(job.row)
            /\ Goes(w, IF job.quote = NoQuote THEN Idle
                       ELSE [job EXCEPT !.pc = "holding", !.row = 0, !.number = 0, !.verdict = "none"])
  /\ UNCHANGED <<accepted, archived, version, unpriced, accountVars, arca, wire>>

-----------------------------------------------------------------------------
(* A handler holds the sale, numbers the voucher and asks for it *)

(* CreatePending, or the conflict a unique index answers. *)
CreatePending(w, new) ==
  /\ FreeRows # {}
  /\ IF UniqueViolation(new)
     THEN Goes(w, Idle) /\ UNCHANGED voucher
     ELSE /\ Writes(NextRow, new)
          /\ Goes(w, [worker[w] EXCEPT !.pc = "numbering", !.row = NextRow])
  /\ UNCHANGED <<saleVars, accountVars, arca, wire>>

Refused(w) == Goes(w, Idle) /\ UNCHANGED <<saleVars, accountVars, voucher, arca, wire>>

(* Mutant of StillInvoiceable: the sale is taken as the first transaction read it. *)
InvoiceableAsDrafted(job) == enabled /\ connected

(* hold: under the quote's and the account's locks. The draft is built again, and *)
(* its fingerprint covers the connection; whether the sale was archived since is  *)
(* not asked.                                                                     *)
StillInvoiceable(job) ==
  enabled /\ NothingMissing(job.quote) /\ version[job.quote] = job.version

Hold(w) ==
  LET job == worker[w] IN
  /\ job.pc = "holding" /\ job.invoice = 0
  /\ IF StillInvoiceable(job)
     THEN CreatePending(w, [NoVoucher EXCEPT
            !.status = "PENDING", !.quote = job.quote, !.version = job.version,
            !.replaces = LatestCredited(job.quote)])
     ELSE Refused(w)

(* Mutant of StillCreditable: the switch is not read again. *)
CreditableAsOpened(job) ==
  Creditable(job.invoice) /\ \A n \in NotesOf(job.invoice) : ~Pending(n)

(* holdCreditNote: the same locks; the connection is not read again. *)
StillCreditable(job) ==
  enabled /\ Creditable(job.invoice) /\ \A n \in NotesOf(job.invoice) : ~Pending(n)

HoldCreditNote(w) ==
  LET job == worker[w] IN
  /\ job.pc = "holding" /\ job.invoice # 0
  /\ IF StillCreditable(job)
     THEN CreatePending(w, [NoVoucher EXCEPT
            !.status = "PENDING", !.kind = "CREDIT_NOTE", !.quote = job.quote,
            !.version = voucher[job.invoice].version, !.credits = job.invoice])
     ELSE Refused(w)

Verdict(w, what) == Goes(w, [worker[w] EXCEPT !.pc = "settling", !.verdict = what])

(* lastAuthorized: the next number of the series, or no answer. *)
TakeNumber(w) ==
  /\ worker[w].pc = "numbering"
  /\ \/ Goes(w, [worker[w] EXCEPT !.pc = "claiming",
                   !.number = Len(arca[voucher[worker[w].row].kind]) + 1])
     \/ Verdict(w, "failed")
  /\ UNCHANGED <<saleVars, accountVars, voucher, arca, wire>>

(* ClaimNumber: written before the request, which is how an unknown outcome is checked. *)
ClaimNumber(w) ==
  LET job == worker[w] IN
  /\ job.pc = "claiming"
  /\ IF Pending(job.row)
     THEN /\ Writes(job.row, [voucher[job.row] EXCEPT !.claimed = job.number, !.stale = FALSE])
          /\ Goes(w, [job EXCEPT !.pc = "asking"])
     ELSE Verdict(w, "failed") /\ UNCHANGED voucher
  /\ UNCHANGED <<saleVars, accountVars, arca, wire>>

(* The claim is not written, or not known to be: ARCA is not asked. *)
ClaimFails(w) ==
  /\ worker[w].pc = "claiming" /\ Verdict(w, "failed")
  /\ UNCHANGED <<saleVars, accountVars, voucher, arca, wire>>

Solicitar(w) ==
  /\ worker[w].pc = "asking"
  /\ wire' = [wire EXCEPT ![worker[w].row] = "sent"]
  /\ Goes(w, [worker[w] EXCEPT !.pc = "waiting"])
  /\ UNCHANGED <<saleVars, accountVars, voucher, arca>>

(* The answer arrives. A number another system took is asked for again, once. *)
MayRenumber(job) == ~job.renumbered

Answered(w) ==
  LET job == worker[w]
      answer == wire[job.row]
  IN
  /\ job.pc = "waiting" /\ answer \notin {"none", "sent"}
  /\ wire' = [wire EXCEPT ![job.row] = "none"]
  /\ CASE answer = "authorized" -> Verdict(w, "authorized")
       [] answer = "ticket"     -> Verdict(w, "failed")
       [] answer = "refused"    -> Verdict(w, "rejected")
       [] answer = "taken"      ->
            IF MayRenumber(job)
            THEN Goes(w, [job EXCEPT !.pc = "numbering", !.renumbered = TRUE])
            ELSE Verdict(w, "rejected")
  /\ UNCHANGED <<saleVars, accountVars, voucher, arca>>

(* Nobody listens to the answer of row r any more; a request on its way goes on. *)
HangUp(r) == wire' = [wire EXCEPT ![r] = IF @ = "sent" THEN "sent" ELSE "none"]

(* A transport error, or an answer that cannot be read. *)
BreaksOff(w) ==
  /\ worker[w].pc = "waiting"
  /\ HangUp(worker[w].row)
  /\ Goes(w, [worker[w] EXCEPT !.pc = "consulting"])
  /\ UNCHANGED <<saleVars, accountVars, voucher, arca>>

(* recoverIssued: anything short of proof leaves the outcome unknown. *)
RecoverIssued(w) ==
  LET job == worker[w] IN
  /\ job.pc = "consulting"
  /\ \/ OnRecord(job.row, job.number) = "ours" /\ Verdict(w, "authorized")
     \/ Verdict(w, "unknown")
  /\ UNCHANGED <<saleVars, accountVars, voucher, arca, wire>>

(* Mutant of Settle: an unknown outcome frees the sale, as a failure does. *)
SettleUnknownFrees(w) ==
  LET job == worker[w] IN
  /\ job.pc = "settling"
  /\ IF job.verdict = "authorized" THEN MarkIssued(job.row, job.number) ELSE Release(job.row)
  /\ Goes(w, Idle)
  /\ UNCHANGED <<accepted, archived, version, unpriced, accountVars, arca, wire>>

(* settle: an unknown outcome keeps the hold until it is reconciled. *)
Settle(w) ==
  LET job == worker[w] IN
  /\ job.pc = "settling"
  /\ CASE job.verdict = "authorized" -> MarkIssued(job.row, job.number)
       [] job.verdict = "unknown"    -> UNCHANGED <<voucher, waived>>
       [] job.verdict \in {"rejected", "failed"} -> Release(job.row)
  /\ Goes(w, Idle)
  /\ UNCHANGED <<accepted, archived, version, unpriced, accountVars, arca, wire>>

(* The process dies, a deadline passes or a call fails: the handler returns where *)
(* it stands, with nothing written.                                               *)
Stops(w) ==
  /\ worker[w] # Idle
  /\ IF worker[w].pc = "waiting" THEN HangUp(worker[w].row) ELSE UNCHANGED wire
  /\ Goes(w, Idle)
  /\ UNCHANGED <<saleVars, accountVars, voucher, arca>>

-----------------------------------------------------------------------------
(* ARCA, the network, another billing system and the clock *)

Listening(r) == \E w \in Workers : worker[w].pc = "waiting" /\ worker[w].row = r

Answers(r, answer) == wire' = [wire EXCEPT ![r] = IF Listening(r) THEN answer ELSE "none"]

NextNumber(r) == voucher[r].claimed = Len(arca[voucher[r].kind]) + 1

(* FECAESolicitar: only the next number of a series is authorized. *)
ArcaAuthorizes(r) ==
  /\ wire[r] = "sent" /\ NextNumber(r)
  /\ arca' = [arca EXCEPT ![voucher[r].kind] = Append(@, [by |-> r, shows |-> voucher[r].quote])]
  /\ Answers(r, "authorized")
  /\ UNCHANGED <<saleVars, accountVars, voucher, worker>>

(* Code 10016, a refusal of the voucher, or of the access ticket. *)
ArcaRefuses(r) ==
  /\ wire[r] = "sent"
  /\ \/ ~NextNumber(r) /\ Answers(r, "taken")
     \/ \E answer \in {"refused", "ticket"} : Answers(r, answer)
  /\ UNCHANGED <<saleVars, accountVars, voucher, arca, worker>>

RequestIsLost(r) ==
  /\ wire[r] = "sent" /\ wire' = [wire EXCEPT ![r] = "none"]
  /\ UNCHANGED <<saleVars, accountVars, voucher, arca, worker>>

Foreign(kind) == {n \in 1..Len(arca[kind]) : arca[kind][n].by = 0}

OtherSystemIssues(kind) ==
  /\ Cardinality(Foreign(kind)) < MaxForeign
  /\ \E shown \in LookAlikes \cup {NoQuote} :
       arca' = [arca EXCEPT ![kind] = Append(@, [by |-> 0, shows |-> shown])]
  /\ UNCHANGED <<saleVars, accountVars, voucher, wire, worker>>

(* ReconcileAfter passes since the row was written. It is longer than IssueTimeout, *)
(* so whoever works on the row up to ARCA's answer has returned or is writing the   *)
(* outcome, and ARCA has taken or dropped the request.                              *)
AskingPhases ==
  {"leasing", "reading", "numbering", "claiming", "asking", "waiting", "consulting"}

GoesStale(r) ==
  /\ Pending(r) /\ ~voucher[r].stale /\ wire[r] = "none"
  /\ \A w \in Workers : worker[w].row = r => worker[w].pc \notin AskingPhases
  /\ Writes(r, [voucher[r] EXCEPT !.stale = TRUE])
  /\ UNCHANGED <<saleVars, accountVars, arca, wire, worker>>

-----------------------------------------------------------------------------
SaleNext ==
  \/ \E q \in Quotes :
       \/ Accept(q) \/ Price(q) \/ ChangeRequested(q) \/ FoldVersion(q)
       \/ SetArchived(q) \/ WaiveInvoice(q) \/ RestoreInvoiceWait(q)
       \/ \E edit \in BOOLEAN : Reactivate(q, edit)
  \/ SetInvoicingEnabled \/ DisconnectARCA \/ ConnectARCA

HandlerNext ==
  \E w \in Workers :
    \/ \E q \in Quotes : IssueOpens(w, q)
    \/ \E r \in Rows : CreditNoteOpens(w, r) \/ RecoverOpens(w, r)
    \/ ClaimRecovery(w) \/ ReadBack(w) \/ Reconcile(w)
    \/ Hold(w) \/ HoldCreditNote(w) \/ TakeNumber(w) \/ ClaimNumber(w) \/ ClaimFails(w)
    \/ Solicitar(w) \/ Answered(w) \/ BreaksOff(w) \/ RecoverIssued(w) \/ Settle(w) \/ Stops(w)

OutsideNext ==
  \/ \E r \in Rows : ArcaAuthorizes(r) \/ ArcaRefuses(r) \/ RequestIsLost(r) \/ GoesStale(r)
  \/ \E k \in Kinds : OtherSystemIssues(k)

Next == SaleNext \/ HandlerNext \/ OutsideNext

Spec == Init /\ [][Next]_vars

-----------------------------------------------------------------------------
(* Properties *)

Bears(r, n) == n \in 1..Len(arca[voucher[r].kind]) /\ arca[voucher[r].kind][n].by = r

Authorized(r) == \E n \in 1..Len(arca[voucher[r].kind]) : Bears(r, n)

(* "An invoice authorized but never recorded is the one outcome nothing can      *)
(* repair": what ARCA authorized for a row is recorded on it, or the row still   *)
(* waits under the very number it was authorized with.                           *)
NothingAuthorizedIsLost ==
  \A r \in Rows : \A n \in 1..Len(arca[voucher[r].kind]) :
    voucher[r].status # "NONE" /\ Bears(r, n) =>
      \/ Issued(r) /\ voucher[r].number = n
      \/ Pending(r) /\ voucher[r].claimed = n

(* "A second press can never authorize a second one": of the invoices ARCA holds *)
(* for a sale at most one is not cancelled, and none is cancelled twice.         *)
BilledOnce ==
  /\ \A r, s \in Rows :
       /\ Authorized(r) /\ Authorized(s) /\ voucher[r].kind = "INVOICE" /\ voucher[s].kind = "INVOICE"
       /\ voucher[r].quote = voucher[s].quote /\ voucher[r].quote \in Distinct /\ r # s
       => \E n \in NotesOf(r) \cup NotesOf(s) : Authorized(n)
  /\ \A n, m \in Rows :
       /\ Authorized(n) /\ Authorized(m) /\ voucher[n].kind = "CREDIT_NOTE"
       /\ voucher[m].kind = "CREDIT_NOTE" /\ voucher[n].credits = voucher[m].credits
       => n = m

(* One branch's sales share their numbers and never take each other's: under the  *)
(* number a waiting row claimed stands its own voucher, or another system's.      *)
NumbersDoNotCross ==
  \A r \in Rows :
    Pending(r) /\ voucher[r].claimed \in 1..Len(arca[voucher[r].kind]) =>
      arca[voucher[r].kind][voucher[r].claimed].by \in {r, 0}

(* Coti's record agrees with ARCA's: an ISSUED row bears its own number, unless   *)
(* another system's voucher was taken for it.                                    *)
IssuedIsAuthorized ==
  \A r \in Rows : Issued(r) /\ voucher[r].quote \in Distinct => Bears(r, voucher[r].number)

(* "An invoiced sale is a fiscal fact": while a voucher of the sale waits or its *)
(* invoice stands, the sale is accepted, and no change of it, no reopening and   *)
(* no second hold moves it off the version the voucher bills. The sweep does:    *)
(* the quote may show the one version it folded in late, which follows the       *)
(* billed one and which nobody has priced.                                       *)
BilledVersionShows(q, billed) ==
  \/ version[q] = billed
  \/ unpriced[q] /\ version[q] = billed + 1

BilledSaleStands ==
  \A r \in Rows :
    \/ Pending(r)
    \/ Issued(r) /\ voucher[r].kind = "INVOICE" /\ ~Credited(r)
    => accepted[voucher[r].quote] /\ BilledVersionShows(voucher[r].quote, voucher[r].version)

(* The switch and a disconnect "either wait for this invoice or have already     *)
(* landed and refuse it": none of them leaves an invoice waiting behind it.      *)
NoInvoiceWaitsUnreachable ==
  \A r \in Rows :
    /\ Pending(r) => enabled
    /\ Pending(r) /\ voucher[r].kind = "INVOICE" => connected

(* An issued invoice that stands ends "No requiere factura".                     *)
WaivedIsNotBilled ==
  \A r \in Rows : Creditable(r) => ~waived[voucher[r].quote]

(* The system implements SaleBooks.tla: what ARCA and the rows hold per sale.    *)
Billed(q) ==
  \E r \in InvoicesOf(q) : Authorized(r) /\ \A n \in NotesOf(r) : ~Authorized(n)

InvoiceWaits(q)  == \E r \in InvoicesOf(q) : Pending(r)
NoteWaits(q)     == \E i \in InvoicesOf(q) : \E n \in NotesOf(i) : Pending(n)
InvoiceStands(q) == \E i \in InvoicesOf(q) : Creditable(i)

BooksOf(q) ==
  IF InvoiceWaits(q) THEN "invoicing"
  ELSE IF NoteWaits(q) THEN "crediting"
  ELSE IF InvoiceStands(q) THEN "billed" ELSE "clear"

Books == INSTANCE SaleBooks WITH
  Sales <- Distinct, open <- {q \in Distinct : ~accepted[q]},
  fiscal <- [q \in Distinct |-> IF Billed(q) THEN "billed" ELSE "unbilled"],
  books <- [q \in Distinct |-> BooksOf(q)]

BooksSpec == Books!Spec

-----------------------------------------------------------------------------
(* The inductive invariant: what the properties above rest on *)

(* From the hold of the sale to ARCA's answer, and up to the outcome written. *)
ToArca  == {"numbering", "claiming", "asking", "waiting", "consulting"}
Issuing == ToArca \cup {"settling"}

Unborne(r) == \A n \in 1..Len(arca[voucher[r].kind]) : ~Bears(r, n)

(* The row job j has ARCA's voucher for: under the number the row waits with. *)
Found(j) ==
  Pending(j.row) =>
    /\ j.number = voucher[j.row].claimed /\ j.number \in 1..Len(arca[voucher[j.row].kind])
    /\ Matches(arca[voucher[j.row].kind][j.number], j.row)

JobsHoldRows ==
  \A w \in Workers :
    /\ worker[w].pc = "idle" => worker[w] = Idle
    /\ worker[w].pc \in {"idle", "holding"} => worker[w].row = 0
    /\ worker[w].pc \notin {"idle", "holding"} =>
         worker[w].row \in Rows /\ voucher[worker[w].row].status # "NONE"
    /\ worker[w].pc = "holding" => worker[w].quote \in Quotes
    /\ worker[w].invoice # 0 =>
         /\ worker[w].invoice \in Rows /\ Issued(worker[w].invoice)
         /\ voucher[worker[w].invoice].kind = "INVOICE"
         /\ voucher[worker[w].invoice].quote = worker[w].quote

(* A note credits an issued invoice of its own sale. *)
VouchersAreFiled ==
  \A r \in Rows : voucher[r].status # "NONE" =>
    /\ voucher[r].quote \in Quotes
    /\ voucher[r].kind = "CREDIT_NOTE" =>
         /\ voucher[r].credits \in Rows /\ Issued(voucher[r].credits)
         /\ voucher[voucher[r].credits].kind = "INVOICE"
         /\ voucher[voucher[r].credits].quote = voucher[r].quote

ArcaIsFiled ==
  \A k \in Kinds : \A n \in 1..Len(arca[k]) :
    IF arca[k][n].by = 0 THEN arca[k][n].shows \in LookAlikes \cup {NoQuote}
    ELSE /\ voucher[arca[k][n].by].status # "NONE"
         /\ arca[k][n].shows = voucher[arca[k][n].by].quote

(* One handler issues a row; nobody reads it back before ARCA's answer is out. *)
HandlersDoNotCross ==
  /\ \A w, x \in Workers :
       /\ worker[w].pc \in Issuing /\ worker[x].pc \in Issuing /\ worker[w].row = worker[x].row
       => w = x
  /\ \A w, x \in Workers :
       worker[w].pc \in ToArca /\ worker[x].pc \in {"reading", "closing"} =>
         worker[w].row # worker[x].row
  /\ \A w \in Workers :
       worker[w].pc \in ToArca => Pending(worker[w].row) /\ ~voucher[worker[w].row].stale
  /\ \A r \in Rows : voucher[r].stale =>
       /\ Pending(r) /\ wire[r] = "none"
       /\ \A w \in Workers : worker[w].row = r => worker[w].pc \notin ToArca \cup {"reading"}

(* A request is on its way for a row that waits under its number, and an answer for *)
(* the handler that waits for it.                                                   *)
RequestsFollow ==
  /\ \A r \in Rows : wire[r] = "sent" =>
       /\ voucher[r].status # "NONE" /\ voucher[r].claimed >= 1 /\ Unborne(r)
       /\ Pending(r) \/ voucher[r].claimed <= Len(arca[voucher[r].kind])
  /\ \A r \in Rows : wire[r] \notin {"none", "sent"} =>
       /\ \E w \in Workers : worker[w].pc = "waiting" /\ worker[w].row = r
       /\ IF wire[r] = "authorized" THEN Bears(r, voucher[r].claimed) ELSE Unborne(r)
  /\ \A w \in Workers :
       worker[w].pc \in {"numbering", "claiming", "asking", "reading", "closing"} =>
         wire[worker[w].row] = "none"

(* What a handler knows of its row's number stays true until it acts on it. *)
NumbersFollow ==
  \A w \in Workers :
    /\ worker[w].pc = "leasing" /\ voucher[worker[w].row].stale =>
         worker[w].number = voucher[worker[w].row].claimed
    /\ worker[w].pc = "reading" /\ Pending(worker[w].row) =>
         worker[w].number = voucher[worker[w].row].claimed
    /\ worker[w].pc \in {"numbering", "claiming", "asking"} => Unborne(worker[w].row)
    /\ worker[w].pc \in {"claiming", "asking", "waiting", "consulting"} => worker[w].number >= 1
    /\ worker[w].pc = "claiming" /\ worker[w].number <= Len(arca[voucher[worker[w].row].kind]) =>
         arca[voucher[worker[w].row].kind][worker[w].number].by = 0
    /\ worker[w].pc \in {"asking", "waiting", "consulting"} =>
         worker[w].number = voucher[worker[w].row].claimed

VerdictsFollow ==
  \A w \in Workers :
    /\ worker[w].pc = "closing" =>
         /\ worker[w].verdict \in {"ours", "other", "nothing"}
         /\ worker[w].verdict = "ours" => Found(worker[w])
         /\ worker[w].verdict = "nothing" /\ Pending(worker[w].row) => Unborne(worker[w].row)
    /\ worker[w].pc = "settling" =>
         /\ worker[w].verdict \in {"authorized", "rejected", "failed", "unknown"}
         /\ worker[w].verdict = "authorized" => Found(worker[w])
         /\ worker[w].verdict \in {"rejected", "failed"} =>
              Unborne(worker[w].row) /\ wire[worker[w].row] = "none"

OneWaitsPerSeries ==
  \A r, s \in Rows : Pending(r) /\ Pending(s) /\ voucher[r].kind = voucher[s].kind => r = s

(* A row that was not refused. *)
Live(r) == voucher[r].status \in {"PENDING", "ISSUED"}

(* The invoice of a sale that stands follows the last one that was cancelled: with *)
(* the partial index on what an invoice replaces, there is only one.               *)
OneStands ==
  /\ \A r \in Rows :
       Live(r) /\ voucher[r].kind = "INVOICE" /\ ~Credited(r) =>
         voucher[r].replaces = LatestCredited(voucher[r].quote)
  /\ \A r, s \in Rows :
       /\ Live(r) /\ Live(s) /\ voucher[r].kind = "INVOICE" /\ voucher[s].kind = "INVOICE"
       /\ voucher[r].quote = voucher[s].quote /\ voucher[r].replaces = voucher[s].replaces
       => r = s
  /\ \A n, m \in Rows :
       /\ Live(n) /\ Live(m) /\ voucher[n].kind = "CREDIT_NOTE"
       /\ voucher[m].kind = "CREDIT_NOTE" /\ voucher[n].credits = voucher[m].credits
       => n = m

IInv ==
  /\ TypeOK /\ JobsHoldRows /\ VouchersAreFiled /\ ArcaIsFiled /\ HandlersDoNotCross
  /\ RequestsFollow /\ NumbersFollow /\ VerdictsFollow /\ OneWaitsPerSeries
  /\ NumbersDoNotCross /\ NothingAuthorizedIsLost
  /\ OneStands /\ BilledSaleStands /\ NoInvoiceWaitsUnreachable /\ WaivedIsNotBilled

=============================================================================
