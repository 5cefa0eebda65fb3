---------------------------- MODULE Invoicing_proofs ----------------------------
(***************************************************************************)
(* Theorems about Invoicing, for any number of sales, handlers, invoice    *)
(* rows, versions and vouchers of other systems. The invariant IInv is     *)
(* preserved by every step; what a row, a number, a request and a handler  *)
(* know of each other is proved part by part.                              *)
(***************************************************************************)
EXTENDS Invoicing, FiniteSetTheorems, TLAPS

-----------------------------------------------------------------------------
(* The first and the last of a finite set of rows *)

LEMMA SmallestSubset ==
  ASSUME NEW S, IsFiniteSet(S), NEW T \in SUBSET (SUBSET S), T # {}
  PROVE  \E x \in T : \A y \in T : y \subseteq x => y = x
<1>1. IsWellFoundedOn(StrictSubsetOrdering(S), SUBSET S)
  BY FS_StrictSubsetOrderingWellFounded, FS_FiniteSubsetsOfFinite
<1>2. PICK x \in T : \A y \in T : ~ (<<y, x>> \in StrictSubsetOrdering(S))
  BY <1>1, WFMin, Zenon
<1> QED
  BY <1>2 DEF StrictSubsetOrdering

LEMMA LastRow ==
  ASSUME NEW rows \in SUBSET Rows, rows # {}
  PROVE  \E r \in rows : \A s \in rows : s <= r
<1> DEFINE T == {r..MaxRows : r \in rows}
<1> USE InvoicingAssumption DEF Rows
<1>1. \A r \in rows : r..MaxRows \in T
  OBVIOUS
<1>2. \A t \in T : \E r \in rows : t = r..MaxRows
  OBVIOUS
<1> HIDE DEF T
<1>3. \E t \in T : \A u \in T : u \subseteq t => u = t
  <2> DEFINE D == 1..MaxRows
  <2>1. IsFiniteSet(D)
    BY FS_Interval
  <2>2. T \in SUBSET (SUBSET D)
    BY <1>2
  <2>3. T # {}
    BY <1>1
  <2> HIDE DEF D
  <2> QED
    BY <2>1, <2>2, <2>3, SmallestSubset, SMT
<1>4. PICK t \in T : \A u \in T : u \subseteq t => u = t
  BY <1>3
<1>5. PICK r \in rows : t = r..MaxRows
  BY <1>2
<1>6. ASSUME NEW s \in rows, s > r PROVE FALSE
  <2>1. s..MaxRows = r..MaxRows
    BY <1>1, <1>4, <1>5, <1>6
  <2>2. r \in r..MaxRows
    OBVIOUS
  <2> QED
    BY <1>6, <2>1, <2>2
<1> QED
  BY <1>6

LEMMA FirstRow ==
  ASSUME NEW rows \in SUBSET Rows, rows # {}
  PROVE  \E r \in rows : \A s \in rows : r <= s
<1> DEFINE T == {1..r : r \in rows}
<1> USE InvoicingAssumption DEF Rows
<1>1. \A r \in rows : 1..r \in T
  OBVIOUS
<1>2. \A t \in T : \E r \in rows : t = 1..r
  OBVIOUS
<1> HIDE DEF T
<1>3. \E t \in T : \A u \in T : u \subseteq t => u = t
  <2> DEFINE D == 1..MaxRows
  <2>1. IsFiniteSet(D)
    BY FS_Interval
  <2>2. T \in SUBSET (SUBSET D)
    BY <1>2
  <2>3. T # {}
    BY <1>1
  <2> HIDE DEF D
  <2> QED
    BY <2>1, <2>2, <2>3, SmallestSubset, SMT
<1>4. PICK t \in T : \A u \in T : u \subseteq t => u = t
  BY <1>3
<1>5. PICK r \in rows : t = 1..r
  BY <1>2
<1>6. ASSUME NEW s \in rows, s < r PROVE FALSE
  <2>1. 1..s = 1..r
    BY <1>1, <1>4, <1>5, <1>6
  <2>2. r \in 1..r
    OBVIOUS
  <2> QED
    BY <1>6, <2>1, <2>2
<1> QED
  BY <1>6

LEMMA NewestIsOne ==
  ASSUME NEW rows \in SUBSET Rows
  PROVE  /\ Newest(rows) \in Rows \cup {0}
         /\ Newest(rows) # 0 => Newest(rows) \in rows
<1>1. CASE rows = {}
  BY <1>1 DEF Newest
<1>2. CASE rows # {}
  <2>1. Newest(rows) \in rows
    BY <1>2, LastRow DEF Newest
  <2> QED
    BY <2>1
<1> QED
  BY <1>1, <1>2

LEMMA NextRowIsFree ==
  ASSUME FreeRows # {}
  PROVE  NextRow \in Rows /\ voucher[NextRow].status = "NONE"
<1>1. FreeRows \in SUBSET Rows
  BY DEF FreeRows
<1>2. NextRow \in FreeRows
  BY <1>1, FirstRow DEF NextRow
<1> QED
  BY <1>2 DEF FreeRows

LEMMA RowsAreNumbers == Rows \subseteq Nat /\ 0 \notin Rows
BY InvoicingAssumption DEF Rows

-----------------------------------------------------------------------------
(* Type correctness *)

LEMMA IdleIsAJob == Idle \in WorkerType
BY DEF Idle, WorkerType

LEMMA RowType ==
  ASSUME TypeOK, NEW r \in Rows
  PROVE  /\ voucher[r] \in VoucherType /\ voucher[r].kind \in Kinds
         /\ voucher[r].claimed \in Nat /\ voucher[r].number \in Nat
         /\ arca[voucher[r].kind] \in Seq(AuthorizedType)
         /\ Len(arca[voucher[r].kind]) \in Nat
         /\ wire[r] \in Wires
<1>1. voucher[r] \in VoucherType
  BY DEF TypeOK
<1>2. voucher[r].kind \in Kinds /\ voucher[r].claimed \in Nat /\ voucher[r].number \in Nat
  BY <1>1 DEF VoucherType
<1>3. arca[voucher[r].kind] \in Seq(AuthorizedType)
  BY <1>2 DEF TypeOK
<1> QED
  BY <1>1, <1>2, <1>3 DEF TypeOK

LEMMA JobType ==
  ASSUME TypeOK, NEW w \in Workers, NEW job \in WorkerType, Goes(w, job)
  PROVE  /\ worker' \in [Workers -> WorkerType] /\ worker'[w] = job
         /\ \A x \in Workers : x # w => worker'[x] = worker[x]
BY DEF TypeOK, Goes

LEMMA JobFields ==
  ASSUME TypeOK, NEW w \in Workers
  PROVE  /\ worker[w] \in WorkerType
         /\ worker[w].quote \in Quotes \cup {NoQuote} /\ worker[w].version \in Nat
         /\ worker[w].invoice \in Nat /\ worker[w].row \in Nat /\ worker[w].number \in Nat
         /\ worker[w].renumbered \in BOOLEAN
BY DEF TypeOK, WorkerType

LEMMA VerdictIsAJob ==
  ASSUME TypeOK, NEW w \in Workers,
         NEW what \in {"authorized", "rejected", "failed", "unknown"}
  PROVE  [worker[w] EXCEPT !.pc = "settling", !.verdict = what] \in WorkerType
BY JobFields DEF WorkerType

LEMMA OpenedIsAJob ==
  ASSUME TypeOK, NEW job \in WorkerType, NEW pending \in Rows \cup {0}
  PROVE  Opened(job, pending) \in WorkerType
<1>1. CASE pending = 0
  BY <1>1 DEF Opened, WorkerType
<1>2. CASE pending # 0
  <2>1. pending \in Nat /\ voucher[pending].claimed \in Nat
    BY <1>2, RowType, RowsAreNumbers
  <2> QED
    BY <1>2, <2>1 DEF Opened, WorkerType
<1> QED
  BY <1>1, <1>2

LEMMA WritesType ==
  ASSUME TypeOK, NEW r \in Rows, NEW row \in VoucherType, Writes(r, row)
  PROVE  /\ voucher' \in [Rows -> VoucherType] /\ voucher'[r] = row
         /\ \A s \in Rows : s # r => voucher'[s] = voucher[s]
BY DEF TypeOK, Writes

(* The row as the transactions rewrite it. *)
LEMMA RewrittenRows ==
  ASSUME TypeOK, NEW r \in Rows, NEW n \in Nat, NEW late \in BOOLEAN
  PROVE  /\ [voucher[r] EXCEPT !.stale = late] \in VoucherType
         /\ [voucher[r] EXCEPT !.claimed = n, !.stale = FALSE] \in VoucherType
         /\ [voucher[r] EXCEPT !.status = "ISSUED", !.number = n, !.stale = FALSE] \in VoucherType
         /\ [voucher[r] EXCEPT !.status = "REJECTED", !.stale = FALSE] \in VoucherType
BY RowType DEF VoucherType, Statuses

LEMMA TypeInit == Init => TypeOK
<1> SUFFICES ASSUME Init PROVE TypeOK
  OBVIOUS
<1>1. NoVoucher \in VoucherType
  BY DEF NoVoucher, VoucherType, Statuses, Kinds
<1>2. arca \in [Kinds -> Seq(AuthorizedType)]
  BY DEF Init
<1> QED
  BY <1>1, <1>2, IdleIsAJob DEF Init, TypeOK, Wires

LEMMA SaleType ==
  ASSUME TypeOK, SaleNext
  PROVE  TypeOK'
<1> USE DEF saleVars, accountVars
<1>1. ASSUME NEW q \in Quotes,
             \/ Accept(q) \/ Price(q) \/ SetArchived(q) \/ WaiveInvoice(q)
             \/ RestoreInvoiceWait(q)
      PROVE  TypeOK'
  BY <1>1 DEF TypeOK, Accept, Price, SetArchived, WaiveInvoice, RestoreInvoiceWait
<1>4. ASSUME NEW q \in Quotes, ChangeRequested(q) PROVE TypeOK'
  BY <1>4 DEF TypeOK, ChangeRequested
<1>5. ASSUME NEW q \in Quotes, FoldVersion(q) PROVE TypeOK'
  BY <1>5 DEF TypeOK, FoldVersion
<1>2. ASSUME NEW q \in Quotes, NEW edit \in BOOLEAN, Reactivate(q, edit) PROVE TypeOK'
  BY <1>2 DEF TypeOK, Reactivate
<1>3. ASSUME SetInvoicingEnabled \/ DisconnectARCA \/ ConnectARCA PROVE TypeOK'
  BY <1>3 DEF TypeOK, SetInvoicingEnabled, DisconnectARCA, ConnectARCA
<1> QED
  BY <1>1, <1>2, <1>3, <1>4, <1>5 DEF SaleNext

LEMMA MarkIssuedType ==
  ASSUME TypeOK, NEW r \in Rows, NEW n \in Nat, MarkIssued(r, n)
  PROVE  voucher' \in [Rows -> VoucherType] /\ waived' \in [Quotes -> BOOLEAN]
BY RewrittenRows, WritesType DEF MarkIssued, TypeOK

LEMMA ReleaseType ==
  ASSUME TypeOK, NEW r \in Rows, Release(r)
  PROVE  voucher' \in [Rows -> VoucherType] /\ waived' \in [Quotes -> BOOLEAN]
BY RewrittenRows, WritesType DEF Release, TypeOK

LEMMA OpensType ==
  ASSUME TypeOK, NEW w \in Workers,
         \/ \E q \in Quotes : IssueOpens(w, q)
         \/ \E r \in Rows : CreditNoteOpens(w, r) \/ RecoverOpens(w, r)
  PROVE  TypeOK'
<1> USE DEF saleVars, accountVars
<1>1. ASSUME NEW q \in Quotes, IssueOpens(w, q) PROVE TypeOK'
  <2> DEFINE latest == LatestByQuote(q)
             stale == IF latest # 0 /\ Pending(latest) THEN latest ELSE 0
             job == [Idle EXCEPT !.quote = q, !.version = version[q]]
  <2>1. latest \in Rows \cup {0}
    BY NewestIsOne DEF LatestByQuote, InvoicesOf
  <2>2. job \in WorkerType
    BY DEF TypeOK, Idle, WorkerType
  <2>3. Goes(w, Opened(job, stale))
    BY <1>1 DEF IssueOpens
  <2>4. Opened(job, stale) \in WorkerType
    BY <2>1, <2>2, OpenedIsAJob
  <2>5. worker' \in [Workers -> WorkerType]
    BY <2>3, <2>4, JobType
  <2> QED
    BY <1>1, <2>5 DEF IssueOpens, TypeOK
<1>2. ASSUME NEW i \in Rows, CreditNoteOpens(w, i) PROVE TypeOK'
  <2> DEFINE note == Newest(NotesOf(i))
             stale == IF note # 0 /\ Pending(note) THEN note ELSE 0
             job == [Idle EXCEPT !.quote = voucher[i].quote, !.invoice = i]
  <2>1. note \in Rows \cup {0}
    BY NewestIsOne DEF NotesOf
  <2>2. job \in WorkerType
    BY RowsAreNumbers DEF TypeOK, Idle, WorkerType, VoucherType
  <2>3. Goes(w, Opened(job, stale))
    BY <1>2 DEF CreditNoteOpens
  <2>4. Opened(job, stale) \in WorkerType
    BY <2>1, <2>2, OpenedIsAJob
  <2>5. worker' \in [Workers -> WorkerType]
    BY <2>3, <2>4, JobType
  <2> QED
    BY <1>2, <2>5 DEF CreditNoteOpens, TypeOK
<1>3. ASSUME NEW r \in Rows, RecoverOpens(w, r) PROVE TypeOK'
  <2>1. worker' \in [Workers -> WorkerType]
    BY <1>3, IdleIsAJob, OpenedIsAJob, JobType DEF RecoverOpens
  <2> QED
    BY <1>3, <2>1 DEF RecoverOpens, TypeOK
<1> QED
  BY <1>1, <1>2, <1>3

LEMMA RecoveryType ==
  ASSUME IInv, NEW w \in Workers, ClaimRecovery(w) \/ ReadBack(w) \/ Reconcile(w)
  PROVE  TypeOK'
<1> USE DEF saleVars, accountVars
<1>1. TypeOK /\ worker[w].row \in Rows
  BY DEF IInv, JobsHoldRows, ClaimRecovery, ReadBack, Reconcile
<1>2. CASE ClaimRecovery(w)
  <2>1. [worker[w] EXCEPT !.pc = "reading"] \in WorkerType
    BY <1>1, JobFields DEF WorkerType
  <2>2. worker' \in [Workers -> WorkerType]
    BY <1>1, <1>2, <2>1, IdleIsAJob, JobType DEF ClaimRecovery, Leased
  <2>3. voucher' \in [Rows -> VoucherType]
    BY <1>1, <1>2, RewrittenRows, WritesType DEF ClaimRecovery, TypeOK
  <2> QED
    BY <1>1, <1>2, <2>2, <2>3 DEF ClaimRecovery, TypeOK
<1>3. CASE ReadBack(w)
  <2>1. [worker[w] EXCEPT !.pc = "closing", !.verdict = OnRecord(worker[w].row, worker[w].number)]
        \in WorkerType
    BY <1>1, JobFields DEF WorkerType, OnRecord
  <2>2. worker' \in [Workers -> WorkerType]
    BY <1>1, <1>3, <2>1, JobType DEF ReadBack
  <2> QED
    BY <1>1, <1>3, <2>2 DEF ReadBack, TypeOK
<1>4. CASE Reconcile(w)
  <2> DEFINE held == [worker[w] EXCEPT !.pc = "holding", !.row = 0, !.number = 0, !.verdict = "none"]
  <2>1. held \in WorkerType
    BY <1>1, JobFields DEF WorkerType
  <2>2. worker[w].verdict \in {"ours", "other", "nothing"}
    BY <1>4 DEF IInv, VerdictsFollow, Reconcile
  <2>3. worker' \in [Workers -> WorkerType]
    BY <1>1, <1>4, <2>1, <2>2, IdleIsAJob, JobType DEF Reconcile
  <2>4. voucher' \in [Rows -> VoucherType] /\ waived' \in [Quotes -> BOOLEAN]
    BY <1>1, <1>4, <2>2, MarkIssuedType, ReleaseType, JobFields DEF Reconcile, TypeOK
  <2> QED
    BY <1>1, <1>4, <2>3, <2>4 DEF Reconcile, TypeOK
<1> QED
  BY <1>2, <1>3, <1>4

LEMMA CreatePendingType ==
  ASSUME TypeOK, NEW w \in Workers, NEW new \in VoucherType, CreatePending(w, new)
  PROVE  TypeOK'
<1> USE DEF saleVars, accountVars
<1>1. NextRow \in Rows
  BY NextRowIsFree DEF CreatePending
<1>2. [worker[w] EXCEPT !.pc = "numbering", !.row = NextRow] \in WorkerType
  BY <1>1, JobFields, RowsAreNumbers DEF WorkerType
<1>3. worker' \in [Workers -> WorkerType]
  BY <1>2, IdleIsAJob, JobType DEF CreatePending
<1>4. voucher' \in [Rows -> VoucherType]
  BY <1>1, WritesType DEF CreatePending, TypeOK
<1> QED
  BY <1>3, <1>4 DEF CreatePending, TypeOK

(* The row a handler holds the sale with. *)
LEMMA DraftsAreRows ==
  ASSUME IInv, NEW w \in Workers, worker[w].pc = "holding"
  PROVE  /\ [NoVoucher EXCEPT !.status = "PENDING", !.quote = worker[w].quote,
              !.version = worker[w].version, !.replaces = LatestCredited(worker[w].quote)] \in VoucherType
         /\ worker[w].invoice # 0 =>
              [NoVoucher EXCEPT !.status = "PENDING", !.kind = "CREDIT_NOTE", !.quote = worker[w].quote,
                !.version = voucher[worker[w].invoice].version, !.credits = worker[w].invoice] \in VoucherType
<1>1. TypeOK /\ worker[w].quote \in Quotes
  BY DEF IInv, JobsHoldRows
<1>2. LatestCredited(worker[w].quote) \in Nat
  <2> DEFINE credited == {r \in InvoicesOf(worker[w].quote) : Issued(r) /\ Credited(r)}
  <2>1. credited \subseteq Rows
    BY DEF InvoicesOf
  <2>2. LatestCredited(worker[w].quote) = Newest(credited)
    BY Zenon DEF LatestCredited
  <2> HIDE DEF credited
  <2>3. Newest(credited) \in Rows \cup {0}
    BY <2>1, NewestIsOne
  <2>4. \A n \in Rows \cup {0} : n \in Nat
    BY RowsAreNumbers
  <2> QED
    BY <2>2, <2>3, <2>4, Zenon
<1>3. worker[w].invoice # 0 => voucher[worker[w].invoice].version \in Nat
  BY <1>1, RowType DEF IInv, JobsHoldRows, VoucherType
<1> QED
  BY <1>1, <1>2, <1>3, JobFields DEF NoVoucher, VoucherType, Statuses, Kinds

LEMMA HoldType ==
  ASSUME IInv, NEW w \in Workers, Hold(w) \/ HoldCreditNote(w)
  PROVE  TypeOK'
<1> USE DEF saleVars, accountVars
<1>1. TypeOK
  BY DEF IInv
<1>2. Refused(w) => TypeOK'
  BY <1>1, IdleIsAJob, JobType DEF Refused, TypeOK
<1>3. CASE Hold(w)
  BY <1>1, <1>2, <1>3, DraftsAreRows, CreatePendingType DEF Hold
<1>4. CASE HoldCreditNote(w)
  BY <1>1, <1>2, <1>4, DraftsAreRows, CreatePendingType DEF HoldCreditNote
<1> QED
  BY <1>3, <1>4

LEMMA IssueType ==
  ASSUME IInv, NEW w \in Workers,
         \/ TakeNumber(w) \/ ClaimNumber(w) \/ ClaimFails(w) \/ Solicitar(w) \/ Answered(w)
         \/ BreaksOff(w) \/ RecoverIssued(w) \/ Settle(w)
  PROVE  TypeOK'
<1> USE DEF saleVars, accountVars
<1>1. TypeOK /\ worker[w].row \in Rows
  BY DEF IInv, JobsHoldRows, TakeNumber, ClaimNumber, ClaimFails, Solicitar, Answered, BreaksOff,
         RecoverIssued, Settle
<1>2. ASSUME NEW what \in {"authorized", "rejected", "failed", "unknown"}, Verdict(w, what)
      PROVE  worker' \in [Workers -> WorkerType]
  BY <1>1, <1>2, VerdictIsAJob, JobType DEF Verdict
<1>3. ASSUME NEW pc \in {"asking", "waiting", "consulting"}, Goes(w, [worker[w] EXCEPT !.pc = pc])
      PROVE  worker' \in [Workers -> WorkerType]
  <2>1. [worker[w] EXCEPT !.pc = pc] \in WorkerType
    BY <1>1, JobFields DEF WorkerType
  <2> QED
    BY <1>1, <1>3, <2>1, JobType
<1>4. CASE TakeNumber(w)
  <2> DEFINE next == Len(arca[voucher[worker[w].row].kind]) + 1
  <2>1. [worker[w] EXCEPT !.pc = "claiming", !.number = next] \in WorkerType
    <3>1. next \in Nat
      BY <1>1, RowType
    <3> HIDE DEF next
    <3> QED
      BY <1>1, <3>1, JobFields DEF WorkerType
  <2>2. worker' \in [Workers -> WorkerType]
    BY <1>1, <1>2, <1>4, <2>1, JobType DEF TakeNumber
  <2> QED
    BY <1>1, <1>4, <2>2 DEF TakeNumber, TypeOK
<1>5. CASE ClaimNumber(w)
  <2>1. worker' \in [Workers -> WorkerType]
    BY <1>2, <1>3, <1>5 DEF ClaimNumber
  <2>2. voucher' \in [Rows -> VoucherType]
    BY <1>1, <1>5, JobFields, RewrittenRows, WritesType DEF ClaimNumber, TypeOK
  <2> QED
    BY <1>1, <1>5, <2>1, <2>2 DEF ClaimNumber, TypeOK
<1>6. CASE ClaimFails(w)
  BY <1>1, <1>2, <1>6 DEF ClaimFails, TypeOK
<1>7. CASE Solicitar(w)
  BY <1>1, <1>3, <1>7 DEF Solicitar, TypeOK, Wires
<1>8. CASE Answered(w)
  <2>1. [worker[w] EXCEPT !.pc = "numbering", !.renumbered = TRUE] \in WorkerType
    BY <1>1, JobFields DEF WorkerType
  <2>2. wire[worker[w].row] \in {"authorized", "taken", "refused", "ticket"}
    BY <1>1, <1>8, RowType DEF Answered, Wires
  <2>3. worker' \in [Workers -> WorkerType]
    BY <1>1, <1>2, <1>8, <2>1, <2>2, JobType DEF Answered
  <2> QED
    BY <1>1, <1>8, <2>3 DEF Answered, TypeOK, Wires
<1>9. CASE BreaksOff(w)
  BY <1>1, <1>3, <1>9 DEF BreaksOff, HangUp, TypeOK, Wires
<1>10. CASE RecoverIssued(w)
  BY <1>1, <1>2, <1>10 DEF RecoverIssued, TypeOK
<1>11. CASE Settle(w)
  <2>1. worker[w].verdict \in {"authorized", "rejected", "failed", "unknown"}
    BY <1>11 DEF IInv, VerdictsFollow, Settle
  <2>2. voucher' \in [Rows -> VoucherType] /\ waived' \in [Quotes -> BOOLEAN]
    BY <1>1, <1>11, <2>1, MarkIssuedType, ReleaseType, JobFields DEF Settle, TypeOK
  <2>3. worker' \in [Workers -> WorkerType]
    BY <1>1, <1>11, IdleIsAJob, JobType DEF Settle
  <2> QED
    BY <1>1, <1>11, <2>2, <2>3 DEF Settle, TypeOK
<1> QED
  BY <1>4, <1>5, <1>6, <1>7, <1>8, <1>9, <1>10, <1>11

LEMMA StopsType ==
  ASSUME TypeOK, NEW w \in Workers, Stops(w)
  PROVE  TypeOK'
<1> USE DEF saleVars, accountVars
<1>1. worker' \in [Workers -> WorkerType]
  BY IdleIsAJob, JobType DEF Stops
<1>2. wire' \in [Rows -> Wires]
  BY DEF Stops, HangUp, TypeOK, Wires
<1> QED
  BY <1>1, <1>2 DEF Stops, TypeOK

LEMMA OutsideType ==
  ASSUME TypeOK, OutsideNext
  PROVE  TypeOK'
<1> USE DEF saleVars, accountVars
<1>1. ASSUME NEW r \in Rows, ArcaAuthorizes(r) PROVE TypeOK'
  <2>1. [by |-> r, shows |-> voucher[r].quote] \in AuthorizedType
    BY DEF TypeOK, VoucherType, AuthorizedType
  <2>2. arca' \in [Kinds -> Seq(AuthorizedType)]
    BY <1>1, <2>1, RowType DEF ArcaAuthorizes, TypeOK
  <2> QED
    BY <1>1, <2>2 DEF ArcaAuthorizes, Answers, TypeOK, Wires
<1>2. ASSUME NEW r \in Rows, ArcaRefuses(r) \/ RequestIsLost(r) PROVE TypeOK'
  BY <1>2 DEF ArcaRefuses, RequestIsLost, Answers, TypeOK, Wires
<1>3. ASSUME NEW r \in Rows, GoesStale(r) PROVE TypeOK'
  <2>1. voucher' \in [Rows -> VoucherType]
    BY <1>3, RewrittenRows, WritesType DEF GoesStale
  <2> QED
    BY <1>3, <2>1 DEF GoesStale, TypeOK
<1>4. ASSUME NEW k \in Kinds, OtherSystemIssues(k) PROVE TypeOK'
  <2>1. PICK shown \in LookAlikes \cup {NoQuote} :
          arca' = [arca EXCEPT ![k] = Append(@, [by |-> 0, shows |-> shown])]
    BY <1>4 DEF OtherSystemIssues
  <2>2. [by |-> 0, shows |-> shown] \in AuthorizedType
    BY InvoicingAssumption DEF AuthorizedType
  <2>3. arca' \in [Kinds -> Seq(AuthorizedType)]
    BY <2>1, <2>2 DEF TypeOK
  <2> QED
    BY <1>4, <2>3 DEF OtherSystemIssues, TypeOK
<1> QED
  BY <1>1, <1>2, <1>3, <1>4 DEF OutsideNext

LEMMA TypeStep ==
  ASSUME IInv, [Next]_vars
  PROVE  TypeOK'
<1>1. TypeOK
  BY DEF IInv
<1>2. CASE SaleNext
  BY <1>1, <1>2, SaleType
<1>3. CASE HandlerNext
  <2> PICK w \in Workers :
        \/ \E q \in Quotes : IssueOpens(w, q)
        \/ \E r \in Rows : CreditNoteOpens(w, r) \/ RecoverOpens(w, r)
        \/ ClaimRecovery(w) \/ ReadBack(w) \/ Reconcile(w)
        \/ Hold(w) \/ HoldCreditNote(w) \/ TakeNumber(w) \/ ClaimNumber(w) \/ ClaimFails(w)
        \/ Solicitar(w) \/ Answered(w) \/ BreaksOff(w) \/ RecoverIssued(w) \/ Settle(w) \/ Stops(w)
    BY <1>3, Zenon DEF HandlerNext
  <2> QED
    BY <1>1, OpensType, RecoveryType, HoldType, IssueType, StopsType, Zenon
<1>4. CASE OutsideNext
  BY <1>1, <1>4, OutsideType
<1>5. CASE UNCHANGED vars
  BY <1>1, <1>5 DEF TypeOK, vars, saleVars, accountVars
<1> QED
  BY <1>2, <1>3, <1>4, <1>5 DEF Next

-----------------------------------------------------------------------------
(* How rows are written and ARCA's record grows *)

(* A lease, or the clock. *)
Dates(r) ==
  /\ Pending(r) /\ \E late \in BOOLEAN : Writes(r, [voucher[r] EXCEPT !.stale = late])
  /\ UNCHANGED <<saleVars, accountVars, arca, wire>>

Claims(r) ==
  /\ Pending(r) /\ Unborne(r)
  /\ \E n \in Nat :
       /\ n \in 1..Len(arca[voucher[r].kind]) => arca[voucher[r].kind][n].by = 0
       /\ Writes(r, [voucher[r] EXCEPT !.claimed = n, !.stale = FALSE])
  /\ UNCHANGED <<saleVars, accountVars, arca, wire>>

Issues(r) ==
  /\ Pending(r) /\ voucher[r].claimed \in 1..Len(arca[voucher[r].kind])
  /\ Matches(arca[voucher[r].kind][voucher[r].claimed], r)
  /\ Writes(r, [voucher[r] EXCEPT !.status = "ISSUED", !.number = voucher[r].claimed, !.stale = FALSE])
  /\ waived' = IF voucher[r].kind = "INVOICE"
               THEN [waived EXCEPT ![voucher[r].quote] = FALSE] ELSE waived
  /\ UNCHANGED <<accepted, archived, version, unpriced, accountVars, arca, wire>>

Drops(r) ==
  /\ Pending(r) /\ Unborne(r)
  /\ Writes(r, [voucher[r] EXCEPT !.status = "REJECTED", !.stale = FALSE])
  /\ UNCHANGED <<saleVars, accountVars, arca, wire>>

InvoiceOf(q) ==
  [NoVoucher EXCEPT !.status = "PENDING", !.quote = q, !.version = version[q],
                    !.replaces = LatestCredited(q)]

NoteOf(i) ==
  [NoVoucher EXCEPT !.status = "PENDING", !.kind = "CREDIT_NOTE", !.quote = voucher[i].quote,
                    !.version = voucher[i].version, !.credits = i]

FilesInvoice(r, q) ==
  /\ voucher[r].status = "NONE" /\ enabled /\ NothingMissing(q)
  /\ InvoiceOf(q) \in VoucherType /\ ~UniqueViolation(InvoiceOf(q)) /\ Writes(r, InvoiceOf(q))
  /\ UNCHANGED <<saleVars, accountVars, arca, wire>>

FilesNote(r, i) ==
  /\ voucher[r].status = "NONE" /\ enabled /\ Creditable(i)
  /\ NoteOf(i) \in VoucherType /\ ~UniqueViolation(NoteOf(i)) /\ Writes(r, NoteOf(i))
  /\ UNCHANGED <<saleVars, accountVars, arca, wire>>

RowWritten ==
  \/ \E r \in Rows : Dates(r) \/ Claims(r) \/ Issues(r) \/ Drops(r)
  \/ \E r \in Rows : (\E q \in Quotes : FilesInvoice(r, q)) \/ (\E i \in Rows : FilesNote(r, i))

LEMMA MarkIssuedWrites ==
  ASSUME IInv, NEW w \in Workers, worker[w].row \in Rows, Found(worker[w]),
         MarkIssued(worker[w].row, worker[w].number),
         UNCHANGED <<accepted, archived, version, unpriced, accountVars, arca, wire>>
  PROVE  UNCHANGED <<voucher, waived>> \/ Issues(worker[w].row)
BY DEF MarkIssued, Found, Issues

LEMMA ReleaseWrites ==
  ASSUME NEW r \in Rows, Pending(r) => Unborne(r), Release(r),
         UNCHANGED <<accepted, archived, version, unpriced, accountVars, arca, wire>>
  PROVE  UNCHANGED <<voucher, waived>> \/ Drops(r)
BY DEF Release, Drops, saleVars

LEMMA HoldWrites ==
  ASSUME IInv, NEW w \in Workers, Hold(w) \/ HoldCreditNote(w)
  PROVE  UNCHANGED voucher \/ RowWritten
<1>1. TypeOK /\ worker[w].quote \in Quotes /\ worker[w].pc = "holding"
  BY DEF IInv, JobsHoldRows, Hold, HoldCreditNote
<1>2. FreeRows # {} => NextRow \in Rows /\ voucher[NextRow].status = "NONE"
  BY NextRowIsFree
<1>3. CASE Hold(w)
  <2>1. CASE ~StillInvoiceable(worker[w])
    BY <1>3, <2>1 DEF Hold, Refused
  <2>2. CASE StillInvoiceable(worker[w])
    <3> DEFINE q == worker[w].quote
    <3>1. version[q] = worker[w].version /\ enabled /\ NothingMissing(q)
      BY <2>2 DEF StillInvoiceable
    <3>2. CreatePending(w, InvoiceOf(q))
      BY <1>3, <2>2, <3>1 DEF Hold, InvoiceOf
    <3>3. InvoiceOf(q) \in VoucherType
      BY <1>1, <3>1, DraftsAreRows DEF InvoiceOf
    <3> QED
      BY <1>1, <1>2, <3>1, <3>2, <3>3 DEF CreatePending, FilesInvoice, RowWritten
  <2> QED
    BY <2>1, <2>2
<1>4. CASE HoldCreditNote(w)
  <2>1. CASE ~StillCreditable(worker[w])
    BY <1>4, <2>1 DEF HoldCreditNote, Refused
  <2>2. CASE StillCreditable(worker[w])
    <3> DEFINE i == worker[w].invoice
    <3>1. /\ i \in Rows /\ i # 0 /\ enabled /\ Creditable(i)
          /\ voucher[i].quote = worker[w].quote
      BY <1>4, <2>2 DEF HoldCreditNote, StillCreditable, IInv, JobsHoldRows
    <3>2. CreatePending(w, NoteOf(i))
      BY <1>4, <2>2, <3>1 DEF HoldCreditNote, NoteOf
    <3>3. NoteOf(i) \in VoucherType
      BY <1>1, <3>1, DraftsAreRows DEF NoteOf
    <3> QED
      BY <1>2, <3>1, <3>2, <3>3 DEF CreatePending, FilesNote, RowWritten
  <2> QED
    BY <2>1, <2>2
<1> QED
  BY <1>3, <1>4

LEMMA RowsAreWritten ==
  ASSUME IInv, [Next]_vars
  PROVE  UNCHANGED voucher \/ RowWritten
<1> USE DEF saleVars, accountVars
<1>1. CASE SaleNext
  BY <1>1 DEF SaleNext, Accept, Price, ChangeRequested, FoldVersion, SetArchived, WaiveInvoice, RestoreInvoiceWait, Reactivate,
              SetInvoicingEnabled, DisconnectARCA, ConnectARCA
<1>2. CASE OutsideNext
  <2>1. ASSUME NEW r \in Rows, GoesStale(r) PROVE Dates(r)
    BY <2>1 DEF GoesStale, Dates
  <2> QED
    BY <1>2, <2>1 DEF OutsideNext, ArcaAuthorizes, ArcaRefuses, RequestIsLost, OtherSystemIssues, RowWritten
<1>3. ASSUME NEW w \in Workers,
             \/ \E q \in Quotes : IssueOpens(w, q)
             \/ \E r \in Rows : CreditNoteOpens(w, r) \/ RecoverOpens(w, r)
             \/ ReadBack(w) \/ TakeNumber(w) \/ ClaimFails(w) \/ Solicitar(w) \/ Answered(w)
             \/ BreaksOff(w) \/ RecoverIssued(w) \/ Stops(w)
      PROVE  UNCHANGED voucher
  BY <1>3 DEF IssueOpens, CreditNoteOpens, RecoverOpens, ReadBack, TakeNumber, ClaimFails, Solicitar,
              Answered, BreaksOff, RecoverIssued, Stops
<1>4. ASSUME NEW w \in Workers, worker[w].pc \notin {"idle", "holding"} PROVE worker[w].row \in Rows
  BY <1>4 DEF IInv, JobsHoldRows
<1>5. ASSUME NEW w \in Workers, ClaimRecovery(w) PROVE UNCHANGED voucher \/ RowWritten
  <2>1. worker[w].row \in Rows
    BY <1>4, <1>5 DEF ClaimRecovery
  <2>2. UNCHANGED voucher \/ Dates(worker[w].row)
    BY <1>5, <2>1 DEF ClaimRecovery, Dates, Leased
  <2> QED
    BY <2>1, <2>2 DEF RowWritten
<1>6. ASSUME NEW w \in Workers, Reconcile(w) PROVE UNCHANGED voucher \/ RowWritten
  <2>1. worker[w].row \in Rows /\ worker[w].pc = "closing"
    BY <1>4, <1>6 DEF Reconcile
  <2>2. CASE worker[w].verdict = "ours"
    BY <1>6, <2>1, <2>2, MarkIssuedWrites DEF Reconcile, RowWritten, IInv, VerdictsFollow
  <2>3. CASE worker[w].verdict = "nothing"
    BY <1>6, <2>1, <2>3, ReleaseWrites DEF Reconcile, RowWritten, IInv, VerdictsFollow
  <2>4. CASE worker[w].verdict = "other"
    BY <1>6, <2>4 DEF Reconcile
  <2> QED
    BY <2>1, <2>2, <2>3, <2>4 DEF IInv, VerdictsFollow
<1>7. ASSUME NEW w \in Workers, Settle(w) PROVE UNCHANGED voucher \/ RowWritten
  <2>1. worker[w].row \in Rows /\ worker[w].pc = "settling"
    BY <1>4, <1>7 DEF Settle
  <2>2. CASE worker[w].verdict = "authorized"
    BY <1>7, <2>1, <2>2, MarkIssuedWrites DEF Settle, RowWritten, IInv, VerdictsFollow
  <2>3. CASE worker[w].verdict \in {"rejected", "failed"}
    BY <1>7, <2>1, <2>3, ReleaseWrites DEF Settle, RowWritten, IInv, VerdictsFollow
  <2>4. CASE worker[w].verdict = "unknown"
    BY <1>7, <2>4 DEF Settle
  <2> QED
    BY <2>1, <2>2, <2>3, <2>4 DEF IInv, VerdictsFollow
<1>8. ASSUME NEW w \in Workers, ClaimNumber(w) PROVE UNCHANGED voucher \/ RowWritten
  <2>1. worker[w].row \in Rows /\ worker[w].pc = "claiming" /\ worker[w].number \in Nat
    BY <1>4, <1>8, JobFields DEF ClaimNumber, IInv
  <2>2. UNCHANGED voucher \/ Claims(worker[w].row)
    <3> DEFINE held == arca[voucher[worker[w].row].kind]
    <3>1. /\ Unborne(worker[w].row)
          /\ worker[w].number \in 1..Len(held) => held[worker[w].number].by = 0
      BY <2>1 DEF IInv, NumbersFollow
    <3> QED
      BY <1>8, <2>1, <3>1 DEF ClaimNumber, Claims
  <2> QED
    BY <2>1, <2>2 DEF RowWritten
<1>9. CASE HandlerNext
  <2> PICK w \in Workers :
        \/ \E q \in Quotes : IssueOpens(w, q)
        \/ \E r \in Rows : CreditNoteOpens(w, r) \/ RecoverOpens(w, r)
        \/ ClaimRecovery(w) \/ ReadBack(w) \/ Reconcile(w)
        \/ Hold(w) \/ HoldCreditNote(w) \/ TakeNumber(w) \/ ClaimNumber(w) \/ ClaimFails(w)
        \/ Solicitar(w) \/ Answered(w) \/ BreaksOff(w) \/ RecoverIssued(w) \/ Settle(w) \/ Stops(w)
    BY <1>9, Zenon DEF HandlerNext
  <2> QED
    BY <1>3, <1>5, <1>6, <1>7, <1>8, HoldWrites, Zenon
<1> QED
  BY <1>1, <1>2, <1>9 DEF Next, vars

LEMMA ArcaGrows ==
  ASSUME [Next]_vars
  PROVE  \/ UNCHANGED arca
         \/ \E r \in Rows : ArcaAuthorizes(r)
         \/ \E k \in Kinds : OtherSystemIssues(k)
<1> USE DEF saleVars, accountVars
<1>1. CASE SaleNext
  BY <1>1 DEF SaleNext, Accept, Price, ChangeRequested, FoldVersion, SetArchived, WaiveInvoice, RestoreInvoiceWait, Reactivate,
              SetInvoicingEnabled, DisconnectARCA, ConnectARCA
<1>2. CASE OutsideNext
  BY <1>2 DEF OutsideNext, ArcaRefuses, RequestIsLost, GoesStale
<1>3. CASE HandlerNext
  BY <1>3 DEF HandlerNext, IssueOpens, CreditNoteOpens, RecoverOpens, ClaimRecovery, ReadBack, Reconcile,
              Hold, HoldCreditNote, Refused, CreatePending, TakeNumber, ClaimNumber, ClaimFails, Solicitar,
              Answered, BreaksOff, RecoverIssued, Settle, Stops
<1> QED
  BY <1>1, <1>2, <1>3 DEF Next, vars

-----------------------------------------------------------------------------
(* What a row is stays what it is *)

SameVoucher(r) ==
  /\ voucher'[r].kind = voucher[r].kind /\ voucher'[r].quote = voucher[r].quote
  /\ voucher'[r].version = voucher[r].version /\ voucher'[r].credits = voucher[r].credits
  /\ voucher'[r].replaces = voucher[r].replaces

Kept(r) ==
  /\ voucher[r].status # "NONE" => voucher'[r].status # "NONE" /\ SameVoucher(r)
  /\ Issued(r) => voucher'[r] = voucher[r]

(* What each way of writing a row leaves of it. *)
LEMMA DatesRow ==
  ASSUME TypeOK, NEW r \in Rows, Dates(r)
  PROVE  /\ \A s \in Rows : voucher'[s].status = voucher[s].status /\ SameVoucher(s)
                            /\ voucher'[s].claimed = voucher[s].claimed
                            /\ voucher'[s].number = voucher[s].number
         /\ \A s \in Rows : s # r => voucher'[s] = voucher[s]
<1>1. PICK late \in BOOLEAN : Writes(r, [voucher[r] EXCEPT !.stale = late])
  BY DEF Dates
<1> DEFINE row == [voucher[r] EXCEPT !.stale = late]
<1>2. /\ row.status = voucher[r].status /\ row.claimed = voucher[r].claimed
      /\ row.number = voucher[r].number /\ row.kind = voucher[r].kind /\ row.quote = voucher[r].quote
      /\ row.version = voucher[r].version /\ row.credits = voucher[r].credits
      /\ row.replaces = voucher[r].replaces
  BY RowType DEF VoucherType
<1>3. row \in VoucherType
  BY RewrittenRows
<1> HIDE DEF row
<1>4. voucher'[r] = row /\ \A s \in Rows : s # r => voucher'[s] = voucher[s]
  BY <1>1, <1>3, WritesType DEF row
<1> QED
  BY <1>2, <1>4 DEF SameVoucher

LEMMA ClaimsRow ==
  ASSUME TypeOK, NEW r \in Rows, Claims(r)
  PROVE  /\ \A s \in Rows : voucher'[s].status = voucher[s].status /\ SameVoucher(s)
                            /\ voucher'[s].number = voucher[s].number
         /\ \A s \in Rows : s # r => voucher'[s] = voucher[s]
         /\ voucher'[r].claimed \in 1..Len(arca[voucher[r].kind]) =>
              arca[voucher[r].kind][voucher'[r].claimed].by = 0
<1>1. PICK n \in Nat :
        /\ n \in 1..Len(arca[voucher[r].kind]) => arca[voucher[r].kind][n].by = 0
        /\ Writes(r, [voucher[r] EXCEPT !.claimed = n, !.stale = FALSE])
  BY DEF Claims
<1> DEFINE row == [voucher[r] EXCEPT !.claimed = n, !.stale = FALSE]
<1>2. /\ row.status = voucher[r].status /\ row.claimed = n
      /\ row.number = voucher[r].number /\ row.kind = voucher[r].kind /\ row.quote = voucher[r].quote
      /\ row.version = voucher[r].version /\ row.credits = voucher[r].credits
      /\ row.replaces = voucher[r].replaces
  BY RowType DEF VoucherType
<1>3. row \in VoucherType
  BY RewrittenRows
<1> HIDE DEF row
<1>4. voucher'[r] = row /\ \A s \in Rows : s # r => voucher'[s] = voucher[s]
  BY <1>1, <1>3, WritesType DEF row
<1> QED
  BY <1>1, <1>2, <1>4 DEF SameVoucher

LEMMA IssuesRow ==
  ASSUME TypeOK, NEW r \in Rows, Issues(r)
  PROVE  /\ \A s \in Rows : SameVoucher(s) /\ voucher'[s].claimed = voucher[s].claimed
         /\ \A s \in Rows : s # r => voucher'[s] = voucher[s]
         /\ voucher'[r].status = "ISSUED" /\ voucher'[r].number = voucher[r].claimed
         /\ voucher'[r].stale = FALSE
<1> DEFINE row == [voucher[r] EXCEPT !.status = "ISSUED", !.number = voucher[r].claimed, !.stale = FALSE]
<1>1. row \in VoucherType
  BY RowType, RewrittenRows
<1>2. /\ row.status = "ISSUED" /\ row.claimed = voucher[r].claimed /\ row.number = voucher[r].claimed
      /\ row.stale = FALSE /\ row.kind = voucher[r].kind /\ row.quote = voucher[r].quote
      /\ row.version = voucher[r].version /\ row.credits = voucher[r].credits
      /\ row.replaces = voucher[r].replaces
  BY RowType DEF VoucherType
<1> HIDE DEF row
<1>3. voucher'[r] = row /\ \A s \in Rows : s # r => voucher'[s] = voucher[s]
  BY <1>1, WritesType DEF Issues, row
<1> QED
  BY <1>2, <1>3 DEF SameVoucher

LEMMA DropsRow ==
  ASSUME TypeOK, NEW r \in Rows, Drops(r)
  PROVE  /\ \A s \in Rows : SameVoucher(s) /\ voucher'[s].claimed = voucher[s].claimed
         /\ \A s \in Rows : s # r => voucher'[s] = voucher[s]
         /\ voucher'[r].status = "REJECTED" /\ voucher'[r].stale = FALSE
<1> DEFINE row == [voucher[r] EXCEPT !.status = "REJECTED", !.stale = FALSE]
<1>1. row \in VoucherType
  BY RewrittenRows
<1>2. /\ row.status = "REJECTED" /\ row.claimed = voucher[r].claimed
      /\ row.stale = FALSE /\ row.kind = voucher[r].kind /\ row.quote = voucher[r].quote
      /\ row.version = voucher[r].version /\ row.credits = voucher[r].credits
      /\ row.replaces = voucher[r].replaces
  BY RowType DEF VoucherType
<1> HIDE DEF row
<1>3. voucher'[r] = row /\ \A s \in Rows : s # r => voucher'[s] = voucher[s]
  BY <1>1, WritesType DEF Drops, row
<1> QED
  BY <1>2, <1>3 DEF SameVoucher

LEMMA FilesInvoiceRow ==
  ASSUME TypeOK, NEW r \in Rows, NEW q \in Quotes, FilesInvoice(r, q)
  PROVE  /\ \A s \in Rows : s # r => voucher'[s] = voucher[s]
         /\ voucher[r].status = "NONE" /\ voucher'[r].status = "PENDING" /\ voucher'[r].kind = "INVOICE"
         /\ voucher'[r].quote = q /\ voucher'[r].version = version[q]
         /\ voucher'[r].replaces = LatestCredited(q) /\ voucher'[r].claimed = 0
         /\ voucher'[r].stale = FALSE
<1>1. voucher'[r] = InvoiceOf(q)
  BY WritesType DEF FilesInvoice
<1> QED
  BY <1>1, WritesType DEF FilesInvoice, InvoiceOf, NoVoucher

LEMMA FilesNoteRow ==
  ASSUME TypeOK, NEW r \in Rows, NEW i \in Rows, FilesNote(r, i)
  PROVE  /\ \A s \in Rows : s # r => voucher'[s] = voucher[s]
         /\ voucher[r].status = "NONE" /\ voucher'[r].status = "PENDING" /\ voucher'[r].kind = "CREDIT_NOTE"
         /\ voucher'[r].quote = voucher[i].quote /\ voucher'[r].version = voucher[i].version
         /\ voucher'[r].credits = i /\ voucher'[r].claimed = 0 /\ voucher'[r].stale = FALSE
<1>1. voucher'[r] = NoteOf(i)
  BY WritesType DEF FilesNote
<1> QED
  BY <1>1, WritesType DEF FilesNote, NoteOf, NoVoucher

LEMMA RowsAreKept ==
  ASSUME IInv, [Next]_vars
  PROVE  \A r \in Rows : Kept(r)
<1> USE DEF Kept
<1>1. TypeOK
  BY DEF IInv
<1>2. CASE UNCHANGED voucher
  BY <1>2 DEF SameVoucher
<1>3. ASSUME NEW r \in Rows, Dates(r) \/ Claims(r) \/ Issues(r) \/ Drops(r)
      PROVE  \A s \in Rows : Kept(s)
  <2>1. Pending(r)
    BY <1>3 DEF Dates, Claims, Issues, Drops
  <2>2. \A s \in Rows : SameVoucher(s) /\ (s # r => voucher'[s] = voucher[s])
    BY <1>1, <1>3, DatesRow, ClaimsRow, IssuesRow, DropsRow
  <2>3. voucher'[r].status # "NONE"
    BY <1>1, <1>3, <2>1, DatesRow, ClaimsRow, IssuesRow, DropsRow DEF Pending
  <2> QED
    BY <2>1, <2>2, <2>3 DEF Pending, Issued
<1>4. ASSUME NEW r \in Rows,
             (\E q \in Quotes : FilesInvoice(r, q)) \/ (\E i \in Rows : FilesNote(r, i))
      PROVE  \A s \in Rows : Kept(s)
  <2>1. voucher[r].status = "NONE" /\ \A s \in Rows : s # r => voucher'[s] = voucher[s]
    BY <1>1, <1>4, FilesInvoiceRow, FilesNoteRow
  <2> QED
    BY <2>1 DEF SameVoucher, Issued
<1> QED
  BY <1>2, <1>3, <1>4, RowsAreWritten DEF RowWritten

LEMMA ArcaRow ==
  ASSUME TypeOK, NEW r \in Rows, ArcaAuthorizes(r)
  PROVE  /\ UNCHANGED <<saleVars, accountVars, voucher, worker>>
         /\ wire[r] = "sent" /\ voucher[r].claimed = Len(arca[voucher[r].kind]) + 1
         /\ \A k \in Kinds : k # voucher[r].kind => arca'[k] = arca[k]
         /\ Len(arca'[voucher[r].kind]) = Len(arca[voucher[r].kind]) + 1
         /\ \A n \in 1..Len(arca[voucher[r].kind]) : arca'[voucher[r].kind][n] = arca[voucher[r].kind][n]
         /\ arca'[voucher[r].kind][voucher[r].claimed].by = r
         /\ arca'[voucher[r].kind][voucher[r].claimed].shows = voucher[r].quote
<1> DEFINE k == voucher[r].kind
           e == [by |-> r, shows |-> voucher[r].quote]
<1>1. k \in Kinds /\ arca[k] \in Seq(AuthorizedType)
  BY RowType
<1>2. arca' = [arca EXCEPT ![k] = Append(arca[k], e)]
  BY DEF ArcaAuthorizes
<1>3. e \in AuthorizedType
  BY DEF TypeOK, VoucherType, AuthorizedType
<1>4. arca'[k] = Append(arca[k], e) /\ \A j \in Kinds : j # k => arca'[j] = arca[j]
  BY <1>1, <1>2 DEF TypeOK
<1>5. voucher[r].claimed = Len(arca[k]) + 1
  BY DEF ArcaAuthorizes, NextNumber
<1> HIDE DEF e
<1>6. arca'[k][Len(arca[k]) + 1] = e
  BY <1>1, <1>3, <1>4
<1>7. Len(arca'[k]) = Len(arca[k]) + 1 /\ \A n \in 1..Len(arca[k]) : arca'[k][n] = arca[k][n]
  BY <1>1, <1>3, <1>4
<1> QED
  BY <1>4, <1>5, <1>6, <1>7 DEF e, ArcaAuthorizes

LEMMA OtherSystemRow ==
  ASSUME TypeOK, NEW k \in Kinds, OtherSystemIssues(k)
  PROVE  /\ UNCHANGED <<saleVars, accountVars, voucher, wire, worker>>
         /\ \A j \in Kinds : j # k => arca'[j] = arca[j]
         /\ Len(arca'[k]) = Len(arca[k]) + 1
         /\ \A n \in 1..Len(arca[k]) : arca'[k][n] = arca[k][n]
         /\ arca'[k][Len(arca[k]) + 1].by = 0
         /\ arca'[k][Len(arca[k]) + 1].shows \in LookAlikes \cup {NoQuote}
<1>1. PICK shown \in LookAlikes \cup {NoQuote} :
        arca' = [arca EXCEPT ![k] = Append(arca[k], [by |-> 0, shows |-> shown])]
  BY DEF OtherSystemIssues
<1> DEFINE e == [by |-> 0, shows |-> shown]
<1>2. arca[k] \in Seq(AuthorizedType)
  BY DEF TypeOK
<1>3. e \in AuthorizedType
  BY InvoicingAssumption DEF AuthorizedType
<1>4. arca'[k] = Append(arca[k], e) /\ \A j \in Kinds : j # k => arca'[j] = arca[j]
  BY <1>1 DEF TypeOK
<1> HIDE DEF e
<1>5. /\ arca'[k][Len(arca[k]) + 1] = e /\ Len(arca'[k]) = Len(arca[k]) + 1
      /\ \A n \in 1..Len(arca[k]) : arca'[k][n] = arca[k][n]
  BY <1>2, <1>3, <1>4
<1> QED
  BY <1>4, <1>5 DEF e, OtherSystemIssues

-----------------------------------------------------------------------------
(* Rows, series and numbers *)

LEMMA VouchersStep ==
  ASSUME IInv, [Next]_vars
  PROVE  VouchersAreFiled'
<1>1. TypeOK /\ VouchersAreFiled /\ \A r \in Rows : Kept(r)
  BY RowsAreKept DEF IInv
<1>2. ASSUME NEW r \in Rows, voucher[r].status # "NONE"
      PROVE  /\ voucher'[r].quote \in Quotes
             /\ voucher'[r].kind = "CREDIT_NOTE" =>
                  /\ voucher'[r].credits \in Rows /\ voucher'[voucher'[r].credits].status = "ISSUED"
                  /\ voucher'[voucher'[r].credits].kind = "INVOICE"
                  /\ voucher'[voucher'[r].credits].quote = voucher'[r].quote
  BY <1>1, <1>2 DEF VouchersAreFiled, Kept, SameVoucher, Issued
<1>3. CASE UNCHANGED voucher
  BY <1>2, <1>3 DEF VouchersAreFiled, Issued
<1>4. ASSUME NEW r \in Rows, Dates(r) \/ Claims(r) \/ Issues(r) \/ Drops(r)
      PROVE  VouchersAreFiled'
  <2>1. voucher[r].status # "NONE" /\ \A s \in Rows : s # r => voucher'[s] = voucher[s]
    BY <1>1, <1>4, DatesRow, ClaimsRow, IssuesRow, DropsRow DEF Dates, Claims, Issues, Drops, Pending
  <2> QED
    BY <1>2, <2>1 DEF VouchersAreFiled, Issued
<1>5. ASSUME NEW r \in Rows, NEW q \in Quotes, FilesInvoice(r, q) PROVE VouchersAreFiled'
  <2>1. \A s \in Rows : s # r /\ voucher'[s].status # "NONE" => voucher[s].status # "NONE"
    BY <1>1, <1>5, FilesInvoiceRow
  <2>2. voucher'[r].quote \in Quotes /\ voucher'[r].kind # "CREDIT_NOTE"
    BY <1>1, <1>5, FilesInvoiceRow
  <2> QED
    BY <1>2, <2>1, <2>2 DEF VouchersAreFiled, Issued
<1>6. ASSUME NEW r \in Rows, NEW i \in Rows, FilesNote(r, i) PROVE VouchersAreFiled'
  <2>1. voucher[i].quote \in Quotes /\ Issued(i) /\ voucher[i].kind = "INVOICE" /\ i # r
    BY <1>1, <1>6 DEF VouchersAreFiled, FilesNote, Creditable, Issued
  <2>2. /\ voucher'[i] = voucher[i] /\ voucher'[r].credits = i
        /\ voucher'[r].quote = voucher[i].quote
        /\ \A s \in Rows : s # r /\ voucher'[s].status # "NONE" => voucher[s].status # "NONE"
    BY <1>1, <1>6, <2>1, FilesNoteRow
  <2> QED
    BY <1>2, <2>1, <2>2 DEF VouchersAreFiled, Issued
<1> QED
  BY <1>3, <1>4, <1>5, <1>6, RowsAreWritten DEF RowWritten

LEMMA ArcaFiledStep ==
  ASSUME IInv, [Next]_vars
  PROVE  ArcaIsFiled'
<1> USE DEF ArcaIsFiled
<1>1. TypeOK /\ ArcaIsFiled /\ \A r \in Rows : Kept(r)
  BY RowsAreKept DEF IInv
<1>2. ASSUME NEW k \in Kinds, NEW n \in 1..Len(arca[k])
      PROVE  /\ arca[k] \in Seq(AuthorizedType) /\ arca[k][n].by \in Rows \cup {0}
             /\ IF arca[k][n].by = 0 THEN arca[k][n].shows \in LookAlikes \cup {NoQuote}
                ELSE /\ voucher'[arca[k][n].by].status # "NONE"
                     /\ arca[k][n].shows = voucher'[arca[k][n].by].quote
  <2>1. arca[k] \in Seq(AuthorizedType)
    BY <1>1 DEF TypeOK
  <2>2. arca[k][n] \in AuthorizedType
    BY <2>1
  <2> QED
    BY <1>1, <2>1, <2>2 DEF Kept, SameVoucher, AuthorizedType
<1>3. CASE UNCHANGED arca
  BY <1>2, <1>3
<1>4. ASSUME NEW r \in Rows, ArcaAuthorizes(r) PROVE ArcaIsFiled'
  <2>1. voucher[r].status # "NONE" /\ voucher' = voucher /\ voucher[r].kind \in Kinds
    BY <1>1, <1>4, ArcaRow, RowType DEF IInv, RequestsFollow
  <2>2. \A k \in Kinds : Len(arca[k]) \in Nat
    BY <1>1 DEF TypeOK
  <2> SUFFICES ASSUME NEW k \in Kinds, NEW n \in 1..Len(arca'[k])
               PROVE  IF arca'[k][n].by = 0 THEN arca'[k][n].shows \in LookAlikes \cup {NoQuote}
                      ELSE /\ voucher'[arca'[k][n].by].status # "NONE"
                           /\ arca'[k][n].shows = voucher'[arca'[k][n].by].quote
    OBVIOUS
  <2>3. CASE n \in 1..Len(arca[k])
    <3>1. arca'[k][n] = arca[k][n]
      BY <1>1, <1>4, <2>3, ArcaRow
    <3> QED
      BY <1>2, <2>3, <3>1
  <2>4. CASE n \notin 1..Len(arca[k])
    <3>1. arca'[k][n].by = r /\ arca'[k][n].shows = voucher[r].quote
      BY <1>1, <1>4, <2>2, <2>4, ArcaRow, SMTT(30)
    <3> QED
      BY <2>1, <3>1, RowsAreNumbers
  <2> QED
    BY <2>3, <2>4
<1>5. ASSUME NEW k \in Kinds, OtherSystemIssues(k) PROVE ArcaIsFiled'
  <2>1. \A j \in Kinds : Len(arca[j]) \in Nat
    BY <1>1 DEF TypeOK
  <2> SUFFICES ASSUME NEW j \in Kinds, NEW n \in 1..Len(arca'[j])
               PROVE  IF arca'[j][n].by = 0 THEN arca'[j][n].shows \in LookAlikes \cup {NoQuote}
                      ELSE /\ voucher'[arca'[j][n].by].status # "NONE"
                           /\ arca'[j][n].shows = voucher'[arca'[j][n].by].quote
    OBVIOUS
  <2>2. CASE n \in 1..Len(arca[j])
    <3>1. arca'[j][n] = arca[j][n]
      BY <1>1, <1>5, <2>2, OtherSystemRow
    <3> QED
      BY <1>2, <2>2, <3>1
  <2>3. CASE n \notin 1..Len(arca[j])
    BY <1>1, <1>5, <2>1, <2>3, OtherSystemRow
  <2> QED
    BY <2>2, <2>3
<1> QED
  BY <1>3, <1>4, <1>5, ArcaGrows

LEMMA OneWaitsStep ==
  ASSUME IInv, [Next]_vars
  PROVE  OneWaitsPerSeries'
<1> USE DEF OneWaitsPerSeries, Pending
<1>1. TypeOK /\ OneWaitsPerSeries
  BY DEF IInv
<1>2. CASE UNCHANGED voucher
  BY <1>1, <1>2
<1>3. ASSUME NEW r \in Rows, Dates(r) \/ Claims(r) \/ Issues(r) \/ Drops(r)
      PROVE  OneWaitsPerSeries'
  <2>1. \A s \in Rows : /\ voucher'[s].status = "PENDING" => voucher[s].status = "PENDING"
                        /\ voucher'[s].kind = voucher[s].kind
    BY <1>1, <1>3, DatesRow, ClaimsRow, IssuesRow, DropsRow DEF SameVoucher
  <2> QED
    BY <1>1, <2>1
<1>4. ASSUME NEW r \in Rows, NEW q \in Quotes, FilesInvoice(r, q) PROVE OneWaitsPerSeries'
  <2>1. \A s \in Rows : Pending(s) => voucher[s].kind # "INVOICE"
    BY <1>4 DEF FilesInvoice, UniqueViolation, PendingSeriesTaken, InvoiceOf, NoVoucher
  <2>2. voucher'[r].kind = "INVOICE" /\ \A s \in Rows : s # r => voucher'[s] = voucher[s]
    BY <1>1, <1>4, FilesInvoiceRow
  <2> QED
    BY <1>1, <2>1, <2>2
<1>5. ASSUME NEW r \in Rows, NEW i \in Rows, FilesNote(r, i) PROVE OneWaitsPerSeries'
  <2>1. \A s \in Rows : Pending(s) => voucher[s].kind # "CREDIT_NOTE"
    BY <1>5 DEF FilesNote, UniqueViolation, PendingSeriesTaken, NoteOf, NoVoucher
  <2>2. voucher'[r].kind = "CREDIT_NOTE" /\ \A s \in Rows : s # r => voucher'[s] = voucher[s]
    BY <1>1, <1>5, FilesNoteRow
  <2> QED
    BY <1>1, <2>1, <2>2
<1> QED
  BY <1>2, <1>3, <1>4, <1>5, RowsAreWritten DEF RowWritten

LEMMA SeriesKeptByRows ==
  ASSUME RowWritten
  PROVE  UNCHANGED arca
BY DEF RowWritten, Dates, Claims, Issues, Drops, FilesInvoice, FilesNote

LEMMA NumbersStep ==
  ASSUME IInv, [Next]_vars
  PROVE  NumbersDoNotCross'
<1> USE DEF NumbersDoNotCross
<1>1. TypeOK /\ NumbersDoNotCross
  BY DEF IInv
<1>2. CASE UNCHANGED <<voucher, arca>>
  BY <1>1, <1>2 DEF Pending
<1>3. ASSUME NEW r \in Rows, Dates(r) \/ Issues(r) \/ Drops(r) PROVE NumbersDoNotCross'
  <2>1. arca' = arca
    BY <1>3 DEF Dates, Issues, Drops
  <2>2. \A s \in Rows : /\ voucher'[s].status = "PENDING" => Pending(s)
                        /\ voucher'[s].kind = voucher[s].kind /\ voucher'[s].claimed = voucher[s].claimed
    BY <1>1, <1>3, DatesRow, IssuesRow, DropsRow DEF Pending, SameVoucher
  <2> QED
    BY <1>1, <2>1, <2>2 DEF Pending
<1>4. ASSUME NEW r \in Rows, Claims(r) PROVE NumbersDoNotCross'
  <2>1. arca' = arca
    BY <1>4 DEF Claims
  <2> QED
    BY <1>1, <1>4, <2>1, ClaimsRow DEF Pending, SameVoucher
<1>5. ASSUME NEW r \in Rows,
             (\E q \in Quotes : FilesInvoice(r, q)) \/ (\E i \in Rows : FilesNote(r, i))
      PROVE  NumbersDoNotCross'
  <2>1. arca' = arca
    BY <1>5 DEF FilesInvoice, FilesNote
  <2>2. voucher'[r].claimed = 0 /\ \A s \in Rows : s # r => voucher'[s] = voucher[s]
    BY <1>1, <1>5, FilesInvoiceRow, FilesNoteRow
  <2> QED
    BY <1>1, <2>1, <2>2 DEF Pending
<1>6. ASSUME NEW r \in Rows, ArcaAuthorizes(r) PROVE NumbersDoNotCross'
  <2>1. voucher' = voucher /\ voucher[r].claimed = Len(arca[voucher[r].kind]) + 1
    BY <1>1, <1>6, ArcaRow
  <2>2. Pending(r)
    <3>1. Len(arca[voucher[r].kind]) \in Nat
      BY <1>1, RowType
    <3> QED
      BY <1>6, <2>1, <3>1 DEF IInv, RequestsFollow, ArcaAuthorizes
  <2>3. ASSUME NEW s \in Rows, Pending(s), s # r, voucher[s].claimed \in 1..Len(arca'[voucher[s].kind])
        PROVE  arca'[voucher[s].kind][voucher[s].claimed].by \in {s, 0}
    <3>1. voucher[s].kind \in Kinds /\ voucher[s].kind # voucher[r].kind
      BY <1>1, <2>2, <2>3, RowType DEF IInv, OneWaitsPerSeries
    <3>2. arca'[voucher[s].kind] = arca[voucher[s].kind]
      BY <1>1, <1>6, <3>1, ArcaRow
    <3> QED
      BY <1>1, <2>3, <3>2
  <2> QED
    BY <1>1, <1>6, <2>1, <2>3, ArcaRow DEF Pending
<1>7. ASSUME NEW k \in Kinds, OtherSystemIssues(k) PROVE NumbersDoNotCross'
  <2>1. voucher' = voucher /\ \A s \in Rows : voucher[s].kind \in Kinds /\ voucher[s].claimed \in Nat
    BY <1>1, <1>7, OtherSystemRow, RowType
  <2>2. Len(arca[k]) \in Nat
    BY <1>1 DEF TypeOK
  <2> SUFFICES ASSUME NEW s \in Rows, Pending(s), voucher[s].claimed \in 1..Len(arca'[voucher[s].kind])
               PROVE  arca'[voucher[s].kind][voucher[s].claimed].by \in {s, 0}
    BY <2>1 DEF Pending
  <2>3. CASE voucher[s].kind = k /\ voucher[s].claimed = Len(arca[k]) + 1
    BY <1>1, <1>7, <2>3, OtherSystemRow
  <2>4. CASE ~(voucher[s].kind = k /\ voucher[s].claimed = Len(arca[k]) + 1)
    <3>1. /\ voucher[s].claimed \in 1..Len(arca[voucher[s].kind])
          /\ arca'[voucher[s].kind][voucher[s].claimed] = arca[voucher[s].kind][voucher[s].claimed]
      BY <1>1, <1>7, <2>1, <2>2, <2>4, OtherSystemRow
    <3> QED
      BY <1>1, <3>1
  <2> QED
    BY <2>3, <2>4
<1> QED
  BY <1>2, <1>3, <1>4, <1>5, <1>6, <1>7, RowsAreWritten, ArcaGrows, SeriesKeptByRows DEF RowWritten,
     ArcaAuthorizes, OtherSystemIssues

(* A voucher of row r is a new one of the series, or one that was there. *)
LEMMA BearsIsKept ==
  ASSUME TypeOK, UNCHANGED arca, NEW r \in Rows, voucher'[r].kind = voucher[r].kind
  PROVE  /\ \A n : Bears(r, n)' <=> Bears(r, n)
         /\ Unborne(r)' <=> Unborne(r)
BY DEF Bears, Unborne

LEMMA LostStep ==
  ASSUME IInv, [Next]_vars
  PROVE  NothingAuthorizedIsLost'
<1>1. TypeOK /\ NothingAuthorizedIsLost
  BY DEF IInv
<1>2. SUFFICES ASSUME NEW r \in Rows, NEW n \in 1..Len(arca'[voucher'[r].kind]),
                      voucher'[r].status # "NONE", Bears(r, n)'
               PROVE  \/ voucher'[r].status = "ISSUED" /\ voucher'[r].number = n
                      \/ voucher'[r].status = "PENDING" /\ voucher'[r].claimed = n
  BY DEF NothingAuthorizedIsLost, Issued, Pending
<1>3. CASE UNCHANGED <<voucher, arca>>
  BY <1>1, <1>2, <1>3 DEF NothingAuthorizedIsLost, Issued, Pending, Bears
<1>4. ASSUME NEW s \in Rows, Dates(s) \/ Claims(s) \/ Issues(s) \/ Drops(s)
      PROVE  \/ voucher'[r].status = "ISSUED" /\ voucher'[r].number = n
             \/ voucher'[r].status = "PENDING" /\ voucher'[r].claimed = n
  <2>1. arca' = arca /\ Pending(s)
    BY <1>4 DEF Dates, Claims, Issues, Drops
  <2>2. voucher'[r].kind = voucher[r].kind /\ (r # s => voucher'[r] = voucher[r])
    BY <1>1, <1>4, DatesRow, ClaimsRow, IssuesRow, DropsRow DEF SameVoucher
  <2>3. Bears(r, n) /\ n \in 1..Len(arca[voucher[r].kind])
    BY <1>1, <1>2, <2>1, <2>2, BearsIsKept
  <2>4. CASE r # s
    BY <1>1, <1>2, <2>2, <2>3, <2>4 DEF NothingAuthorizedIsLost, Issued, Pending
  <2>5. CASE r = s
    <3>1. Pending(r) /\ voucher[r].claimed = n
      BY <1>1, <2>1, <2>3, <2>5 DEF NothingAuthorizedIsLost, Issued, Pending
    <3>2. ~Unborne(r)
      BY <2>3 DEF Unborne
    <3>3. Dates(r) \/ Issues(r)
      BY <1>4, <2>5, <3>2 DEF Claims, Drops
    <3> QED
      BY <1>1, <3>1, <3>3, DatesRow, IssuesRow DEF Pending
  <2> QED
    BY <2>4, <2>5
<1>5. ASSUME NEW s \in Rows,
             (\E q \in Quotes : FilesInvoice(s, q)) \/ (\E i \in Rows : FilesNote(s, i))
      PROVE  \/ voucher'[r].status = "ISSUED" /\ voucher'[r].number = n
             \/ voucher'[r].status = "PENDING" /\ voucher'[r].claimed = n
  <2>1. arca' = arca
    BY <1>5 DEF FilesInvoice, FilesNote
  <2>2. voucher[s].status = "NONE" /\ \A x \in Rows : x # s => voucher'[x] = voucher[x]
    BY <1>1, <1>5, FilesInvoiceRow, FilesNoteRow
  <2>3. r # s
    <3>1. SUFFICES ASSUME r = s PROVE FALSE
      OBVIOUS
    <3>2. voucher'[r].kind \in Kinds /\ arca[voucher'[r].kind] \in Seq(AuthorizedType)
      BY <1>1, TypeStep DEF TypeOK, VoucherType
    <3>3. n \in 1..Len(arca[voucher'[r].kind]) /\ arca[voucher'[r].kind][n].by = r
      BY <1>2, <2>1 DEF Bears
    <3> QED
      BY <2>2, <3>1, <3>2, <3>3, RowsAreNumbers DEF IInv, ArcaIsFiled
  <2>4. Bears(r, n) /\ n \in 1..Len(arca[voucher[r].kind])
    BY <1>1, <1>2, <2>1, <2>2, <2>3, BearsIsKept
  <2> QED
    BY <1>1, <1>2, <2>2, <2>3, <2>4 DEF NothingAuthorizedIsLost, Issued, Pending
<1>6. ASSUME NEW s \in Rows, ArcaAuthorizes(s)
      PROVE  \/ voucher'[r].status = "ISSUED" /\ voucher'[r].number = n
             \/ voucher'[r].status = "PENDING" /\ voucher'[r].claimed = n
  <2>1. /\ voucher' = voucher /\ voucher[s].claimed = Len(arca[voucher[s].kind]) + 1
        /\ voucher[r].kind \in Kinds /\ Len(arca[voucher[s].kind]) \in Nat
    BY <1>1, <1>6, ArcaRow, RowType
  <2>2. Pending(s) /\ Unborne(s)
    BY <1>6, <2>1 DEF IInv, RequestsFollow, ArcaAuthorizes
  <2>3. CASE n \in 1..Len(arca[voucher[r].kind])
    <3>1. Bears(r, n)
      <4>1. arca'[voucher[r].kind][n] = arca[voucher[r].kind][n]
        BY <1>1, <1>6, <2>1, <2>3, ArcaRow
      <4> QED
        BY <1>2, <2>1, <2>3, <4>1 DEF Bears
    <3> QED
      BY <1>1, <1>2, <2>1, <2>3, <3>1 DEF NothingAuthorizedIsLost, Issued, Pending
  <2>4. CASE n \notin 1..Len(arca[voucher[r].kind])
    <3>1. voucher[r].kind = voucher[s].kind /\ n = voucher[s].claimed
      BY <1>1, <1>2, <1>6, <2>1, <2>4, ArcaRow
    <3>2. r = s
      BY <1>1, <1>2, <1>6, <2>1, <3>1, ArcaRow DEF Bears
    <3> QED
      BY <2>1, <2>2, <3>1, <3>2 DEF Pending
  <2> QED
    BY <2>3, <2>4
<1>7. ASSUME NEW k \in Kinds, OtherSystemIssues(k)
      PROVE  \/ voucher'[r].status = "ISSUED" /\ voucher'[r].number = n
             \/ voucher'[r].status = "PENDING" /\ voucher'[r].claimed = n
  <2>1. voucher' = voucher /\ voucher[r].kind \in Kinds /\ Len(arca[k]) \in Nat
    BY <1>1, <1>7, OtherSystemRow, RowType DEF TypeOK
  <2>2. n \in 1..Len(arca[voucher[r].kind]) /\ Bears(r, n)
    <3>1. arca'[voucher[r].kind][n].by = r /\ n \in 1..Len(arca'[voucher[r].kind]) /\ r # 0
      BY <1>2, <2>1, RowsAreNumbers DEF Bears
    <3>2. n \in 1..Len(arca[voucher[r].kind])
      BY <1>1, <1>7, <2>1, <3>1, OtherSystemRow
    <3>3. arca'[voucher[r].kind][n] = arca[voucher[r].kind][n]
      BY <1>1, <1>7, <2>1, <3>2, OtherSystemRow
    <3> QED
      BY <3>1, <3>2, <3>3 DEF Bears
  <2> QED
    BY <1>1, <1>2, <2>1, <2>2 DEF NothingAuthorizedIsLost, Issued, Pending
<1> QED
  BY <1>3, <1>4, <1>5, <1>6, <1>7, RowsAreWritten, ArcaGrows, SeriesKeptByRows DEF RowWritten,
     ArcaAuthorizes, OtherSystemIssues

-----------------------------------------------------------------------------
(* One invoice of a sale stands *)

LEMMA CreditedRow ==
  ASSUME NEW i
  PROVE  /\ Credited(i) <=> \E n \in Rows : /\ voucher[n].kind = "CREDIT_NOTE"
                                            /\ voucher[n].status = "ISSUED" /\ voucher[n].credits = i
         /\ Credited(i)' <=> \E n \in Rows : /\ voucher'[n].kind = "CREDIT_NOTE"
                                             /\ voucher'[n].status = "ISSUED" /\ voucher'[n].credits = i
BY DEF Credited, NotesOf, Issued

(* The last cancelled invoice of a sale moves with the cancelled ones alone. *)
LEMMA SameCredited ==
  ASSUME NEW q,
         \A r \in Rows :
           (voucher'[r].kind = "INVOICE" /\ voucher'[r].quote = q /\ Issued(r)' /\ Credited(r)')
           <=> (voucher[r].kind = "INVOICE" /\ voucher[r].quote = q /\ Issued(r) /\ Credited(r))
  PROVE  LatestCredited(q)' = LatestCredited(q)
<1>1. {r \in InvoicesOf(q) : Issued(r) /\ Credited(r)}' = {r \in InvoicesOf(q) : Issued(r) /\ Credited(r)}
  BY DEF InvoicesOf, Issued
<1> QED
  BY <1>1, Zenon DEF LatestCredited

LEMMA CreditsUnmoved ==
  ASSUME \A s \in Rows : Issued(s)' <=> Issued(s),
         \A s \in Rows : Issued(s) => SameVoucher(s)
  PROVE  /\ \A i : Credited(i)' <=> Credited(i)
         /\ \A q : LatestCredited(q)' = LatestCredited(q)
<1>1. \A i : Credited(i)' <=> Credited(i)
  BY CreditedRow DEF Issued, SameVoucher
<1>2. ASSUME NEW q PROVE LatestCredited(q)' = LatestCredited(q)
  <2>1. \A r \in Rows :
          (voucher'[r].kind = "INVOICE" /\ voucher'[r].quote = q /\ Issued(r)' /\ Credited(r)')
          <=> (voucher[r].kind = "INVOICE" /\ voucher[r].quote = q /\ Issued(r) /\ Credited(r))
    BY <1>1 DEF SameVoucher
  <2> QED
    BY <2>1, SameCredited
<1> QED
  BY <1>1, <1>2

(* A row that waits has no note issued against it, and its own note is the only one. *)
LEMMA PendingIsNotCredited ==
  ASSUME IInv, NEW r \in Rows, Pending(r)
  PROVE  ~Credited(r)
BY CreditedRow DEF IInv, VouchersAreFiled, Pending, Issued

LEMMA NotedIsNotCredited ==
  ASSUME IInv, NEW n \in Rows, Pending(n), voucher[n].kind = "CREDIT_NOTE"
  PROVE  /\ voucher[n].credits \in Rows /\ Creditable(voucher[n].credits)
         /\ voucher[voucher[n].credits].quote = voucher[n].quote
<1> DEFINE i == voucher[n].credits
<1>1. i \in Rows /\ Issued(i) /\ voucher[i].kind = "INVOICE" /\ voucher[i].quote = voucher[n].quote
  BY DEF IInv, VouchersAreFiled, Pending
<1>2. ~Credited(i)
  BY CreditedRow DEF IInv, OneStands, Live, Pending
<1> QED
  BY <1>1, <1>2 DEF Creditable

LEMMA OneInvoiceStands ==
  ASSUME IInv, NEW r \in Rows, NEW s \in Rows, Live(r), Live(s), ~Credited(r), ~Credited(s),
         voucher[r].kind = "INVOICE", voucher[s].kind = "INVOICE", voucher[r].quote = voucher[s].quote
  PROVE  r = s
BY DEF IInv, OneStands

LEMMA StandsAfterIssue ==
  ASSUME IInv, NEW r \in Rows, Issues(r), NEW s \in Rows, NEW q \in Quotes,
         Live(s)', voucher'[s].kind = "INVOICE", ~Credited(s)', voucher'[s].quote = q
  PROVE  voucher'[s].replaces = LatestCredited(q)'
<1>1. TypeOK /\ OneStands /\ Pending(r)
  BY DEF IInv, Issues
<1>2. /\ \A t \in Rows : SameVoucher(t) /\ (t # r => voucher'[t] = voucher[t])
      /\ voucher'[r].status = "ISSUED"
  BY <1>1, IssuesRow
<1>3. \A t \in Rows : Issued(t)' <=> Issued(t) \/ t = r
  BY <1>2 DEF Issued
<1>4. Live(s) /\ voucher[s].kind = "INVOICE" /\ voucher[s].quote = q /\ SameVoucher(s)
  BY <1>1, <1>2 DEF Live, Pending, SameVoucher
<1>5. ~Credited(s) /\ LatestCredited(q)' = LatestCredited(q)
  <2>1. CASE voucher[r].kind # "CREDIT_NOTE"
    <3>1. \A i : Credited(i)' <=> Credited(i)
      BY <1>2, <1>3, <2>1, CreditedRow DEF Issued, SameVoucher
    <3>2. ~Credited(r)
      BY <1>1, PendingIsNotCredited
    <3>3. \A t \in Rows :
            (voucher'[t].kind = "INVOICE" /\ voucher'[t].quote = q /\ Issued(t)' /\ Credited(t)')
            <=> (voucher[t].kind = "INVOICE" /\ voucher[t].quote = q /\ Issued(t) /\ Credited(t))
      BY <1>2, <1>3, <3>1, <3>2 DEF SameVoucher
    <3> QED
      BY <3>1, <3>3, SameCredited
  <2>2. CASE voucher[r].kind = "CREDIT_NOTE"
    <3> DEFINE i == voucher[r].credits
    <3>1. i \in Rows /\ Issued(i) /\ voucher[i].kind = "INVOICE" /\ ~Credited(i)
      BY <1>1, <2>2, NotedIsNotCredited DEF Creditable
    <3>2. \A j : Credited(j)' <=> Credited(j) \/ j = i
      BY <1>2, <1>3, <2>2, CreditedRow DEF Issued, SameVoucher
    <3>3. ~Credited(s) /\ s # i
      BY <3>2
    <3>4. q # voucher[i].quote
      BY <1>4, <3>1, <3>3, OneInvoiceStands DEF Live, Issued
    <3>5. \A t \in Rows :
            (voucher'[t].kind = "INVOICE" /\ voucher'[t].quote = q /\ Issued(t)' /\ Credited(t)')
            <=> (voucher[t].kind = "INVOICE" /\ voucher[t].quote = q /\ Issued(t) /\ Credited(t))
      BY <1>2, <1>3, <2>2, <3>2, <3>4 DEF SameVoucher
    <3> QED
      BY <3>3, <3>5, SameCredited
  <2> QED
    BY <2>1, <2>2
<1> QED
  BY <1>1, <1>4, <1>5 DEF OneStands, SameVoucher

(* The rows that stand take no second place of the unique indexes. *)
LEMMA OneStandsStep ==
  ASSUME IInv, [Next]_vars
  PROVE  OneStands'
<1>1. TypeOK /\ OneStands /\ VouchersAreFiled'
  BY VouchersStep DEF IInv
<1>2. CASE UNCHANGED voucher
  <2>1. /\ \A i : Credited(i)' <=> Credited(i)
        /\ \A q : LatestCredited(q)' = LatestCredited(q)
    BY <1>2, CreditsUnmoved DEF Issued, SameVoucher
  <2> QED
    BY <1>1, <1>2, <2>1 DEF OneStands, Live
<1>3. ASSUME NEW r \in Rows, Dates(r) \/ Claims(r) \/ Issues(r) \/ Drops(r)
      PROVE  OneStands'
  <2>1. \A s \in Rows : SameVoucher(s) /\ (Live(s)' => Live(s)) /\ (s # r => voucher'[s] = voucher[s])
    BY <1>1, <1>3, DatesRow, ClaimsRow, IssuesRow, DropsRow DEF Live, Dates, Claims, Issues, Drops, Pending
  <2>2. ASSUME NEW s \in Rows, NEW q \in Quotes,
               Live(s)', voucher'[s].kind = "INVOICE", ~Credited(s)', voucher'[s].quote = q
        PROVE  voucher'[s].replaces = LatestCredited(q)'
    <3>1. CASE Issues(r)
      BY <2>2, <3>1, StandsAfterIssue
    <3>2. CASE Dates(r) \/ Claims(r) \/ Drops(r)
      <4>1. \A t \in Rows : Issued(t)' <=> Issued(t)
        BY <1>1, <2>1, <3>2, DatesRow, ClaimsRow, DropsRow DEF Issued, Dates, Claims, Drops, Pending
      <4>2. (Credited(s)' <=> Credited(s)) /\ LatestCredited(q)' = LatestCredited(q)
        BY <2>1, <4>1, CreditsUnmoved
      <4> QED
        BY <1>1, <2>1, <2>2, <4>2 DEF OneStands, SameVoucher
    <3> QED
      BY <1>3, <3>1, <3>2
  <2> QED
    BY <1>1, <2>1, <2>2 DEF OneStands, SameVoucher, VouchersAreFiled, Live
<1>4. ASSUME NEW r \in Rows,
             (\E q \in Quotes : FilesInvoice(r, q)) \/ (\E i \in Rows : FilesNote(r, i))
      PROVE  OneStands'
  <2>1. /\ voucher[r].status = "NONE" /\ voucher'[r].status = "PENDING"
        /\ \A s \in Rows : s # r => voucher'[s] = voucher[s]
    BY <1>1, <1>4, FilesInvoiceRow, FilesNoteRow
  <2>2. \A s \in Rows : (Issued(s)' <=> Issued(s)) /\ (Issued(s) => SameVoucher(s))
    BY <2>1 DEF Issued, SameVoucher
  <2>3. /\ \A i : Credited(i)' <=> Credited(i)
        /\ \A q : LatestCredited(q)' = LatestCredited(q)
    BY <2>2, CreditsUnmoved
  <2>4. \A s \in Rows : s # r => (Live(s)' <=> Live(s))
    BY <2>1 DEF Live
  <2>5. ASSUME NEW q \in Quotes, FilesInvoice(r, q) PROVE OneStands'
    <3>1. /\ voucher'[r].kind = "INVOICE" /\ voucher'[r].quote = q
          /\ voucher'[r].replaces = LatestCredited(q)
      BY <1>1, <2>5, FilesInvoiceRow
    <3>2. \A s \in Rows : Live(s) /\ voucher[s].kind = "INVOICE" /\ voucher[s].quote = q =>
            voucher[s].replaces # LatestCredited(q)
      BY <2>5 DEF FilesInvoice, UniqueViolation, ActiveQuoteTaken, InvoiceOf, NoVoucher, InvoicesOf, Live
    <3> QED
      BY <1>1, <2>1, <2>3, <2>4, <3>1, <3>2 DEF OneStands
  <2>6. ASSUME NEW i \in Rows, FilesNote(r, i) PROVE OneStands'
    <3>1. voucher'[r].kind = "CREDIT_NOTE" /\ voucher'[r].credits = i
      BY <1>1, <2>6, FilesNoteRow
    <3>2. \A s \in Rows : Live(s) /\ voucher[s].kind = "CREDIT_NOTE" => voucher[s].credits # i
      BY <2>6 DEF FilesNote, UniqueViolation, CreditNoteTaken, NoteOf, NoVoucher, NotesOf, Live
    <3> QED
      BY <1>1, <2>1, <2>3, <2>4, <3>1, <3>2 DEF OneStands
  <2> QED
    BY <1>4, <2>5, <2>6
<1> QED
  BY <1>2, <1>3, <1>4, RowsAreWritten DEF RowWritten

-----------------------------------------------------------------------------
(* The sale and the account under the vouchers *)

LEMMA SaleWrites == SaleNext => UNCHANGED <<voucher, arca, wire, worker>>
BY DEF SaleNext, Accept, Price, ChangeRequested, FoldVersion, SetArchived, WaiveInvoice, RestoreInvoiceWait, Reactivate, SetInvoicingEnabled,
       DisconnectARCA, ConnectARCA

LEMMA SaleIsKept ==
  ASSUME IInv, HandlerNext \/ OutsideNext \/ UNCHANGED vars
  PROVE  /\ UNCHANGED <<accepted, archived, version, unpriced, accountVars>>
         /\ \A q \in Quotes : waived'[q] => waived[q]
<1> USE DEF saleVars, accountVars
<1>1. \A q \in Quotes : UNCHANGED waived => (waived'[q] => waived[q])
  OBVIOUS
<1>2. CASE OutsideNext \/ UNCHANGED vars
  BY <1>1, <1>2 DEF OutsideNext, ArcaAuthorizes, ArcaRefuses, RequestIsLost, OtherSystemIssues, GoesStale, vars
<1>3. ASSUME NEW r, NEW n, MarkIssued(r, n) \/ Release(r) PROVE \A q \in Quotes : waived'[q] => waived[q]
  <2>1. waived \in [Quotes -> BOOLEAN]
    BY DEF IInv, TypeOK
  <2> QED
    BY <1>3, <2>1 DEF MarkIssued, Release
<1>4. ASSUME NEW w \in Workers, Reconcile(w) \/ Settle(w)
      PROVE  /\ UNCHANGED <<accepted, archived, version, unpriced, accountVars>>
             /\ \A q \in Quotes : waived'[q] => waived[q]
  <2>1. /\ worker[w].pc = "closing" => worker[w].verdict \in {"ours", "other", "nothing"}
        /\ worker[w].pc = "settling" => worker[w].verdict \in {"authorized", "rejected", "failed", "unknown"}
    BY DEF IInv, VerdictsFollow
  <2>2. UNCHANGED waived \/ (\E r, n : MarkIssued(r, n)) \/ (\E r : Release(r))
    BY <1>4, <2>1 DEF Reconcile, Settle
  <2> QED
    BY <1>1, <1>3, <1>4, <2>2 DEF Reconcile, Settle
<1>5. ASSUME NEW w \in Workers,
             \/ \E q \in Quotes : IssueOpens(w, q)
             \/ \E r \in Rows : CreditNoteOpens(w, r) \/ RecoverOpens(w, r)
             \/ ClaimRecovery(w) \/ ReadBack(w)
             \/ Hold(w) \/ HoldCreditNote(w) \/ TakeNumber(w) \/ ClaimNumber(w) \/ ClaimFails(w)
             \/ Solicitar(w) \/ Answered(w) \/ BreaksOff(w) \/ RecoverIssued(w) \/ Stops(w)
      PROVE  UNCHANGED <<saleVars, accountVars>>
  BY <1>5 DEF IssueOpens, CreditNoteOpens, RecoverOpens, ClaimRecovery, ReadBack, Hold, HoldCreditNote,
              Refused, CreatePending, TakeNumber, ClaimNumber, ClaimFails, Solicitar, Answered, BreaksOff,
              RecoverIssued, Stops
<1>6. CASE HandlerNext
  <2> PICK w \in Workers :
        \/ \E q \in Quotes : IssueOpens(w, q)
        \/ \E r \in Rows : CreditNoteOpens(w, r) \/ RecoverOpens(w, r)
        \/ ClaimRecovery(w) \/ ReadBack(w) \/ Reconcile(w)
        \/ Hold(w) \/ HoldCreditNote(w) \/ TakeNumber(w) \/ ClaimNumber(w) \/ ClaimFails(w)
        \/ Solicitar(w) \/ Answered(w) \/ BreaksOff(w) \/ RecoverIssued(w) \/ Settle(w) \/ Stops(w)
    BY <1>6, Zenon DEF HandlerNext
  <2>1. CASE Reconcile(w) \/ Settle(w)
    BY <1>4, <2>1
  <2>2. CASE ~(Reconcile(w) \/ Settle(w))
    <3>1. UNCHANGED <<saleVars, accountVars>>
      BY <1>5, <2>2
    <3> QED
      BY <1>1, <3>1
  <2> QED
    BY <2>1, <2>2
<1> QED
  BY <1>2, <1>6

(* The voucher rows that hold a sale: none, when HasLiveInvoice says so. *)
Holds(r) == Pending(r) \/ (Issued(r) /\ voucher[r].kind = "INVOICE" /\ ~Credited(r))

LEMMA LiveHolds ==
  ASSUME NEW q, ~HasLiveInvoice(q)
  PROVE  \A r \in Rows : Holds(r) => voucher[r].quote # q
BY DEF HasLiveInvoice, Holds, InvoicesOf, Issued

(* A row that comes to hold its sale has just been filed. *)
LEMMA HoldsIsFiled ==
  ASSUME IInv, [Next]_vars, NEW r \in Rows, Holds(r)'
  PROVE  \/ Holds(r) /\ SameVoucher(r)
         \/ \E q \in Quotes : FilesInvoice(r, q)
         \/ \E i \in Rows : FilesNote(r, i)
<1>1. TypeOK /\ \A s \in Rows : Kept(s)
  BY RowsAreKept DEF IInv
<1>2. ASSUME Credited(r) PROVE Credited(r)'
  BY <1>1, <1>2, CreditedRow DEF Kept, Issued
<1>3. ASSUME Pending(r) PROVE Holds(r) /\ SameVoucher(r)
  BY <1>1, <1>3 DEF Holds, Pending, Kept
<1>4. ASSUME Issued(r) PROVE Holds(r) /\ SameVoucher(r)
  BY <1>1, <1>2, <1>4 DEF Holds, Kept, Issued, Pending
<1>5. CASE UNCHANGED voucher
  BY <1>3, <1>4, <1>5 DEF Holds, Pending, Issued
<1>6. ASSUME NEW s \in Rows, Dates(s) \/ Claims(s) \/ Issues(s) \/ Drops(s)
      PROVE  Pending(r) \/ Issued(r)
  BY <1>1, <1>6, DatesRow, ClaimsRow, IssuesRow, DropsRow
     DEF Holds, Pending, Issued, Dates, Claims, Issues, Drops
<1>7. ASSUME NEW s \in Rows,
             (\E q \in Quotes : FilesInvoice(s, q)) \/ (\E i \in Rows : FilesNote(s, i)), s # r
      PROVE  Pending(r) \/ Issued(r)
  BY <1>1, <1>7, FilesInvoiceRow, FilesNoteRow DEF Holds, Pending, Issued
<1> QED
  BY <1>3, <1>4, <1>5, <1>6, <1>7, RowsAreWritten DEF RowWritten

LEMMA BilledStep ==
  ASSUME IInv, [Next]_vars
  PROVE  BilledSaleStands'
<1> DEFINE Stands(r) == /\ accepted[voucher[r].quote]
                        /\ BilledVersionShows(voucher[r].quote, voucher[r].version)
<1>1. /\ TypeOK /\ \A r \in Rows : Holds(r) => Stands(r)
      /\ \A r \in Rows : Holds(r) => voucher[r].quote \in Quotes
  BY DEF IInv, BilledSaleStands, Holds, VouchersAreFiled, Pending, Issued
<1>2. SUFFICES ASSUME NEW r \in Rows, Holds(r)' PROVE Stands(r)'
  BY DEF BilledSaleStands, Holds
<1>3. CASE SaleNext
  <2>1. Holds(r) /\ voucher' = voucher
    BY <1>2, <1>3, SaleWrites DEF Holds, Pending, Issued, Credited, NotesOf
  <2>2. ASSUME NEW q \in Quotes, NEW edit \in BOOLEAN, Reactivate(q, edit) PROVE Stands(r)'
    <3>1. voucher[r].quote # q
      BY <2>1, <2>2, LiveHolds DEF Reactivate
    <3> QED
      BY <1>1, <2>1, <2>2, <3>1 DEF Reactivate, BilledVersionShows, TypeOK
  <2>3. ASSUME NEW q \in Quotes,
               Accept(q) \/ SetArchived(q) \/ WaiveInvoice(q) \/ RestoreInvoiceWait(q)
        PROVE  Stands(r)'
    BY <1>1, <2>1, <2>3 DEF Accept, SetArchived, WaiveInvoice, RestoreInvoiceWait,
       BilledVersionShows, TypeOK
  <2>5. ASSUME NEW q \in Quotes, Price(q) \/ ChangeRequested(q) PROVE Stands(r)'
    <3>1. voucher[r].quote # q
      BY <1>1, <2>1, <2>5 DEF Price, ChangeRequested
    <3> QED
      BY <1>1, <2>1, <2>5, <3>1 DEF Price, ChangeRequested, BilledVersionShows, TypeOK
  <2>6. ASSUME NEW q \in Quotes, FoldVersion(q) PROVE Stands(r)'
    <3>1. CASE voucher[r].quote = q
      <4>1. accepted[q] /\ ~unpriced[q] /\ version[q] = voucher[r].version
        BY <1>1, <2>1, <2>6, <3>1 DEF FoldVersion, BilledVersionShows
      <4>2. accepted'[q] /\ unpriced'[q] /\ version'[q] = voucher[r].version + 1
        BY <1>1, <2>6, <4>1 DEF FoldVersion, TypeOK
      <4> QED
        BY <2>1, <3>1, <4>2 DEF BilledVersionShows
    <3>2. CASE voucher[r].quote # q
      BY <1>1, <2>1, <2>6, <3>2 DEF FoldVersion, BilledVersionShows, TypeOK
    <3> QED
      BY <3>1, <3>2
  <2>4. ASSUME SetInvoicingEnabled \/ DisconnectARCA \/ ConnectARCA PROVE Stands(r)'
    BY <1>1, <2>1, <2>4 DEF SetInvoicingEnabled, DisconnectARCA, ConnectARCA, BilledVersionShows,
       saleVars
  <2> QED
    BY <1>3, <2>2, <2>3, <2>4, <2>5, <2>6 DEF SaleNext
<1>4. CASE ~SaleNext
  <2>1. UNCHANGED <<accepted, version, unpriced>>
    BY <1>4, SaleIsKept DEF Next
  <2>2. CASE Holds(r) /\ SameVoucher(r)
    BY <1>1, <2>1, <2>2 DEF SameVoucher, BilledVersionShows
  <2>3. ASSUME NEW q \in Quotes, FilesInvoice(r, q) PROVE Stands(r)'
    BY <1>1, <2>1, <2>3, FilesInvoiceRow DEF FilesInvoice, NothingMissing, BilledVersionShows
  <2>4. ASSUME NEW i \in Rows, FilesNote(r, i) PROVE Stands(r)'
    <3>1. Stands(i)
      BY <1>1, <2>4 DEF FilesNote, Creditable, Holds
    <3>2. voucher'[r].quote = voucher[i].quote /\ voucher'[r].version = voucher[i].version
      BY <1>1, <2>4, FilesNoteRow
    <3> QED
      BY <2>1, <3>1, <3>2 DEF BilledVersionShows
  <2> QED
    BY <1>2, <2>2, <2>3, <2>4, HoldsIsFiled
<1> QED
  BY <1>3, <1>4

LEMMA ReachableStep ==
  ASSUME IInv, [Next]_vars
  PROVE  NoInvoiceWaitsUnreachable'
<1>1. TypeOK /\ NoInvoiceWaitsUnreachable
  BY DEF IInv
<1>2. SUFFICES ASSUME NEW r \in Rows, Pending(r)'
               PROVE  enabled' /\ (voucher'[r].kind = "INVOICE" => connected')
  BY DEF NoInvoiceWaitsUnreachable
<1>3. CASE SaleNext
  <2>1. Pending(r) /\ voucher' = voucher
    BY <1>2, <1>3, SaleWrites DEF Pending
  <2>2. CASE SetInvoicingEnabled \/ DisconnectARCA \/ ConnectARCA
    BY <1>1, <2>1, <2>2 DEF SetInvoicingEnabled, DisconnectARCA, ConnectARCA, HasPendingInvoice,
                            NoInvoiceWaitsUnreachable, TypeOK
  <2>3. CASE ~(SetInvoicingEnabled \/ DisconnectARCA \/ ConnectARCA)
    <3>1. UNCHANGED accountVars
      BY <1>3, <2>3 DEF SaleNext, Accept, Price, ChangeRequested, FoldVersion, SetArchived, WaiveInvoice, RestoreInvoiceWait, Reactivate
    <3> QED
      BY <1>1, <2>1, <3>1 DEF NoInvoiceWaitsUnreachable, accountVars
  <2> QED
    BY <2>2, <2>3
<1>4. CASE ~SaleNext
  <2>1. UNCHANGED <<enabled, connected>>
    BY <1>4, SaleIsKept DEF Next, accountVars
  <2>2. CASE Holds(r) /\ SameVoucher(r)
    <3>1. Pending(r)
      <4>1. Issued(r) => voucher'[r] = voucher[r]
        BY RowsAreKept DEF Kept
      <4> QED
        BY <1>2, <2>2, <4>1 DEF Holds, Pending, Issued
    <3> QED
      BY <1>1, <2>1, <2>2, <3>1 DEF NoInvoiceWaitsUnreachable, SameVoucher
  <2>3. CASE \E q \in Quotes : FilesInvoice(r, q)
    BY <2>1, <2>3 DEF FilesInvoice, NothingMissing
  <2>4. CASE \E i \in Rows : FilesNote(r, i)
    BY <1>1, <2>1, <2>4, FilesNoteRow DEF FilesNote
  <2>5. Holds(r)'
    BY <1>2 DEF Holds
  <2> QED
    BY <2>2, <2>3, <2>4, <2>5, HoldsIsFiled
<1> QED
  BY <1>3, <1>4

LEMMA WaivedStep ==
  ASSUME IInv, [Next]_vars
  PROVE  WaivedIsNotBilled'
<1>1. TypeOK /\ WaivedIsNotBilled /\ \A r \in Rows : Kept(r)
  BY RowsAreKept DEF IInv
<1>2. SUFFICES ASSUME NEW r \in Rows, Creditable(r)' PROVE ~waived'[voucher'[r].quote]
  BY DEF WaivedIsNotBilled
<1>3. ASSUME Issued(r)
      PROVE  /\ Creditable(r) /\ Holds(r) /\ voucher'[r].quote = voucher[r].quote
             /\ voucher[r].quote \in Quotes
  <2>1. Credited(r) => Credited(r)'
    BY <1>1, CreditedRow DEF Kept, Issued
  <2> QED
    BY <1>1, <1>2, <1>3, <2>1 DEF Creditable, Kept, SameVoucher, Issued, Holds, IInv, VouchersAreFiled
<1>4. CASE SaleNext
  <2>1. Issued(r)
    BY <1>2, <1>4, SaleWrites DEF Creditable, Issued
  <2>2. ASSUME NEW q \in Quotes, WaiveInvoice(q) PROVE ~waived'[voucher'[r].quote]
    <3>1. voucher[r].quote # q
      BY <1>3, <2>1, <2>2, LiveHolds DEF WaiveInvoice
    <3> QED
      BY <1>1, <1>3, <2>1, <2>2, <3>1 DEF WaiveInvoice, WaivedIsNotBilled, TypeOK
  <2>3. ASSUME \A q \in Quotes : ~WaiveInvoice(q) PROVE \A q \in Quotes : waived'[q] => waived[q]
    <3>1. waived \in [Quotes -> BOOLEAN]
      BY <1>1 DEF TypeOK
    <3> QED
      BY <1>4, <2>3, <3>1 DEF SaleNext, Accept, Price, ChangeRequested, FoldVersion, SetArchived, RestoreInvoiceWait, Reactivate,
                              SetInvoicingEnabled, DisconnectARCA, ConnectARCA, saleVars
  <2> QED
    BY <1>1, <1>3, <2>1, <2>2, <2>3 DEF WaivedIsNotBilled
<1>5. CASE ~SaleNext
  <2>1. \A q \in Quotes : waived'[q] => waived[q]
    BY <1>5, SaleIsKept DEF Next
  <2>2. CASE Issued(r)
    BY <1>1, <1>3, <2>1, <2>2 DEF WaivedIsNotBilled
  <2>3. CASE ~Issued(r)
    <3>1. Holds(r)' /\ voucher'[r].status = "ISSUED" /\ voucher'[r].kind = "INVOICE"
      BY <1>2 DEF Holds, Creditable, Issued
    <3>2. Pending(r)
      BY <1>1, <2>3, <3>1, HoldsIsFiled, FilesInvoiceRow, FilesNoteRow DEF Holds
    <3>3. Issues(r)
      <4>1. ~UNCHANGED voucher
        BY <2>3, <3>1 DEF Issued
      <4>2. PICK s \in Rows :
              \/ Dates(s) \/ Claims(s) \/ Issues(s) \/ Drops(s)
              \/ \E q \in Quotes : FilesInvoice(s, q)
              \/ \E i \in Rows : FilesNote(s, i)
        BY <4>1, RowsAreWritten DEF RowWritten
      <4> QED
        BY <1>1, <3>1, <3>2, <4>2, DatesRow, ClaimsRow, IssuesRow, DropsRow, FilesInvoiceRow, FilesNoteRow
           DEF Pending
    <3>4. waived' = [waived EXCEPT ![voucher[r].quote] = FALSE] /\ voucher'[r].quote = voucher[r].quote
      BY <1>1, <3>1, <3>3, IssuesRow DEF Issues, SameVoucher
    <3>5. voucher[r].quote \in Quotes
      BY <3>2 DEF IInv, VouchersAreFiled, Pending
    <3> QED
      BY <1>1, <3>4, <3>5 DEF TypeOK
  <2> QED
    BY <2>2, <2>3
<1> QED
  BY <1>4, <1>5

-----------------------------------------------------------------------------
(* How a handler's job moves *)

JobEnds(w) ==
  /\ worker'[w] = Idle
  /\ \A x \in Workers : x # w => worker'[x] = worker[x]

JobGoes(w, pc, number, verdict) ==
  /\ worker'[w].pc = pc /\ worker'[w].number = number /\ worker'[w].verdict = verdict
  /\ worker'[w].row = worker[w].row /\ worker'[w].quote = worker[w].quote
  /\ worker'[w].invoice = worker[w].invoice
  /\ \A x \in Workers : x # w => worker'[x] = worker[x]

(* The job opens the sale, or the row to recover first. *)
JobOpens(w, quote, invoice) ==
  /\ worker[w] = Idle
  /\ worker'[w].quote = quote /\ worker'[w].invoice = invoice
  /\ \/ worker'[w].pc = "holding" /\ worker'[w].row = 0
     \/ \E r \in Rows : /\ worker'[w].pc = "leasing" /\ worker'[w].row = r /\ Pending(r)
                        /\ worker'[w].number = voucher[r].claimed
  /\ \A x \in Workers : x # w => worker'[x] = worker[x]

LEMMA EndsJob ==
  ASSUME TypeOK, NEW w \in Workers, Goes(w, Idle)
  PROVE  JobEnds(w)
BY IdleIsAJob, JobType DEF JobEnds

LEMMA VerdictJob ==
  ASSUME TypeOK, NEW w \in Workers,
         NEW what \in {"authorized", "rejected", "failed", "unknown"}, Verdict(w, what)
  PROVE  JobGoes(w, "settling", worker[w].number, what)
<1> DEFINE job == [worker[w] EXCEPT !.pc = "settling", !.verdict = what]
<1>1. /\ job.pc = "settling" /\ job.number = worker[w].number /\ job.verdict = what
      /\ job.row = worker[w].row /\ job.quote = worker[w].quote /\ job.invoice = worker[w].invoice
  BY JobFields DEF WorkerType
<1>2. job \in WorkerType
  BY VerdictIsAJob
<1> HIDE DEF job
<1>3. worker'[w] = job /\ \A x \in Workers : x # w => worker'[x] = worker[x]
  BY <1>2, JobType DEF Verdict, job
<1> QED
  BY <1>1, <1>3 DEF JobGoes

LEMMA PhaseJob ==
  ASSUME TypeOK, NEW w \in Workers, NEW pc \in {"reading", "asking", "waiting", "consulting"},
         Goes(w, [worker[w] EXCEPT !.pc = pc])
  PROVE  JobGoes(w, pc, worker[w].number, worker[w].verdict)
<1> DEFINE job == [worker[w] EXCEPT !.pc = pc]
<1>1. /\ job.pc = pc /\ job.number = worker[w].number /\ job.verdict = worker[w].verdict
      /\ job.row = worker[w].row /\ job.quote = worker[w].quote /\ job.invoice = worker[w].invoice
  BY JobFields DEF WorkerType
<1>2. job \in WorkerType
  BY JobFields DEF WorkerType
<1> HIDE DEF job
<1>3. worker'[w] = job /\ \A x \in Workers : x # w => worker'[x] = worker[x]
  BY <1>2, JobType DEF job
<1> QED
  BY <1>1, <1>3 DEF JobGoes

LEMMA ReadBackJob ==
  ASSUME TypeOK, NEW w \in Workers, ReadBack(w)
  PROVE  JobGoes(w, "closing", worker[w].number, OnRecord(worker[w].row, worker[w].number))
<1> DEFINE what == OnRecord(worker[w].row, worker[w].number)
           job == [worker[w] EXCEPT !.pc = "closing", !.verdict = what]
<1>1. what \in {"ours", "other", "nothing"}
  BY DEF OnRecord
<1> HIDE DEF what
<1>2. /\ job.pc = "closing" /\ job.number = worker[w].number /\ job.verdict = what
      /\ job.row = worker[w].row /\ job.quote = worker[w].quote /\ job.invoice = worker[w].invoice
  BY JobFields DEF WorkerType
<1>3. job \in WorkerType
  BY <1>1, JobFields DEF WorkerType
<1> HIDE DEF job
<1>4. worker'[w] = job /\ \A x \in Workers : x # w => worker'[x] = worker[x]
  BY <1>3, JobType DEF ReadBack, job, what
<1> QED
  BY <1>2, <1>4 DEF JobGoes, what

LEMMA NumberJob ==
  ASSUME TypeOK, NEW w \in Workers, NEW n \in Nat,
         Goes(w, [worker[w] EXCEPT !.pc = "claiming", !.number = n])
  PROVE  JobGoes(w, "claiming", n, worker[w].verdict)
<1> DEFINE job == [worker[w] EXCEPT !.pc = "claiming", !.number = n]
<1>1. /\ job.pc = "claiming" /\ job.number = n /\ job.verdict = worker[w].verdict
      /\ job.row = worker[w].row /\ job.quote = worker[w].quote /\ job.invoice = worker[w].invoice
  BY JobFields DEF WorkerType
<1>2. job \in WorkerType
  BY JobFields DEF WorkerType
<1> HIDE DEF job
<1>3. worker'[w] = job /\ \A x \in Workers : x # w => worker'[x] = worker[x]
  BY <1>2, JobType DEF job
<1> QED
  BY <1>1, <1>3 DEF JobGoes

LEMMA RenumberJob ==
  ASSUME TypeOK, NEW w \in Workers,
         Goes(w, [worker[w] EXCEPT !.pc = "numbering", !.renumbered = TRUE])
  PROVE  JobGoes(w, "numbering", worker[w].number, worker[w].verdict)
<1> DEFINE job == [worker[w] EXCEPT !.pc = "numbering", !.renumbered = TRUE]
<1>1. /\ job.pc = "numbering" /\ job.number = worker[w].number /\ job.verdict = worker[w].verdict
      /\ job.row = worker[w].row /\ job.quote = worker[w].quote /\ job.invoice = worker[w].invoice
  BY JobFields DEF WorkerType
<1>2. job \in WorkerType
  BY JobFields DEF WorkerType
<1> HIDE DEF job
<1>3. worker'[w] = job /\ \A x \in Workers : x # w => worker'[x] = worker[x]
  BY <1>2, JobType DEF job
<1> QED
  BY <1>1, <1>3 DEF JobGoes

LEMMA OpenedJob ==
  ASSUME TypeOK, NEW w \in Workers, worker[w] = Idle, NEW job \in WorkerType, job.row = 0,
         NEW pending \in Rows \cup {0}, pending # 0 => Pending(pending), Goes(w, Opened(job, pending))
  PROVE  /\ JobOpens(w, job.quote, job.invoice)
         /\ pending # 0 => worker'[w].pc = "leasing"
<1> DEFINE next == Opened(job, pending)
<1>1. next \in WorkerType
  BY OpenedIsAJob
<1>2. next.quote = job.quote /\ next.invoice = job.invoice
  BY DEF Opened, WorkerType
<1>3. pending = 0 => next.pc = "holding" /\ next.row = 0
  BY DEF Opened, WorkerType
<1>4. pending # 0 => next.pc = "leasing" /\ next.row = pending /\ next.number = voucher[pending].claimed
  BY DEF Opened, WorkerType
<1> HIDE DEF next
<1>5. worker'[w] = next /\ \A x \in Workers : x # w => worker'[x] = worker[x]
  BY <1>1, JobType DEF next
<1> QED
  BY <1>2, <1>3, <1>4, <1>5 DEF JobOpens

LEMMA OpensJob ==
  ASSUME IInv, NEW w \in Workers,
         \/ \E q \in Quotes : IssueOpens(w, q)
         \/ \E r \in Rows : CreditNoteOpens(w, r) \/ RecoverOpens(w, r)
  PROVE  /\ UNCHANGED <<voucher, arca, wire>>
         /\ \/ \E q \in Quotes : JobOpens(w, q, 0)
            \/ \E i \in Rows : Creditable(i) /\ JobOpens(w, voucher[i].quote, i)
            \/ JobOpens(w, NoQuote, 0) /\ worker'[w].pc = "leasing"
<1>1. TypeOK
  BY DEF IInv
<1>2. ASSUME NEW q \in Quotes, IssueOpens(w, q) PROVE JobOpens(w, q, 0)
  <2> DEFINE latest == LatestByQuote(q)
             stale == IF latest # 0 /\ Pending(latest) THEN latest ELSE 0
             job == [Idle EXCEPT !.quote = q, !.version = version[q]]
  <2>1. latest \in Rows \cup {0}
    BY NewestIsOne DEF LatestByQuote, InvoicesOf
  <2>2. job \in WorkerType /\ job.row = 0 /\ job.quote = q /\ job.invoice = 0
    BY <1>1 DEF TypeOK, Idle, WorkerType
  <2>3. worker[w] = Idle /\ Goes(w, Opened(job, stale))
    BY <1>2 DEF IssueOpens
  <2>4. stale \in Rows \cup {0} /\ (stale # 0 => Pending(stale))
    BY <2>1
  <2> HIDE DEF stale, job
  <2>5. JobOpens(w, job.quote, job.invoice)
    BY <1>1, <2>2, <2>3, <2>4, OpenedJob
  <2> QED
    BY <2>2, <2>5
<1>3. ASSUME NEW i \in Rows, CreditNoteOpens(w, i) PROVE Creditable(i) /\ JobOpens(w, voucher[i].quote, i)
  <2> DEFINE note == Newest(NotesOf(i))
             stale == IF note # 0 /\ Pending(note) THEN note ELSE 0
             job == [Idle EXCEPT !.quote = voucher[i].quote, !.invoice = i]
  <2>1. note \in Rows \cup {0}
    BY NewestIsOne DEF NotesOf
  <2>2. job \in WorkerType /\ job.row = 0 /\ job.quote = voucher[i].quote /\ job.invoice = i
    BY <1>1, RowType, RowsAreNumbers DEF Idle, WorkerType, VoucherType
  <2>3. worker[w] = Idle /\ Creditable(i) /\ Goes(w, Opened(job, stale))
    BY <1>3 DEF CreditNoteOpens
  <2>4. stale \in Rows \cup {0} /\ (stale # 0 => Pending(stale))
    BY <2>1
  <2> HIDE DEF stale, job
  <2>5. JobOpens(w, job.quote, job.invoice)
    BY <1>1, <2>2, <2>3, <2>4, OpenedJob
  <2> QED
    BY <2>2, <2>3, <2>5
<1>4. ASSUME NEW r \in Rows, RecoverOpens(w, r)
      PROVE  JobOpens(w, NoQuote, 0) /\ worker'[w].pc = "leasing"
  <2>1. Idle.row = 0 /\ Idle.quote = NoQuote /\ Idle.invoice = 0
    BY DEF Idle
  <2>2. r # 0 /\ Pending(r) /\ worker[w] = Idle /\ Goes(w, Opened(Idle, r))
    BY <1>4, RowsAreNumbers DEF RecoverOpens
  <2>3. JobOpens(w, Idle.quote, Idle.invoice) /\ worker'[w].pc = "leasing"
    BY <1>1, <2>1, <2>2, IdleIsAJob, OpenedJob
  <2> QED
    BY <2>1, <2>3
<1> QED
  BY <1>2, <1>3, <1>4 DEF IssueOpens, CreditNoteOpens, RecoverOpens

-----------------------------------------------------------------------------
(* What handlers know, while rows, series and requests stay as they are *)

HandlersInv == JobsHoldRows /\ HandlersDoNotCross /\ RequestsFollow /\ NumbersFollow /\ VerdictsFollow

LEMMA SameView ==
  ASSUME UNCHANGED <<voucher, arca>>
  PROVE  /\ \A r : (Pending(r)' <=> Pending(r)) /\ (Issued(r)' <=> Issued(r))
         /\ \A r : Unborne(r)' <=> Unborne(r)
         /\ \A r, n : Bears(r, n)' <=> Bears(r, n)
BY DEF Pending, Issued, Unborne, Bears

LEMMA SameFound ==
  ASSUME UNCHANGED <<voucher, arca>>, NEW x \in Workers, worker'[x] = worker[x]
  PROVE  Found(worker[x])' <=> Found(worker[x])
BY SameView DEF Found, Matches

LEMMA IdleIsIdle ==
  /\ Idle.pc = "idle" /\ Idle.row = 0 /\ Idle.invoice = 0 /\ Idle.quote = NoQuote
BY DEF Idle

LEMMA SaleHandlers ==
  ASSUME IInv, UNCHANGED <<voucher, arca, wire, worker>>
  PROVE  HandlersInv'
<1>1. JobsHoldRows' /\ HandlersDoNotCross'
  BY SameView DEF IInv, JobsHoldRows, HandlersDoNotCross
<1>2. RequestsFollow' /\ NumbersFollow'
  BY SameView DEF IInv, RequestsFollow, NumbersFollow
<1>3. VerdictsFollow'
  BY SameView DEF IInv, VerdictsFollow, Found, Matches
<1> QED
  BY <1>1, <1>2, <1>3 DEF HandlersInv

LEMMA EndsHandlers ==
  ASSUME IInv, NEW w \in Workers, JobEnds(w), worker[w].pc # "waiting", UNCHANGED <<voucher, arca, wire>>
  PROVE  HandlersInv'
<1>1. JobsHoldRows'
  BY SameView, IdleIsIdle DEF IInv, JobsHoldRows, JobEnds
<1>2. HandlersDoNotCross'
  BY SameView, IdleIsIdle DEF IInv, HandlersDoNotCross, JobEnds, Issuing, ToArca
<1>3. RequestsFollow'
  BY SameView, IdleIsIdle DEF IInv, RequestsFollow, JobEnds
<1>4. NumbersFollow'
  BY SameView, IdleIsIdle DEF IInv, NumbersFollow, JobEnds
<1>5. VerdictsFollow'
  BY SameView, IdleIsIdle DEF IInv, VerdictsFollow, JobEnds, Found, Matches
<1> QED
  BY <1>1, <1>2, <1>3, <1>4, <1>5 DEF HandlersInv

LEMMA OpensHandlers ==
  ASSUME IInv, NEW w \in Workers,
         \/ \E q \in Quotes : IssueOpens(w, q)
         \/ \E r \in Rows : CreditNoteOpens(w, r) \/ RecoverOpens(w, r)
  PROVE  HandlersInv'
<1>1. UNCHANGED <<voucher, arca, wire>>
  BY OpensJob
<1>2. PICK quote, invoice :
        /\ JobOpens(w, quote, invoice)
        /\ quote \in Quotes \/ worker'[w].pc = "leasing"
        /\ invoice # 0 => /\ invoice \in Rows /\ Issued(invoice) /\ voucher[invoice].kind = "INVOICE"
                          /\ voucher[invoice].quote = quote
  <2>1. \A i \in Rows : Creditable(i) =>
          Issued(i) /\ voucher[i].kind = "INVOICE" /\ voucher[i].quote \in Quotes
    BY DEF Creditable, IInv, VouchersAreFiled, Issued
  <2> QED
    BY <2>1, OpensJob
<1>3. worker[w].pc = "idle"
  BY <1>2, IdleIsIdle DEF JobOpens
<1>4. \A r \in Rows : Pending(r) => voucher[r].status # "NONE"
  BY DEF Pending
<1>5. JobsHoldRows'
  BY <1>1, <1>2, <1>4, SameView DEF IInv, JobsHoldRows, JobOpens
<1>6. HandlersDoNotCross'
  BY <1>1, <1>2, SameView DEF IInv, HandlersDoNotCross, JobOpens, Issuing, ToArca
<1>7. RequestsFollow'
  BY <1>1, <1>2, <1>3, SameView DEF IInv, RequestsFollow, JobOpens
<1>8. NumbersFollow'
  BY <1>1, <1>2, SameView DEF IInv, NumbersFollow, JobOpens
<1>9. VerdictsFollow'
  BY <1>1, <1>2, SameView, SMTT(30) DEF IInv, VerdictsFollow, JobOpens, Found, Matches
<1> QED
  BY <1>5, <1>6, <1>7, <1>8, <1>9 DEF HandlersInv

LEMMA ReadBackHandlers ==
  ASSUME IInv, NEW w \in Workers, ReadBack(w)
  PROVE  HandlersInv'
<1> DEFINE r == worker[w].row
           n == worker[w].number
<1>1. /\ UNCHANGED <<voucher, arca, wire>> /\ worker[w].pc = "reading"
      /\ JobGoes(w, "closing", n, OnRecord(r, n)) /\ TypeOK
  BY ReadBackJob DEF IInv, ReadBack
<1>2. r \in Rows /\ n \in Nat
  BY <1>1, JobFields DEF IInv, JobsHoldRows
<1>3. /\ OnRecord(r, n) \in {"ours", "other", "nothing"}
      /\ OnRecord(r, n) = "ours" =>
           n \in 1..Len(arca[voucher[r].kind]) /\ Matches(arca[voucher[r].kind][n], r)
      /\ OnRecord(r, n) = "nothing" => n \notin 1..Len(arca[voucher[r].kind])
  <2>1. Len(arca[voucher[r].kind]) \in Nat
    BY <1>1, <1>2, RowType
  <2> QED
    BY <1>2, <2>1 DEF OnRecord
<1>4. Pending(r) => n = voucher[r].claimed
  BY <1>1 DEF IInv, NumbersFollow
<1>5. OnRecord(r, n) = "nothing" /\ Pending(r) => Unborne(r)
  BY <1>2, <1>3, <1>4 DEF IInv, NothingAuthorizedIsLost, Unborne, Pending, Issued
<1>6. JobsHoldRows'
  BY <1>1, SameView DEF IInv, JobsHoldRows, JobGoes
<1>7. HandlersDoNotCross'
  BY <1>1, SameView DEF IInv, HandlersDoNotCross, JobGoes, Issuing, ToArca
<1>8. RequestsFollow'
  BY <1>1, SameView DEF IInv, RequestsFollow, JobGoes
<1>9. NumbersFollow'
  BY <1>1, SameView DEF IInv, NumbersFollow, JobGoes
<1>10. VerdictsFollow'
  <2>1. OnRecord(r, n) = "ours" => Found(worker[w])'
    BY <1>1, <1>3, <1>4, SameView DEF JobGoes, Found, Matches
  <2>2. \A x \in Workers : x # w => (Found(worker[x])' <=> Found(worker[x]))
    BY <1>1, SameFound DEF JobGoes
  <2> QED
    BY <1>1, <1>3, <1>5, <2>1, <2>2, SameView DEF IInv, VerdictsFollow, JobGoes
<1> QED
  BY <1>6, <1>7, <1>8, <1>9, <1>10 DEF HandlersInv

(* A verdict reached without another word to ARCA. *)
LEMMA FailsHandlers ==
  ASSUME IInv, NEW w \in Workers, worker[w].pc \in {"numbering", "claiming"},
         UNCHANGED <<voucher, arca, wire>>, JobGoes(w, "settling", worker[w].number, "failed")
  PROVE  HandlersInv'
<1>1. Unborne(worker[w].row) /\ wire[worker[w].row] = "none"
  BY DEF IInv, NumbersFollow, RequestsFollow
<1>2. JobsHoldRows'
  BY SameView DEF IInv, JobsHoldRows, JobGoes
<1>3. HandlersDoNotCross'
  BY SameView DEF IInv, HandlersDoNotCross, JobGoes, Issuing, ToArca
<1>4. RequestsFollow'
  BY SameView DEF IInv, RequestsFollow, JobGoes
<1>5. NumbersFollow'
  BY SameView DEF IInv, NumbersFollow, JobGoes
<1>6. VerdictsFollow'
  BY <1>1, SameView, SMTT(30) DEF IInv, VerdictsFollow, JobGoes, Found, Matches
<1> QED
  BY <1>2, <1>3, <1>4, <1>5, <1>6 DEF HandlersInv

LEMMA TakeNumberHandlers ==
  ASSUME IInv, NEW w \in Workers, TakeNumber(w)
  PROVE  HandlersInv'
<1> DEFINE r == worker[w].row
           last == Len(arca[voucher[r].kind])
           n == last + 1
<1>1. /\ UNCHANGED <<voucher, arca, wire>> /\ worker[w].pc = "numbering" /\ TypeOK
      /\ r \in Rows
  BY DEF IInv, TakeNumber, JobsHoldRows
<1>2. n \in Nat /\ n >= 1 /\ ~(n <= last)
  <2>1. last \in Nat
    BY <1>1, RowType
  <2> HIDE DEF last
  <2> QED
    BY <2>1
<1>3. CASE Verdict(w, "failed")
  BY <1>1, <1>3, VerdictJob, FailsHandlers
<1>4. CASE Goes(w, [worker[w] EXCEPT !.pc = "claiming", !.number = n])
  <2>1. JobGoes(w, "claiming", n, worker[w].verdict)
    BY <1>1, <1>2, <1>4, NumberJob
  <2>2. JobsHoldRows'
    BY <1>1, <2>1, SameView DEF IInv, JobsHoldRows, JobGoes
  <2>3. HandlersDoNotCross'
    BY <1>1, <2>1, SameView DEF IInv, HandlersDoNotCross, JobGoes, Issuing, ToArca
  <2>4. RequestsFollow'
    BY <1>1, <2>1, SameView DEF IInv, RequestsFollow, JobGoes
  <2>5. NumbersFollow'
    BY <1>1, <1>2, <2>1, SameView, SMTT(30) DEF IInv, NumbersFollow, JobGoes
  <2>6. VerdictsFollow'
    BY <1>1, <2>1, SameView, SMTT(30) DEF IInv, VerdictsFollow, JobGoes, Found, Matches
  <2> QED
    BY <2>2, <2>3, <2>4, <2>5, <2>6 DEF HandlersInv
<1> QED
  BY <1>3, <1>4 DEF TakeNumber

LEMMA ConsultHandlers ==
  ASSUME IInv, NEW w \in Workers, RecoverIssued(w)
  PROVE  HandlersInv'
<1> DEFINE r == worker[w].row
           n == worker[w].number
<1>1. UNCHANGED <<voucher, arca, wire>> /\ worker[w].pc = "consulting" /\ TypeOK /\ r \in Rows
  BY DEF IInv, RecoverIssued, JobsHoldRows
<1>2. PICK what \in {"authorized", "unknown"} :
        JobGoes(w, "settling", n, what) /\ (what = "authorized" => OnRecord(r, n) = "ours")
  BY <1>1, VerdictJob DEF RecoverIssued
<1>3. OnRecord(r, n) = "ours" =>
        n \in 1..Len(arca[voucher[r].kind]) /\ Matches(arca[voucher[r].kind][n], r)
  <2>1. Len(arca[voucher[r].kind]) \in Nat /\ n \in Nat
    BY <1>1, RowType, JobFields
  <2> QED
    BY <2>1 DEF OnRecord
<1>4. n = voucher[r].claimed
  BY <1>1 DEF IInv, NumbersFollow
<1>5. JobsHoldRows'
  BY <1>1, <1>2, SameView DEF IInv, JobsHoldRows, JobGoes
<1>6. HandlersDoNotCross'
  BY <1>1, <1>2, SameView DEF IInv, HandlersDoNotCross, JobGoes, Issuing, ToArca
<1>7. RequestsFollow'
  BY <1>1, <1>2, SameView DEF IInv, RequestsFollow, JobGoes
<1>8. NumbersFollow'
  BY <1>1, <1>2, SameView DEF IInv, NumbersFollow, JobGoes
<1>9. VerdictsFollow'
  <2>1. what = "authorized" => Found(worker[w])'
    BY <1>1, <1>2, <1>3, <1>4, SameView DEF JobGoes, Found, Matches
  <2>2. \A x \in Workers : x # w => (Found(worker[x])' <=> Found(worker[x]))
    BY <1>1, <1>2, SameFound DEF JobGoes
  <2> QED
    BY <1>1, <1>2, <2>1, <2>2, SameView DEF IInv, VerdictsFollow, JobGoes
<1> QED
  BY <1>5, <1>6, <1>7, <1>8, <1>9 DEF HandlersInv

-----------------------------------------------------------------------------
(* What handlers know, when a request is sent, answered or given up *)

LEMMA WireRow ==
  ASSUME TypeOK, NEW r \in Rows, NEW what, wire' = [wire EXCEPT ![r] = what]
  PROVE  wire'[r] = what /\ \A s \in Rows : s # r => wire'[s] = wire[s]
BY DEF TypeOK

LEMMA HangUpRow ==
  ASSUME TypeOK, NEW r \in Rows, HangUp(r)
  PROVE  /\ wire'[r] = IF wire[r] = "sent" THEN "sent" ELSE "none"
         /\ \A s \in Rows : s # r => wire'[s] = wire[s]
BY DEF TypeOK, HangUp

LEMMA JobRow ==
  ASSUME IInv, NEW w \in Workers, worker[w].pc \notin {"idle", "holding"}
  PROVE  TypeOK /\ worker[w].row \in Rows /\ voucher[worker[w].row].status # "NONE"
BY DEF IInv, JobsHoldRows

(* Whoever issues a row is alone with it, up to ARCA's answer. *)
LEMMA AloneWithRow ==
  ASSUME IInv, NEW w \in Workers, worker[w].pc \in ToArca
  PROVE  /\ Pending(worker[w].row) /\ ~voucher[worker[w].row].stale
         /\ \A x \in Workers : x # w /\ worker[x].row = worker[w].row =>
              worker[x].pc \notin Issuing \cup {"reading", "closing"}
BY DEF IInv, HandlersDoNotCross, Issuing

LEMMA SolicitarHandlers ==
  ASSUME IInv, NEW w \in Workers, Solicitar(w)
  PROVE  HandlersInv'
<1> DEFINE r == worker[w].row
<1>1. UNCHANGED <<voucher, arca>> /\ worker[w].pc = "asking" /\ TypeOK /\ r \in Rows
  BY JobRow DEF Solicitar
<1>2. JobGoes(w, "waiting", worker[w].number, worker[w].verdict)
  BY <1>1, PhaseJob DEF Solicitar
<1>3. wire'[r] = "sent" /\ \A s \in Rows : s # r => wire'[s] = wire[s]
  BY <1>1, WireRow DEF Solicitar
<1>4. /\ Pending(r) /\ ~voucher[r].stale
      /\ \A x \in Workers : x # w /\ worker[x].row = r =>
           worker[x].pc \notin Issuing \cup {"reading", "closing"}
  BY <1>1, AloneWithRow DEF ToArca
<1>5. voucher[r].claimed >= 1 /\ Unborne(r) /\ worker[w].number = voucher[r].claimed
  BY <1>1 DEF IInv, NumbersFollow
<1>6. \A x \in Workers : worker[x].pc \notin {"idle", "holding"} => worker[x].row \in Rows
  BY DEF IInv, JobsHoldRows
<1>7. JobsHoldRows'
  BY <1>1, <1>2, SameView DEF IInv, JobsHoldRows, JobGoes
<1>8. HandlersDoNotCross'
  BY <1>1, <1>2, <1>3, <1>4, SameView DEF IInv, HandlersDoNotCross, JobGoes, Issuing, ToArca
<1>9. RequestsFollow'
  BY <1>1, <1>2, <1>3, <1>4, <1>5, <1>6, SameView DEF IInv, RequestsFollow, JobGoes, Issuing, ToArca, Pending
<1>10. NumbersFollow'
  BY <1>1, <1>2, <1>5, SameView DEF IInv, NumbersFollow, JobGoes
<1>11. VerdictsFollow'
  <2>1. \A x \in Workers : x # w => (Found(worker[x])' <=> Found(worker[x]))
    BY <1>1, <1>2, SameFound DEF JobGoes
  <2> QED
    BY <1>1, <1>2, <1>3, <1>4, <1>6, <2>1, SameView DEF IInv, VerdictsFollow, JobGoes, Issuing, ToArca
<1> QED
  BY <1>7, <1>8, <1>9, <1>10, <1>11 DEF HandlersInv

(* What an answer tells the handler that waits for it. *)
LEMMA AnswerIsForTheRow ==
  ASSUME IInv, NEW w \in Workers, worker[w].pc = "waiting", wire[worker[w].row] # "none",
         wire[worker[w].row] # "sent"
  PROVE  /\ wire[worker[w].row] = "authorized" => Found(worker[w])
         /\ wire[worker[w].row] # "authorized" => Unborne(worker[w].row)
         /\ wire[worker[w].row] \in {"authorized", "taken", "refused", "ticket"}
<1> DEFINE r == worker[w].row
<1>1. TypeOK /\ r \in Rows /\ r # 0 /\ worker[w].number = voucher[r].claimed
  BY JobRow, RowsAreNumbers DEF IInv, NumbersFollow
<1>2. IF wire[r] = "authorized" THEN Bears(r, voucher[r].claimed) ELSE Unborne(r)
  BY <1>1 DEF IInv, RequestsFollow
<1>3. wire[r] \in {"authorized", "taken", "refused", "ticket"}
  BY <1>1, RowType DEF Wires
<1>4. ASSUME Bears(r, voucher[r].claimed) PROVE Found(worker[w])
  <2>1. voucher[r].kind \in Kinds
    BY <1>1, RowType
  <2>2. arca[voucher[r].kind][voucher[r].claimed].shows = voucher[r].quote
    BY <1>1, <1>4, <2>1 DEF IInv, ArcaIsFiled, Bears
  <2> QED
    BY <1>1, <1>4, <2>2 DEF Found, Matches, Bears
<1> QED
  BY <1>2, <1>3, <1>4

LEMMA AnsweredHandlers ==
  ASSUME IInv, NEW w \in Workers, Answered(w)
  PROVE  HandlersInv'
<1> DEFINE r == worker[w].row
<1>1. UNCHANGED <<voucher, arca>> /\ worker[w].pc = "waiting" /\ TypeOK /\ r \in Rows
  BY JobRow DEF Answered
<1>2. wire'[r] = "none" /\ \A s \in Rows : s # r => wire'[s] = wire[s]
  BY <1>1, WireRow DEF Answered
<1>3. /\ Pending(r) /\ ~voucher[r].stale
      /\ \A x \in Workers : x # w /\ worker[x].row = r =>
           worker[x].pc \notin Issuing \cup {"reading", "closing"}
  BY <1>1, AloneWithRow DEF ToArca
<1>4. /\ wire[r] = "authorized" => Found(worker[w])
      /\ wire[r] # "authorized" => Unborne(r)
      /\ wire[r] \in {"authorized", "taken", "refused", "ticket"}
  BY <1>1, AnswerIsForTheRow DEF Answered
<1>5. \/ JobGoes(w, "numbering", worker[w].number, worker[w].verdict) /\ Unborne(r)
      \/ JobGoes(w, "settling", worker[w].number, "authorized") /\ Found(worker[w])
      \/ \E what \in {"rejected", "failed"} : JobGoes(w, "settling", worker[w].number, what) /\ Unborne(r)
  BY <1>1, <1>4, VerdictJob, RenumberJob DEF Answered
<1>6. \A x \in Workers : worker[x].pc \notin {"idle", "holding"} => worker[x].row \in Rows
  BY DEF IInv, JobsHoldRows
<1>7. \A x \in Workers : x # w => (Found(worker[x])' <=> Found(worker[x]))
  BY <1>1, <1>5, SameFound DEF JobGoes
<1>8. CASE JobGoes(w, "numbering", worker[w].number, worker[w].verdict) /\ Unborne(r)
  <2>1. JobsHoldRows'
    BY <1>1, <1>8, SameView DEF IInv, JobsHoldRows, JobGoes
  <2>2. HandlersDoNotCross'
    BY <1>1, <1>2, <1>8, SameView DEF IInv, HandlersDoNotCross, JobGoes, Issuing, ToArca
  <2>3. RequestsFollow'
    BY <1>1, <1>2, <1>6, <1>8, SameView DEF IInv, RequestsFollow, JobGoes
  <2>4. NumbersFollow'
    BY <1>1, <1>8, SameView DEF IInv, NumbersFollow, JobGoes
  <2>5. VerdictsFollow'
    BY <1>1, <1>2, <1>6, <1>7, <1>8, SameView DEF IInv, VerdictsFollow, JobGoes
  <2> QED
    BY <2>1, <2>2, <2>3, <2>4, <2>5 DEF HandlersInv
<1>9. ASSUME NEW what \in {"authorized", "rejected", "failed"},
             JobGoes(w, "settling", worker[w].number, what),
             IF what = "authorized" THEN Found(worker[w]) ELSE Unborne(r)
      PROVE  HandlersInv'
  <2>1. JobsHoldRows'
    BY <1>1, <1>9, SameView DEF IInv, JobsHoldRows, JobGoes
  <2>2. HandlersDoNotCross'
    BY <1>1, <1>2, <1>9, SameView DEF IInv, HandlersDoNotCross, JobGoes, Issuing, ToArca
  <2>3. RequestsFollow'
    BY <1>1, <1>2, <1>6, <1>9, SameView DEF IInv, RequestsFollow, JobGoes
  <2>4. NumbersFollow'
    BY <1>1, <1>9, SameView DEF IInv, NumbersFollow, JobGoes
  <2>5. what = "authorized" => Found(worker[w])'
    BY <1>1, <1>9, SameView DEF JobGoes, Found, Matches
  <2>6. VerdictsFollow'
    BY <1>1, <1>2, <1>6, <1>7, <1>9, <2>5, SameView DEF IInv, VerdictsFollow, JobGoes
  <2> QED
    BY <2>1, <2>2, <2>3, <2>4, <2>6 DEF HandlersInv
<1> QED
  BY <1>5, <1>8, <1>9

LEMMA BreaksOffHandlers ==
  ASSUME IInv, NEW w \in Workers, BreaksOff(w)
  PROVE  HandlersInv'
<1> DEFINE r == worker[w].row
<1>1. UNCHANGED <<voucher, arca>> /\ worker[w].pc = "waiting" /\ TypeOK /\ r \in Rows
  BY JobRow DEF BreaksOff
<1>2. /\ wire'[r] = IF wire[r] = "sent" THEN "sent" ELSE "none"
      /\ \A s \in Rows : s # r => wire'[s] = wire[s]
  BY <1>1, HangUpRow DEF BreaksOff
<1>3. JobGoes(w, "consulting", worker[w].number, worker[w].verdict)
  BY <1>1, PhaseJob DEF BreaksOff
<1>4. \A x \in Workers : worker[x].pc \notin {"idle", "holding"} => worker[x].row \in Rows
  BY DEF IInv, JobsHoldRows
<1>5. JobsHoldRows'
  BY <1>1, <1>3, SameView DEF IInv, JobsHoldRows, JobGoes
<1>6. HandlersDoNotCross'
  BY <1>1, <1>2, <1>3, SameView DEF IInv, HandlersDoNotCross, JobGoes, Issuing, ToArca
<1>7. RequestsFollow'
  BY <1>1, <1>2, <1>3, <1>4, SameView DEF IInv, RequestsFollow, JobGoes
<1>8. NumbersFollow'
  BY <1>1, <1>3, SameView DEF IInv, NumbersFollow, JobGoes
<1>9. VerdictsFollow'
  <2>1. \A x \in Workers : x # w => (Found(worker[x])' <=> Found(worker[x]))
    BY <1>1, <1>3, SameFound DEF JobGoes
  <2> QED
    BY <1>1, <1>2, <1>3, <1>4, <2>1, SameView DEF IInv, VerdictsFollow, JobGoes
<1> QED
  BY <1>5, <1>6, <1>7, <1>8, <1>9 DEF HandlersInv

LEMMA StopsHandlers ==
  ASSUME IInv, NEW w \in Workers, Stops(w)
  PROVE  HandlersInv'
<1> DEFINE r == worker[w].row
<1>1. UNCHANGED <<voucher, arca>> /\ TypeOK /\ JobEnds(w)
  BY EndsJob DEF Stops, IInv
<1>2. CASE worker[w].pc # "waiting"
  BY <1>1, <1>2, EndsHandlers DEF Stops
<1>3. CASE worker[w].pc = "waiting"
  <2>1. /\ wire'[r] = IF wire[r] = "sent" THEN "sent" ELSE "none"
        /\ \A s \in Rows : s # r => wire'[s] = wire[s]
    BY <1>3, JobRow, HangUpRow DEF Stops
  <2>2. \A x \in Workers : worker[x].pc \notin {"idle", "holding"} => worker[x].row \in Rows
    BY DEF IInv, JobsHoldRows
  <2>3. JobsHoldRows'
    BY <1>1, SameView, IdleIsIdle DEF IInv, JobsHoldRows, JobEnds
  <2>4. HandlersDoNotCross'
    BY <1>1, <1>3, <2>1, SameView, IdleIsIdle DEF IInv, HandlersDoNotCross, JobEnds, Issuing, ToArca
  <2>5. RequestsFollow'
    BY <1>1, <1>3, <2>1, <2>2, SameView, IdleIsIdle DEF IInv, RequestsFollow, JobEnds
  <2>6. NumbersFollow'
    BY <1>1, SameView, IdleIsIdle DEF IInv, NumbersFollow, JobEnds
  <2>7. VerdictsFollow'
    <3>1. \A x \in Workers : x # w => (Found(worker[x])' <=> Found(worker[x]))
      BY <1>1, SameFound DEF JobEnds
    <3> QED
      BY <1>1, <1>3, <2>1, <2>2, <3>1, SameView, IdleIsIdle DEF IInv, VerdictsFollow, JobEnds
  <2> QED
    BY <2>3, <2>4, <2>5, <2>6, <2>7 DEF HandlersInv
<1> QED
  BY <1>2, <1>3

-----------------------------------------------------------------------------
(* What handlers know, when a row is leased, ages or claims its number *)

LEMMA DatedView ==
  ASSUME UNCHANGED arca,
         \A s \in Rows : /\ voucher'[s].status = voucher[s].status /\ SameVoucher(s)
                         /\ voucher'[s].claimed = voucher[s].claimed
  PROVE  /\ \A s \in Rows : (Pending(s)' <=> Pending(s)) /\ (Issued(s)' <=> Issued(s))
         /\ \A s \in Rows : Unborne(s)' <=> Unborne(s)
         /\ \A s \in Rows : \A n : Bears(s, n)' <=> Bears(s, n)
         /\ \A x \in Workers : worker'[x] = worker[x] /\ worker[x].row \in Rows =>
              (Found(worker[x])' <=> Found(worker[x]))
<1>1. \A s \in Rows : /\ voucher'[s].kind = voucher[s].kind /\ voucher'[s].quote = voucher[s].quote
                      /\ (Pending(s)' <=> Pending(s)) /\ (Issued(s)' <=> Issued(s))
  BY DEF SameVoucher, Pending, Issued
<1>2. \A s \in Rows : \A n : Bears(s, n)' <=> Bears(s, n)
  BY <1>1 DEF Bears
<1>3. \A s \in Rows : Unborne(s)' <=> Unborne(s)
  BY <1>1, <1>2 DEF Unborne
<1>4. \A x \in Workers : worker'[x] = worker[x] /\ worker[x].row \in Rows =>
        (Found(worker[x])' <=> Found(worker[x]))
  BY <1>1 DEF Found, Matches
<1> QED
  BY <1>1, <1>2, <1>3, <1>4

LEMMA LeaseHandlers ==
  ASSUME IInv, NEW w \in Workers, ClaimRecovery(w)
  PROVE  HandlersInv'
<1> DEFINE r == worker[w].row
<1>1. UNCHANGED <<arca, wire>> /\ worker[w].pc = "leasing" /\ TypeOK /\ r \in Rows
  BY JobRow DEF ClaimRecovery
<1>2. CASE Goes(w, Idle) /\ UNCHANGED voucher
  BY <1>1, <1>2, EndsJob, EndsHandlers
<1>3. CASE /\ Pending(r) /\ voucher[r].stale /\ Writes(r, [voucher[r] EXCEPT !.stale = FALSE])
           /\ Goes(w, [worker[w] EXCEPT !.pc = "reading"])
  <2>1. JobGoes(w, "reading", worker[w].number, worker[w].verdict)
    BY <1>1, <1>3, PhaseJob
  <2>2. Dates(r)
    BY <1>1, <1>3 DEF Dates, ClaimRecovery, Leased
  <2>3. /\ \A s \in Rows : voucher'[s].status = voucher[s].status /\ SameVoucher(s)
                           /\ voucher'[s].claimed = voucher[s].claimed
        /\ \A s \in Rows : s # r => voucher'[s] = voucher[s]
    BY <1>1, <2>2, DatesRow
  <2>4. voucher'[r].stale = FALSE
    <3> DEFINE row == [voucher[r] EXCEPT !.stale = FALSE]
    <3>1. row.stale = FALSE /\ row \in VoucherType
      BY <1>1, RowType, RewrittenRows DEF VoucherType
    <3> HIDE DEF row
    <3> QED
      BY <1>1, <1>3, <3>1, WritesType DEF row
  <2>5. /\ wire[r] = "none"
        /\ \A x \in Workers : worker[x].row = r => worker[x].pc \notin ToArca \cup {"reading"}
    BY <1>1, <1>3 DEF IInv, HandlersDoNotCross
  <2>6. worker[w].number = voucher[r].claimed
    BY <1>1, <1>3 DEF IInv, NumbersFollow
  <2>7. \A x \in Workers : worker[x].pc \notin {"idle", "holding"} => worker[x].row \in Rows
    BY DEF IInv, JobsHoldRows
  <2>8. /\ \A s \in Rows : (Pending(s)' <=> Pending(s)) /\ (Issued(s)' <=> Issued(s))
        /\ \A s \in Rows : Unborne(s)' <=> Unborne(s)
        /\ \A s \in Rows : \A n : Bears(s, n)' <=> Bears(s, n)
        /\ \A x \in Workers : worker'[x] = worker[x] /\ worker[x].row \in Rows =>
             (Found(worker[x])' <=> Found(worker[x]))
    BY <1>1, <2>3, DatedView
  <2>9. JobsHoldRows'
    BY <1>1, <2>1, <2>3, <2>8 DEF IInv, JobsHoldRows, JobGoes, SameVoucher
  <2>10. HandlersDoNotCross'
    BY <1>1, <2>1, <2>3, <2>4, <2>5, <2>7, <2>8 DEF IInv, HandlersDoNotCross, JobGoes, Issuing, ToArca
  <2>11. RequestsFollow'
    BY <1>1, <2>1, <2>3, <2>5, <2>8 DEF IInv, RequestsFollow, JobGoes, SameVoucher
  <2>12. NumbersFollow'
    BY <1>1, <2>1, <2>3, <2>4, <2>6, <2>7, <2>8, SMTT(30) DEF IInv, NumbersFollow, JobGoes, SameVoucher
  <2>13. VerdictsFollow'
    BY <1>1, <2>1, <2>7, <2>8 DEF IInv, VerdictsFollow, JobGoes
  <2> QED
    BY <2>9, <2>10, <2>11, <2>12, <2>13 DEF HandlersInv
<1> QED
  BY <1>2, <1>3 DEF ClaimRecovery, Leased

LEMMA AgesHandlers ==
  ASSUME IInv, NEW r \in Rows, GoesStale(r)
  PROVE  HandlersInv'
<1>1. UNCHANGED <<arca, wire, worker>> /\ Pending(r) /\ wire[r] = "none" /\ TypeOK
  BY DEF IInv, GoesStale
<1>2. \A w \in Workers : worker[w].row = r => worker[w].pc \notin AskingPhases
  BY DEF GoesStale
<1>3. Dates(r)
  BY DEF Dates, GoesStale
<1>4. /\ \A s \in Rows : voucher'[s].status = voucher[s].status /\ SameVoucher(s)
                         /\ voucher'[s].claimed = voucher[s].claimed
      /\ \A s \in Rows : s # r => voucher'[s] = voucher[s]
  BY <1>1, <1>3, DatesRow
<1>5. \A x \in Workers : worker[x].pc \notin {"idle", "holding"} => worker[x].row \in Rows
  BY DEF IInv, JobsHoldRows
<1>6. /\ \A s \in Rows : (Pending(s)' <=> Pending(s)) /\ (Issued(s)' <=> Issued(s))
      /\ \A s \in Rows : Unborne(s)' <=> Unborne(s)
      /\ \A s \in Rows : \A n : Bears(s, n)' <=> Bears(s, n)
      /\ \A x \in Workers : worker[x].row \in Rows => (Found(worker[x])' <=> Found(worker[x]))
  BY <1>1, <1>4, DatedView
<1>7. JobsHoldRows'
  BY <1>1, <1>4, <1>6 DEF IInv, JobsHoldRows, SameVoucher
<1>8. HandlersDoNotCross'
  BY <1>1, <1>2, <1>4, <1>5, <1>6 DEF IInv, HandlersDoNotCross, AskingPhases, ToArca
<1>9. RequestsFollow'
  BY <1>1, <1>4, <1>5, <1>6 DEF IInv, RequestsFollow, SameVoucher
<1>10. NumbersFollow'
  BY <1>1, <1>2, <1>4, <1>5, <1>6 DEF IInv, NumbersFollow, SameVoucher, AskingPhases
<1>11. VerdictsFollow'
  BY <1>1, <1>5, <1>6 DEF IInv, VerdictsFollow
<1> QED
  BY <1>7, <1>8, <1>9, <1>10, <1>11 DEF HandlersInv

LEMMA ClaimHandlers ==
  ASSUME IInv, NEW w \in Workers, ClaimNumber(w) \/ ClaimFails(w)
  PROVE  HandlersInv'
<1> DEFINE r == worker[w].row
           n == worker[w].number
<1>1. /\ UNCHANGED <<arca, wire>> /\ worker[w].pc = "claiming" /\ TypeOK /\ r \in Rows
      /\ n \in Nat
  BY JobRow, JobFields DEF ClaimNumber, ClaimFails
<1>2. CASE Verdict(w, "failed") /\ UNCHANGED voucher
  BY <1>1, <1>2, VerdictJob, FailsHandlers
<1>3. CASE /\ Writes(r, [voucher[r] EXCEPT !.claimed = n, !.stale = FALSE])
           /\ Goes(w, [worker[w] EXCEPT !.pc = "asking"])
  <2>1. JobGoes(w, "asking", n, worker[w].verdict)
    BY <1>1, <1>3, PhaseJob
  <2>2. /\ Pending(r) /\ ~voucher[r].stale
        /\ \A x \in Workers : x # w /\ worker[x].row = r =>
             worker[x].pc \notin Issuing \cup {"reading", "closing"}
    BY <1>1, AloneWithRow DEF ToArca
  <2>3. Unborne(r) /\ n >= 1 /\ wire[r] = "none"
    BY <1>1 DEF IInv, NumbersFollow, RequestsFollow
  <2>4. /\ \A s \in Rows : s # r => voucher'[s] = voucher[s]
        /\ voucher'[r].status = voucher[r].status /\ SameVoucher(r)
        /\ voucher'[r].claimed = n /\ voucher'[r].stale = FALSE
    <3> DEFINE row == [voucher[r] EXCEPT !.claimed = n, !.stale = FALSE]
    <3>1. row \in VoucherType
      BY <1>1, RewrittenRows
    <3>2. /\ row.status = voucher[r].status /\ row.claimed = n /\ row.stale = FALSE
          /\ row.kind = voucher[r].kind /\ row.quote = voucher[r].quote
          /\ row.version = voucher[r].version /\ row.credits = voucher[r].credits
          /\ row.replaces = voucher[r].replaces
      BY <1>1, RowType DEF VoucherType
    <3> HIDE DEF row
    <3>3. voucher'[r] = row /\ \A s \in Rows : s # r => voucher'[s] = voucher[s]
      BY <1>1, <1>3, <3>1, WritesType DEF row
    <3> QED
      BY <3>2, <3>3 DEF SameVoucher
  <2>5. /\ \A s \in Rows : voucher'[s].kind = voucher[s].kind /\ voucher'[s].quote = voucher[s].quote
        /\ \A s \in Rows : voucher'[s].status = voucher[s].status
        /\ \A s \in Rows : (Pending(s)' <=> Pending(s)) /\ (Issued(s)' <=> Issued(s))
    BY <2>4 DEF SameVoucher, Pending, Issued
  <2>6. \A s \in Rows : \A m : Bears(s, m)' <=> Bears(s, m)
    BY <1>1, <2>5, BearsIsKept
  <2>7. \A s \in Rows : Unborne(s)' <=> Unborne(s)
    BY <1>1, <2>5, BearsIsKept
  <2>8. \A x \in Workers : worker[x].pc \notin {"idle", "holding"} => worker[x].row \in Rows
    BY DEF IInv, JobsHoldRows
  <2>9. \A x \in Workers : x # w /\ worker[x].row \in Rows /\ worker[x].row # r =>
          (Found(worker[x])' <=> Found(worker[x]))
    <3>1. TAKE x \in Workers
    <3>2. HAVE x # w /\ worker[x].row \in Rows /\ worker[x].row # r
    <3>3. worker'[x] = worker[x] /\ voucher'[worker[x].row] = voucher[worker[x].row]
      BY <2>1, <2>4, <3>2 DEF JobGoes
    <3>4. Pending(worker[x].row)' <=> Pending(worker[x].row)
      BY <2>5, <3>2, <3>3
    <3> QED
      BY <1>1, <3>3, <3>4 DEF Found, Matches
  <2>10. JobsHoldRows'
    BY <1>1, <2>1, <2>5 DEF IInv, JobsHoldRows, JobGoes
  <2>11. HandlersDoNotCross'
    BY <1>1, <2>1, <2>2, <2>4, <2>5, <2>8 DEF IInv, HandlersDoNotCross, JobGoes, Issuing, ToArca
  <2>12. RequestsFollow'
    BY <1>1, <2>1, <2>3, <2>4, <2>5, <2>6, <2>7, <2>8 DEF IInv, RequestsFollow, JobGoes
  <2>13. NumbersFollow'
    BY <1>1, <2>1, <2>2, <2>3, <2>4, <2>5, <2>7, <2>8, SMTT(30)
       DEF IInv, NumbersFollow, JobGoes, Issuing, ToArca
  <2>14. VerdictsFollow'
    BY <1>1, <2>1, <2>2, <2>5, <2>7, <2>8, <2>9 DEF IInv, VerdictsFollow, JobGoes, Issuing
  <2> QED
    BY <2>10, <2>11, <2>12, <2>13, <2>14 DEF HandlersInv
<1> QED
  BY <1>2, <1>3 DEF ClaimNumber, ClaimFails

-----------------------------------------------------------------------------
(* What handlers know, when a row is filed or its outcome is written *)

LEMMA HoldHandlers ==
  ASSUME IInv, NEW w \in Workers, Hold(w) \/ HoldCreditNote(w)
  PROVE  HandlersInv'
<1>1. UNCHANGED <<arca, wire>> /\ worker[w].pc = "holding" /\ TypeOK
  BY DEF IInv, Hold, HoldCreditNote, Refused, CreatePending
<1>2. CASE Goes(w, Idle) /\ UNCHANGED voucher
  BY <1>1, <1>2, EndsJob, EndsHandlers
<1>3. ASSUME NEW r \in Rows, NEW row \in VoucherType, voucher[r].status = "NONE",
             row.status = "PENDING", row.stale = FALSE, Writes(r, row),
             Goes(w, [worker[w] EXCEPT !.pc = "numbering", !.row = r])
      PROVE  HandlersInv'
  <2>1. voucher'[r] = row /\ \A s \in Rows : s # r => voucher'[s] = voucher[s]
    BY <1>1, <1>3, WritesType
  <2>2. /\ worker'[w].pc = "numbering" /\ worker'[w].row = r
        /\ worker'[w].invoice = worker[w].invoice /\ worker'[w].quote = worker[w].quote
        /\ \A x \in Workers : x # w => worker'[x] = worker[x]
    <3> DEFINE job == [worker[w] EXCEPT !.pc = "numbering", !.row = r]
    <3>1. /\ job.pc = "numbering" /\ job.row = r /\ job.invoice = worker[w].invoice
          /\ job.quote = worker[w].quote
      BY <1>1, JobFields DEF WorkerType
    <3>2. job \in WorkerType
      BY <1>1, <1>3, RowsAreNumbers, JobFields DEF WorkerType
    <3> HIDE DEF job
    <3>3. worker'[w] = job /\ \A x \in Workers : x # w => worker'[x] = worker[x]
      BY <1>1, <1>3, <3>2, JobType DEF job
    <3> QED
      BY <3>1, <3>3
  <2>3. \A x \in Workers : worker[x].pc \notin {"idle", "holding"} =>
          worker[x].row \in Rows /\ worker[x].row # r
    BY <1>3 DEF IInv, JobsHoldRows
  <2>4. wire[r] = "none"
    BY <1>3, <2>3 DEF IInv, RequestsFollow
  <2>5. Unborne(r)'
    <3>1. row.kind \in Kinds
      BY <1>3 DEF VoucherType
    <3>2. \A n \in 1..Len(arca[row.kind]) : arca[row.kind][n].by # r
      BY <1>3, <3>1, RowsAreNumbers DEF IInv, ArcaIsFiled
    <3> QED
      BY <1>1, <2>1, <3>2 DEF Unborne, Bears
  <2>6. \A s \in Rows : s # r => /\ Pending(s)' <=> Pending(s)
                                 /\ Issued(s)' <=> Issued(s)
    BY <2>1 DEF Pending, Issued
  <2>7. \A s \in Rows : s # r => /\ Unborne(s)' <=> Unborne(s)
                                 /\ \A n : Bears(s, n)' <=> Bears(s, n)
    BY <1>1, <2>1, BearsIsKept
  <2>8. \A x \in Workers : x # w /\ worker[x].row \in Rows /\ worker[x].row # r =>
          (Found(worker[x])' <=> Found(worker[x]))
    BY <1>1, <2>1, <2>2 DEF Found, Matches, Pending
  <2>9. Pending(r)' /\ voucher'[r].stale = FALSE /\ voucher'[r].status # "NONE" /\ ~Issued(r)
    BY <1>3, <2>1 DEF Pending, Issued
  <2>10. JobsHoldRows'
    BY <1>1, <2>1, <2>2, <2>3, <2>6, <2>9 DEF IInv, JobsHoldRows
  <2>11. HandlersDoNotCross'
    BY <1>1, <2>1, <2>2, <2>3, <2>6, <2>9 DEF IInv, HandlersDoNotCross, Issuing, ToArca
  <2>12. RequestsFollow'
    BY <1>1, <2>1, <2>2, <2>3, <2>4, <2>6, <2>7 DEF IInv, RequestsFollow
  <2>13. NumbersFollow'
    BY <1>1, <2>1, <2>2, <2>3, <2>5, <2>6, <2>7 DEF IInv, NumbersFollow
  <2>14. VerdictsFollow'
    BY <1>1, <2>1, <2>2, <2>3, <2>6, <2>7, <2>8 DEF IInv, VerdictsFollow
  <2> QED
    BY <2>10, <2>11, <2>12, <2>13, <2>14 DEF HandlersInv
<1>4. FreeRows # {} => NextRow \in Rows /\ voucher[NextRow].status = "NONE"
  BY NextRowIsFree
<1>5. ASSUME NEW row \in VoucherType, row.status = "PENDING", row.stale = FALSE, CreatePending(w, row)
      PROVE  HandlersInv'
  BY <1>2, <1>3, <1>4, <1>5 DEF CreatePending
<1>6. CASE Refused(w)
  BY <1>2, <1>6 DEF Refused
<1>7. CASE Hold(w) /\ ~Refused(w)
  <2> DEFINE row == [NoVoucher EXCEPT !.status = "PENDING", !.quote = worker[w].quote,
                       !.version = worker[w].version, !.replaces = LatestCredited(worker[w].quote)]
  <2>1. row \in VoucherType /\ CreatePending(w, row)
    BY <1>1, <1>7, DraftsAreRows DEF Hold
  <2>2. row.status = "PENDING" /\ row.stale = FALSE
    BY DEF NoVoucher
  <2> HIDE DEF row
  <2> QED
    BY <1>5, <2>1, <2>2
<1>8. CASE HoldCreditNote(w) /\ ~Refused(w)
  <2> DEFINE row == [NoVoucher EXCEPT !.status = "PENDING", !.kind = "CREDIT_NOTE",
                       !.quote = worker[w].quote, !.version = voucher[worker[w].invoice].version,
                       !.credits = worker[w].invoice]
  <2>1. row \in VoucherType /\ CreatePending(w, row)
    BY <1>1, <1>8, DraftsAreRows DEF HoldCreditNote
  <2>2. row.status = "PENDING" /\ row.stale = FALSE
    BY DEF NoVoucher
  <2> HIDE DEF row
  <2> QED
    BY <1>5, <2>1, <2>2
<1> QED
  BY <1>6, <1>7, <1>8

(* The handler is done with its row; one that came to issue may go on to hold the sale. *)
JobLeaves(w) ==
  /\ \/ worker'[w] = Idle
     \/ /\ worker'[w].pc = "holding" /\ worker'[w].row = 0
        /\ worker'[w].quote = worker[w].quote /\ worker'[w].quote \in Quotes
        /\ worker'[w].invoice = worker[w].invoice
  /\ \A x \in Workers : x # w => worker'[x] = worker[x]

LEMMA LeavesHandlers ==
  ASSUME IInv, NEW w \in Workers, worker[w].pc \in {"closing", "settling"}, JobLeaves(w),
         UNCHANGED <<arca, wire>>,
         \/ UNCHANGED voucher
         \/ Issues(worker[w].row)
         \/ Drops(worker[w].row) /\ wire[worker[w].row] = "none"
  PROVE  HandlersInv'
<1> DEFINE r == worker[w].row
<1>1. TypeOK /\ r \in Rows
  BY JobRow
<1>2. \A x \in Workers : worker[x].pc \notin {"idle", "holding"} => worker[x].row \in Rows
  BY DEF IInv, JobsHoldRows
<1>3. /\ \A s \in Rows : SameVoucher(s) /\ voucher'[s].claimed = voucher[s].claimed
      /\ \A s \in Rows : s # r => voucher'[s] = voucher[s]
  BY <1>1, IssuesRow, DropsRow DEF SameVoucher
<1>4. UNCHANGED voucher \/ /\ Pending(r) /\ voucher'[r].status \notin {"NONE", "PENDING"}
                           /\ voucher'[r].stale = FALSE
  <2>1. Issues(r) \/ Drops(r) => Pending(r)
    BY DEF Issues, Drops
  <2>2. Issues(r) \/ Drops(r) => voucher'[r].status \in {"ISSUED", "REJECTED"} /\ voucher'[r].stale = FALSE
    BY <1>1, IssuesRow, DropsRow
  <2> QED
    BY <2>1, <2>2 DEF Pending
<1>5. \A s \in Rows : (Pending(s)' => Pending(s)) /\ (Issued(s) => Issued(s)')
  BY <1>3, <1>4 DEF Pending, Issued
<1>6. \A s \in Rows : /\ voucher'[s].kind = voucher[s].kind /\ voucher'[s].quote = voucher[s].quote
                      /\ voucher'[s].stale => voucher'[s] = voucher[s]
                      /\ voucher[s].status # "NONE" => voucher'[s].status # "NONE"
  BY <1>3, <1>4 DEF SameVoucher
<1>7. \A s \in Rows : /\ Unborne(s)' <=> Unborne(s)
                      /\ \A n : Bears(s, n)' <=> Bears(s, n)
  BY <1>1, <1>6, BearsIsKept
<1>8. \A x \in Workers : x # w /\ worker[x].row \in Rows /\ Found(worker[x]) => Found(worker[x])'
  <2> SUFFICES ASSUME NEW x \in Workers, x # w, worker[x].row \in Rows, Found(worker[x])
               PROVE  Found(worker[x])'
    OBVIOUS
  <2>1. worker'[x] = worker[x]
    BY DEF JobLeaves
  <2> DEFINE s == worker[x].row
  <2>2. /\ voucher'[s].claimed = voucher[s].claimed /\ voucher'[s].kind = voucher[s].kind
        /\ voucher'[s].quote = voucher[s].quote
        /\ voucher'[s].status = "PENDING" => Pending(s)
    BY <1>3, <1>5, <1>6 DEF Pending
  <2>3. Pending(s) => /\ worker[x].number = voucher[s].claimed
                      /\ worker[x].number \in 1..Len(arca[voucher[s].kind])
                      /\ arca[voucher[s].kind][worker[x].number].shows = voucher[s].quote
    BY DEF Found, Matches
  <2> QED
    BY <2>1, <2>2, <2>3 DEF Found, Matches, Pending
<1>9. \A x \in Workers : x # w /\ worker[x].row = r /\ worker[x].pc \in ToArca => UNCHANGED voucher
  BY <1>4 DEF IInv, HandlersDoNotCross, Issuing, ToArca
<1>10. wire[r] = "sent" => UNCHANGED voucher \/ voucher[r].claimed <= Len(arca[voucher[r].kind])
  <2>1. Len(arca[voucher[r].kind]) \in Nat
    BY <1>1, RowType
  <2> QED
    BY <2>1 DEF Issues
<1>11. JobsHoldRows'
  BY <1>1, <1>2, <1>5, <1>6, IdleIsIdle DEF IInv, JobsHoldRows, JobLeaves
<1>12. HandlersDoNotCross'
  BY <1>2, <1>3, <1>6, <1>9, IdleIsIdle DEF IInv, HandlersDoNotCross, JobLeaves, Issuing, ToArca, Pending
<1>13. RequestsFollow'
  BY <1>2, <1>3, <1>6, <1>7, <1>10, IdleIsIdle DEF IInv, RequestsFollow, JobLeaves, Pending
<1>14. NumbersFollow'
  BY <1>2, <1>3, <1>5, <1>6, <1>7, IdleIsIdle, SMTT(30) DEF IInv, NumbersFollow, JobLeaves
<1>15. VerdictsFollow'
  BY <1>2, <1>5, <1>7, <1>8, IdleIsIdle DEF IInv, VerdictsFollow, JobLeaves
<1> QED
  BY <1>11, <1>12, <1>13, <1>14, <1>15 DEF HandlersInv

LEMMA ReconcileHandlers ==
  ASSUME IInv, NEW w \in Workers, Reconcile(w)
  PROVE  HandlersInv'
<1> DEFINE r == worker[w].row
           next == [worker[w] EXCEPT !.pc = "holding", !.row = 0, !.number = 0, !.verdict = "none"]
<1>1. /\ worker[w].pc = "closing" /\ TypeOK /\ r \in Rows /\ wire[r] = "none"
      /\ worker[w].verdict \in {"ours", "other", "nothing"}
      /\ UNCHANGED <<accepted, archived, version, unpriced, accountVars, arca, wire>>
  BY JobRow DEF Reconcile, IInv, RequestsFollow, VerdictsFollow
<1>2. Goes(w, Idle) => JobLeaves(w)
  BY <1>1, EndsJob DEF JobEnds, JobLeaves
<1>3. worker[w].quote # NoQuote /\ Goes(w, next) => JobLeaves(w)
  <2>1. next \in WorkerType
    BY <1>1, JobFields DEF WorkerType
  <2>2. next.pc = "holding" /\ next.row = 0 /\ next.quote = worker[w].quote /\ next.invoice = worker[w].invoice
    BY <1>1, JobFields DEF WorkerType
  <2>3. worker[w].quote \in Quotes \cup {NoQuote}
    BY <1>1, JobFields
  <2> HIDE DEF next
  <2> SUFFICES ASSUME worker[w].quote # NoQuote, Goes(w, next) PROVE JobLeaves(w)
    OBVIOUS
  <2>4. worker'[w] = next /\ \A x \in Workers : x # w => worker'[x] = worker[x]
    BY <1>1, <2>1, JobType
  <2> QED
    BY <2>2, <2>3, <2>4 DEF JobLeaves
<1>4. JobLeaves(w)
  BY <1>1, <1>2, <1>3 DEF Reconcile
<1>5. CASE worker[w].verdict = "ours"
  BY <1>1, <1>4, <1>5, MarkIssuedWrites, LeavesHandlers DEF Reconcile, IInv, VerdictsFollow
<1>6. CASE worker[w].verdict = "other"
  BY <1>1, <1>4, <1>6, LeavesHandlers DEF Reconcile
<1>7. CASE worker[w].verdict = "nothing"
  <2>1. Release(r) /\ (Pending(r) => Unborne(r))
    BY <1>1, <1>7 DEF Reconcile, IInv, VerdictsFollow
  <2> QED
    BY <1>1, <1>4, <2>1, ReleaseWrites, LeavesHandlers
<1> QED
  BY <1>1, <1>5, <1>6, <1>7

LEMMA SettleHandlers ==
  ASSUME IInv, NEW w \in Workers, Settle(w)
  PROVE  HandlersInv'
<1> DEFINE r == worker[w].row
<1>1. /\ worker[w].pc = "settling" /\ TypeOK /\ r \in Rows
      /\ worker[w].verdict \in {"authorized", "rejected", "failed", "unknown"}
      /\ UNCHANGED <<accepted, archived, version, unpriced, accountVars, arca, wire>>
  BY JobRow DEF Settle, IInv, VerdictsFollow
<1>2. JobLeaves(w)
  BY <1>1, EndsJob DEF Settle, JobEnds, JobLeaves
<1>3. CASE worker[w].verdict = "authorized"
  BY <1>1, <1>2, <1>3, MarkIssuedWrites, LeavesHandlers DEF Settle, IInv, VerdictsFollow
<1>4. CASE worker[w].verdict = "unknown"
  BY <1>1, <1>2, <1>4, LeavesHandlers DEF Settle
<1>5. CASE worker[w].verdict \in {"rejected", "failed"}
  <2>1. Release(r) /\ Unborne(r) /\ wire[r] = "none"
    BY <1>1, <1>5 DEF Settle, IInv, VerdictsFollow
  <2> QED
    BY <1>1, <1>2, <2>1, ReleaseWrites, LeavesHandlers
<1> QED
  BY <1>1, <1>3, <1>4, <1>5

-----------------------------------------------------------------------------
(* What handlers know, when ARCA and the network act *)

LEMMA WireOnlyHandlers ==
  ASSUME IInv, NEW r \in Rows, NEW answer \in {"none", "taken", "refused", "ticket"}, wire[r] = "sent",
         wire'[r] = answer, \A s \in Rows : s # r => wire'[s] = wire[s],
         answer # "none" => Listening(r), UNCHANGED <<voucher, arca, worker>>
  PROVE  HandlersInv'
<1>1. Unborne(r)
  BY DEF IInv, RequestsFollow
<1>2. \A x \in Workers : worker[x].pc \notin {"idle", "holding"} => worker[x].row \in Rows
  BY DEF IInv, JobsHoldRows
<1>3. JobsHoldRows'
  BY SameView DEF IInv, JobsHoldRows
<1>4. HandlersDoNotCross'
  BY <1>2, SameView DEF IInv, HandlersDoNotCross
<1>5. RequestsFollow'
  BY <1>1, <1>2, SameView DEF IInv, RequestsFollow, Listening
<1>6. NumbersFollow'
  BY SameView DEF IInv, NumbersFollow
<1>7. VerdictsFollow'
  BY <1>2, SameView, SameFound DEF IInv, VerdictsFollow
<1> QED
  BY <1>3, <1>4, <1>5, <1>6, <1>7 DEF HandlersInv

LEMMA RefusesHandlers ==
  ASSUME IInv, NEW r \in Rows, ArcaRefuses(r) \/ RequestIsLost(r)
  PROVE  HandlersInv'
<1>1. TypeOK /\ wire[r] = "sent" /\ UNCHANGED <<voucher, arca, worker>>
  BY DEF IInv, ArcaRefuses, RequestIsLost
<1>2. PICK answer \in {"none", "taken", "refused", "ticket"} :
        wire' = [wire EXCEPT ![r] = answer] /\ (answer # "none" => Listening(r))
  BY DEF ArcaRefuses, RequestIsLost, Answers
<1>3. wire'[r] = answer /\ \A s \in Rows : s # r => wire'[s] = wire[s]
  BY <1>1, <1>2, WireRow
<1> QED
  BY <1>1, <1>2, <1>3, WireOnlyHandlers

(* ARCA's record only grows at its end. *)
LEMMA GrownView ==
  ASSUME TypeOK, UNCHANGED voucher, NEW k \in Kinds, NEW by,
         \A j \in Kinds : j # k => arca'[j] = arca[j],
         Len(arca'[k]) = Len(arca[k]) + 1,
         \A n \in 1..Len(arca[k]) : arca'[k][n] = arca[k][n],
         arca'[k][Len(arca[k]) + 1].by = by
  PROVE  /\ \A s \in Rows : (Pending(s)' <=> Pending(s)) /\ (Issued(s)' <=> Issued(s))
         /\ \A s \in Rows : Len(arca[voucher[s].kind]) \in Nat /\ Len(arca'[voucher[s].kind]) \in Nat
                            /\ Len(arca[voucher[s].kind]) <= Len(arca'[voucher[s].kind])
         /\ \A s \in Rows : \A n \in 1..Len(arca[voucher[s].kind]) :
              arca'[voucher[s].kind][n] = arca[voucher[s].kind][n]
         /\ \A s \in Rows : \A n \in Nat : Bears(s, n) => Bears(s, n)'
         /\ \A s \in Rows : s # by => (Unborne(s) => Unborne(s)')
         /\ \A x \in Workers : worker'[x] = worker[x] /\ worker[x].row \in Rows /\ Found(worker[x])
              => Found(worker[x])'
<1> DEFINE last(s) == Len(arca[voucher[s].kind])
<1>1. \A s \in Rows : (Pending(s)' <=> Pending(s)) /\ (Issued(s)' <=> Issued(s))
  BY DEF Pending, Issued
<1>2. \A s \in Rows : voucher[s].kind \in Kinds /\ last(s) \in Nat
  BY RowType
<1>3. \A s \in Rows : IF voucher[s].kind = k THEN Len(arca'[voucher[s].kind]) = last(s) + 1
                      ELSE Len(arca'[voucher[s].kind]) = last(s)
  BY <1>2
<1>4. \A s \in Rows : \A n \in 1..last(s) : arca'[voucher[s].kind][n] = arca[voucher[s].kind][n]
  BY <1>2
<1>5. \A s \in Rows : \A n \in 1..Len(arca'[voucher[s].kind]) :
        n \in 1..last(s) \/ arca'[voucher[s].kind][n].by = by
  <2> TAKE s \in Rows
  <2>1. CASE voucher[s].kind # k
    BY <1>2, <2>1
  <2>2. CASE voucher[s].kind = k
    <3>1. Len(arca[k]) \in Nat
      BY DEF TypeOK
    <3> DEFINE here == Len(arca[k])
    <3> HIDE DEF here
    <3>2. here \in Nat /\ Len(arca'[k]) = here + 1 /\ arca'[k][here + 1].by = by
      BY <3>1 DEF here
    <3>3. \A n \in 1..(here + 1) : n \in 1..here \/ n = here + 1
      BY <3>2
    <3> QED
      BY <2>2, <3>2, <3>3 DEF here
  <2> QED
    BY <2>1, <2>2
<1> HIDE DEF last
<1>6. \A s \in Rows : Len(arca'[voucher[s].kind]) \in Nat /\ last(s) <= Len(arca'[voucher[s].kind])
  BY <1>2, <1>3
<1>7. \A s \in Rows : \A n \in 1..last(s) : n \in 1..Len(arca'[voucher[s].kind])
  BY <1>2, <1>6
<1>8. \A s \in Rows : \A n \in Nat : Bears(s, n) => Bears(s, n)'
  BY <1>4, <1>7 DEF Bears, last
<1>9. \A s \in Rows : s # by => (Unborne(s) => Unborne(s)')
  BY <1>4, <1>5 DEF Unborne, Bears, last
<1>10. \A x \in Workers : worker'[x] = worker[x] /\ worker[x].row \in Rows /\ Found(worker[x])
         => Found(worker[x])'
  BY <1>1, <1>4, <1>7 DEF Found, Matches, last
<1> QED
  BY <1>1, <1>2, <1>4, <1>6, <1>8, <1>9, <1>10 DEF last

LEMMA OtherSystemHandlers ==
  ASSUME IInv, NEW k \in Kinds, OtherSystemIssues(k)
  PROVE  HandlersInv'
<1>1. TypeOK /\ UNCHANGED <<voucher, wire, worker>>
  BY OtherSystemRow DEF IInv
<1>2. /\ \A s \in Rows : (Pending(s)' <=> Pending(s)) /\ (Issued(s)' <=> Issued(s))
      /\ \A s \in Rows : Len(arca[voucher[s].kind]) \in Nat /\ Len(arca'[voucher[s].kind]) \in Nat
                         /\ Len(arca[voucher[s].kind]) <= Len(arca'[voucher[s].kind])
      /\ \A s \in Rows : \A n \in 1..Len(arca[voucher[s].kind]) :
           arca'[voucher[s].kind][n] = arca[voucher[s].kind][n]
      /\ \A s \in Rows : \A n \in Nat : Bears(s, n) => Bears(s, n)'
      /\ \A s \in Rows : Unborne(s) => Unborne(s)'
      /\ \A x \in Workers : worker[x].row \in Rows /\ Found(worker[x]) => Found(worker[x])'
  BY <1>1, OtherSystemRow, GrownView, RowsAreNumbers
<1>3. \A x \in Workers : /\ worker[x].pc \notin {"idle", "holding"} => worker[x].row \in Rows
                         /\ worker[x].number \in Nat
  BY <1>1, JobFields DEF IInv, JobsHoldRows
<1>4. \A s \in Rows : voucher[s].claimed \in Nat
  BY <1>1, RowType
<1>5. JobsHoldRows'
  BY <1>1, <1>2 DEF IInv, JobsHoldRows
<1>6. HandlersDoNotCross'
  BY <1>1, <1>2, <1>3 DEF IInv, HandlersDoNotCross, ToArca
<1>7. RequestsFollow'
  BY <1>1, <1>2, <1>4 DEF IInv, RequestsFollow
<1>8. NumbersFollow'
  <2>1. \A s \in Rows : \A n \in Nat : n >= 1 /\ n <= Len(arca'[voucher[s].kind]) =>
          (n <= Len(arca[voucher[s].kind]) \/ arca'[voucher[s].kind][n].by = 0)
    <3> TAKE s \in Rows
    <3>1. CASE voucher[s].kind # k
      BY <1>1, <3>1, RowType, OtherSystemRow
    <3>2. CASE voucher[s].kind = k
      <4> DEFINE here == Len(arca[k])
      <4>1. here \in Nat /\ Len(arca'[k]) = here + 1 /\ arca'[k][here + 1].by = 0
        BY <1>1, <1>2, <3>2, OtherSystemRow
      <4> HIDE DEF here
      <4>2. \A n \in Nat : n >= 1 /\ n <= here + 1 => n <= here \/ n = here + 1
        BY <4>1
      <4> QED
        BY <3>2, <4>1, <4>2 DEF here
    <3> QED
      BY <3>1, <3>2
  <2>2. \A x \in Workers : worker[x].pc = "claiming" /\ worker[x].number <= Len(arca'[voucher[worker[x].row].kind])
          => arca'[voucher[worker[x].row].kind][worker[x].number].by = 0
    <3> TAKE x \in Workers
    <3> SUFFICES ASSUME worker[x].pc = "claiming", worker[x].number <= Len(arca'[voucher[worker[x].row].kind])
                 PROVE  arca'[voucher[worker[x].row].kind][worker[x].number].by = 0
      OBVIOUS
    <3>1. worker[x].row \in Rows /\ worker[x].number \in Nat /\ worker[x].number >= 1
      BY <1>3 DEF IInv, NumbersFollow
    <3>2. CASE worker[x].number <= Len(arca[voucher[worker[x].row].kind])
      <4>1. worker[x].number \in 1..Len(arca[voucher[worker[x].row].kind])
        BY <1>2, <3>1, <3>2
      <4>2. arca[voucher[worker[x].row].kind][worker[x].number].by = 0
        BY <3>2 DEF IInv, NumbersFollow
      <4> QED
        BY <1>2, <3>1, <4>1, <4>2
    <3> QED
      BY <2>1, <3>1, <3>2
  <2> QED
    BY <1>1, <1>2, <1>3, <2>2 DEF IInv, NumbersFollow
<1>9. VerdictsFollow'
  BY <1>1, <1>2, <1>3 DEF IInv, VerdictsFollow
<1> QED
  BY <1>5, <1>6, <1>7, <1>8, <1>9 DEF HandlersInv

LEMMA AuthorizesHandlers ==
  ASSUME IInv, NEW r \in Rows, ArcaAuthorizes(r)
  PROVE  HandlersInv'
<1> DEFINE k == voucher[r].kind
<1>1. TypeOK /\ UNCHANGED <<voucher, worker>> /\ wire[r] = "sent" /\ k \in Kinds
  BY ArcaRow, RowType DEF IInv
<1>2. /\ voucher[r].claimed = Len(arca[k]) + 1 /\ Len(arca[k]) \in Nat
      /\ Pending(r) /\ Unborne(r)
  <2>1. voucher[r].claimed = Len(arca[k]) + 1 /\ Len(arca[k]) \in Nat
    BY <1>1, ArcaRow, RowType
  <2> QED
    BY <1>1, <2>1 DEF IInv, RequestsFollow
<1>3. /\ \A s \in Rows : (Pending(s)' <=> Pending(s)) /\ (Issued(s)' <=> Issued(s))
      /\ \A s \in Rows : Len(arca[voucher[s].kind]) \in Nat /\ Len(arca'[voucher[s].kind]) \in Nat
                         /\ Len(arca[voucher[s].kind]) <= Len(arca'[voucher[s].kind])
      /\ \A s \in Rows : \A n \in 1..Len(arca[voucher[s].kind]) :
           arca'[voucher[s].kind][n] = arca[voucher[s].kind][n]
      /\ \A s \in Rows : \A n \in Nat : Bears(s, n) => Bears(s, n)'
      /\ \A s \in Rows : s # r => (Unborne(s) => Unborne(s)')
      /\ \A x \in Workers : worker[x].row \in Rows /\ Found(worker[x]) => Found(worker[x])'
  <2>1. /\ voucher' = voucher /\ \A j \in Kinds : j # k => arca'[j] = arca[j]
        /\ Len(arca'[k]) = Len(arca[k]) + 1
        /\ \A n \in 1..Len(arca[k]) : arca'[k][n] = arca[k][n]
        /\ arca'[k][Len(arca[k]) + 1].by = r
    BY <1>1, <1>2, ArcaRow
  <2> HIDE DEF k
  <2>2. worker' = worker
    BY <1>1
  <2> QED
    BY <1>1, <2>1, <2>2, GrownView
<1>4. Bears(r, voucher[r].claimed)'
  <2>1. Len(arca'[k]) = Len(arca[k]) + 1 /\ arca'[k][voucher[r].claimed].by = r
    BY <1>1, ArcaRow
  <2> DEFINE here == Len(arca[k])
  <2>2. here \in Nat /\ Len(arca'[k]) = here + 1 /\ voucher[r].claimed = here + 1
    BY <1>2, <2>1
  <2> HIDE DEF here
  <2>3. voucher[r].claimed \in 1..Len(arca'[k])
    BY <2>2
  <2> QED
    BY <1>1, <2>1, <2>3 DEF Bears
<1>5. /\ wire'[r] = IF Listening(r) THEN "authorized" ELSE "none"
      /\ \A s \in Rows : s # r => wire'[s] = wire[s]
  <2>1. wire' = [wire EXCEPT ![r] = IF Listening(r) THEN "authorized" ELSE "none"]
    BY DEF ArcaAuthorizes, Answers
  <2> QED
    BY <1>1, <2>1, WireRow
<1>6. \A x \in Workers : /\ worker[x].pc \notin {"idle", "holding"} => worker[x].row \in Rows
                         /\ worker[x].number \in Nat
  BY <1>1, JobFields DEF IInv, JobsHoldRows
<1>7. \A s \in Rows : voucher[s].claimed \in Nat
  BY <1>1, RowType
<1>8. \A x \in Workers :
        /\ worker[x].pc \in {"numbering", "claiming", "asking", "reading", "closing"} => worker[x].row # r
        /\ worker[x].pc = "settling" /\ worker[x].verdict \in {"rejected", "failed"} => worker[x].row # r
  BY <1>1 DEF IInv, RequestsFollow, VerdictsFollow
<1>9. JobsHoldRows'
  BY <1>1, <1>3 DEF IInv, JobsHoldRows
<1>10. HandlersDoNotCross'
  BY <1>1, <1>3, <1>5, <1>6 DEF IInv, HandlersDoNotCross, ToArca
<1>11. RequestsFollow'
  BY <1>1, <1>3, <1>4, <1>5, <1>6, <1>7 DEF IInv, RequestsFollow, Listening
<1>12. NumbersFollow'
  <2>1. \A x \in Workers : worker[x].pc = "claiming" => voucher[worker[x].row].kind # k
    <3> TAKE x \in Workers
    <3> SUFFICES ASSUME worker[x].pc = "claiming" PROVE voucher[worker[x].row].kind # k
      OBVIOUS
    <3>1. worker[x].row \in Rows /\ worker[x].row # r /\ Pending(worker[x].row)
      BY <1>6, <1>8, AloneWithRow DEF ToArca
    <3> QED
      BY <1>2, <3>1 DEF IInv, OneWaitsPerSeries
  <2>2. \A x \in Workers : worker[x].pc = "claiming" =>
          arca'[voucher[worker[x].row].kind] = arca[voucher[worker[x].row].kind]
    BY <1>1, <1>6, <2>1, ArcaRow, RowType
  <2> QED
    BY <1>1, <1>3, <1>6, <1>8, <2>2 DEF IInv, NumbersFollow
<1>13. VerdictsFollow'
  BY <1>1, <1>3, <1>5, <1>6, <1>8 DEF IInv, VerdictsFollow
<1> QED
  BY <1>9, <1>10, <1>11, <1>12, <1>13 DEF HandlersInv

-----------------------------------------------------------------------------
(* The invariant *)

LEMMA HandlersStep ==
  ASSUME IInv, [Next]_vars
  PROVE  HandlersInv'
<1>1. CASE SaleNext
  BY <1>1, SaleWrites, SaleHandlers
<1>2. CASE UNCHANGED vars
  BY <1>2, SaleHandlers DEF vars
<1>3. CASE OutsideNext
  BY <1>3, AuthorizesHandlers, RefusesHandlers, AgesHandlers, OtherSystemHandlers, Zenon DEF OutsideNext
<1>4. CASE HandlerNext
  <2> PICK w \in Workers :
        \/ \E q \in Quotes : IssueOpens(w, q)
        \/ \E r \in Rows : CreditNoteOpens(w, r) \/ RecoverOpens(w, r)
        \/ ClaimRecovery(w) \/ ReadBack(w) \/ Reconcile(w)
        \/ Hold(w) \/ HoldCreditNote(w) \/ TakeNumber(w) \/ ClaimNumber(w) \/ ClaimFails(w)
        \/ Solicitar(w) \/ Answered(w) \/ BreaksOff(w) \/ RecoverIssued(w) \/ Settle(w) \/ Stops(w)
    BY <1>4, Zenon DEF HandlerNext
  <2> QED
    BY OpensHandlers, LeaseHandlers, ReadBackHandlers, ReconcileHandlers, HoldHandlers, TakeNumberHandlers,
       ClaimHandlers, SolicitarHandlers, AnsweredHandlers, BreaksOffHandlers, ConsultHandlers,
       SettleHandlers, StopsHandlers, Zenon
<1> QED
  BY <1>1, <1>2, <1>3, <1>4 DEF Next

LEMMA InvariantInit == Init => IInv
<1> SUFFICES ASSUME Init PROVE IInv
  OBVIOUS
<1>1. TypeOK
  BY TypeInit
<1>2. /\ \A r \in Rows : /\ voucher[r].status = "NONE" /\ ~voucher[r].stale /\ voucher[r].quote = NoQuote
                         /\ wire[r] = "none"
      /\ \A w \in Workers : worker[w] = Idle
      /\ \A k \in Kinds : Len(arca[k]) = 0
      /\ enabled /\ connected
  BY DEF Init, NoVoucher
<1>3. \A r \in Rows : ~Pending(r) /\ ~Issued(r) /\ ~Live(r) /\ ~Creditable(r)
  BY <1>2 DEF Pending, Issued, Live, Creditable
<1>4. VouchersAreFiled /\ ArcaIsFiled /\ OneWaitsPerSeries /\ NumbersDoNotCross /\ NothingAuthorizedIsLost
  BY <1>2, <1>3 DEF VouchersAreFiled, ArcaIsFiled, OneWaitsPerSeries, NumbersDoNotCross,
                    NothingAuthorizedIsLost
<1>5. JobsHoldRows /\ HandlersDoNotCross
  BY <1>2, IdleIsIdle DEF JobsHoldRows, HandlersDoNotCross, Issuing, ToArca
<1>6. RequestsFollow /\ NumbersFollow /\ VerdictsFollow
  BY <1>2, IdleIsIdle DEF RequestsFollow, NumbersFollow, VerdictsFollow
<1>7. OneStands /\ BilledSaleStands /\ NoInvoiceWaitsUnreachable /\ WaivedIsNotBilled
  BY <1>3 DEF OneStands, BilledSaleStands, NoInvoiceWaitsUnreachable, WaivedIsNotBilled
<1> QED
  BY <1>1, <1>4, <1>5, <1>6, <1>7 DEF IInv

LEMMA InvariantStep == IInv /\ [Next]_vars => IInv'
<1> SUFFICES ASSUME IInv, [Next]_vars PROVE IInv'
  OBVIOUS
<1>1. TypeOK'
  BY TypeStep
<1>2. HandlersInv'
  BY HandlersStep
<1>3. VouchersAreFiled' /\ ArcaIsFiled' /\ OneWaitsPerSeries'
  BY VouchersStep, ArcaFiledStep, OneWaitsStep
<1>4. NumbersDoNotCross' /\ NothingAuthorizedIsLost' /\ OneStands'
  BY NumbersStep, LostStep, OneStandsStep
<1>5. BilledSaleStands' /\ NoInvoiceWaitsUnreachable' /\ WaivedIsNotBilled'
  BY BilledStep, ReachableStep, WaivedStep
<1> QED
  BY <1>1, <1>2, <1>3, <1>4, <1>5 DEF IInv, HandlersInv

(* The rows, the numbers, the requests on their way and what every handler knows of *)
(* them stay consistent, however Issue, IssueCreditNote, Recover, the quote's       *)
(* handlers, ARCA, the network and the clock interleave.                            *)
THEOREM Invariant == Spec => []IInv
<1> QED
  BY InvariantInit, InvariantStep, PTL DEF Spec

(* Every row, number, request and job has its type in every reachable state. *)
THEOREM TypeCorrect == Spec => []TypeOK
<1>1. IInv => TypeOK
  BY DEF IInv
<1> QED
  BY <1>1, Invariant, PTL

(* settle and reconcile free a row only when ARCA holds nothing for it: what ARCA     *)
(* authorized for a row is recorded on it, or the row waits under that very number.   *)
THEOREM NothingIsLost == Spec => []NothingAuthorizedIsLost
<1>1. IInv => NothingAuthorizedIsLost
  BY DEF IInv
<1> QED
  BY <1>1, Invariant, PTL

(* The claim is written before the request, and one row waits per series: no sale     *)
(* takes the number another of the branch was authorized with.                        *)
THEOREM NumbersStayApart == Spec => []NumbersDoNotCross
<1>1. IInv => NumbersDoNotCross
  BY DEF IInv
<1> QED
  BY <1>1, Invariant, PTL

(* hold and Reactivate read each other's rows under the quote's lock: a sale whose    *)
(* invoice waits or stands is not reopened, and shows the version that was billed, or *)
(* the unpriced one that persistDraftVersion opened right after it.                   *)
THEOREM SaleStandsWhileBilled == Spec => []BilledSaleStands
<1>1. IInv => BilledSaleStands
  BY DEF IInv
<1> QED
  BY <1>1, Invariant, PTL

(* hold, SetInvoicingEnabled and DisconnectARCA take the account row's lock: none of  *)
(* the last two leaves a waiting invoice that no handler may settle.                  *)
THEOREM WaitingIsReachable == Spec => []NoInvoiceWaitsUnreachable
<1>1. IInv => NoInvoiceWaitsUnreachable
  BY DEF IInv
<1> QED
  BY <1>1, Invariant, PTL

(* markIssued clears the waiver in the transaction that issues the invoice, and       *)
(* WaiveInvoice refuses a sale with a live one.                                       *)
THEOREM BilledIsNotWaived == Spec => []WaivedIsNotBilled
<1>1. IInv => WaivedIsNotBilled
  BY DEF IInv
<1> QED
  BY <1>1, Invariant, PTL

-----------------------------------------------------------------------------
(* What is recorded was authorized *)

LEMMA BearsStays ==
  ASSUME IInv, [Next]_vars, NEW r \in Rows, voucher'[r].kind = voucher[r].kind, NEW n \in Nat, Bears(r, n)
  PROVE  Bears(r, n)'
<1>1. TypeOK
  BY DEF IInv
<1>2. CASE UNCHANGED arca
  BY <1>1, <1>2, BearsIsKept
<1>3. ASSUME NEW s \in Rows, ArcaAuthorizes(s) PROVE Bears(r, n)'
  <2> DEFINE k == voucher[s].kind
  <2>1. /\ voucher' = voucher /\ \A j \in Kinds : j # k => arca'[j] = arca[j]
        /\ Len(arca'[k]) = Len(arca[k]) + 1
        /\ \A m \in 1..Len(arca[k]) : arca'[k][m] = arca[k][m]
        /\ arca'[k][Len(arca[k]) + 1].by = s
    BY <1>1, <1>3, ArcaRow, RowType
  <2>2. k \in Kinds
    BY <1>1, RowType
  <2> HIDE DEF k
  <2>3. \A t \in Rows : \A m \in Nat : Bears(t, m) => Bears(t, m)'
    BY <1>1, <2>1, <2>2, GrownView
  <2> QED
    BY <2>3
<1>4. ASSUME NEW k \in Kinds, OtherSystemIssues(k) PROVE Bears(r, n)'
  <2>1. /\ voucher' = voucher /\ \A j \in Kinds : j # k => arca'[j] = arca[j]
        /\ Len(arca'[k]) = Len(arca[k]) + 1
        /\ \A m \in 1..Len(arca[k]) : arca'[k][m] = arca[k][m]
        /\ arca'[k][Len(arca[k]) + 1].by = 0
    BY <1>1, <1>4, OtherSystemRow
  <2>2. \A t \in Rows : \A m \in Nat : Bears(t, m) => Bears(t, m)'
    BY <1>1, <2>1, GrownView
  <2> QED
    BY <2>2
<1> QED
  BY <1>2, <1>3, <1>4, ArcaGrows

(* markIssued and reconcile record what ARCA holds under the claimed number: the row's own *)
(* voucher, or one of another system that shows the same sale.                             *)
LEMMA IssuesItsOwn ==
  ASSUME IInv, NEW r \in Rows, Issues(r), voucher[r].quote \in Distinct
  PROVE  Bears(r, voucher[r].claimed)
<1> DEFINE e == arca[voucher[r].kind][voucher[r].claimed]
<1>1. /\ Pending(r) /\ voucher[r].claimed \in 1..Len(arca[voucher[r].kind]) /\ voucher[r].kind \in Kinds
      /\ e.shows = voucher[r].quote
  BY RowType DEF Issues, Matches, IInv
<1>2. e.by \in {r, 0}
  BY <1>1 DEF IInv, NumbersDoNotCross
<1>3. e.by = 0 => e.shows \in LookAlikes \cup {NoQuote}
  BY <1>1 DEF IInv, ArcaIsFiled
<1>4. e.by = r
  BY <1>1, <1>2, <1>3, InvoicingAssumption DEF Distinct
<1> QED
  BY <1>1, <1>4 DEF Bears

LEMMA RecordStep == IInv /\ IssuedIsAuthorized /\ [Next]_vars => IssuedIsAuthorized'
<1> SUFFICES ASSUME IInv, IssuedIsAuthorized, [Next]_vars,
                    NEW r \in Rows, voucher'[r].status = "ISSUED", voucher'[r].quote \in Distinct
             PROVE  /\ voucher'[r].number \in 1..Len(arca'[voucher'[r].kind])
                    /\ arca'[voucher'[r].kind][voucher'[r].number].by = r
  BY DEF IssuedIsAuthorized, Issued, Bears
<1>1. TypeOK /\ Kept(r) /\ voucher'[r].number \in Nat
  BY RowsAreKept, TypeStep DEF IInv, TypeOK, VoucherType
<1>2. CASE Issued(r)
  <2>1. voucher'[r] = voucher[r]
    BY <1>1, <1>2 DEF Kept
  <2> DEFINE n == voucher[r].number
  <2>2. n \in Nat /\ Bears(r, n)
    BY <1>1, <1>2, <2>1 DEF IssuedIsAuthorized
  <2>3. \A m \in Nat : Bears(r, m) => Bears(r, m)'
    BY <2>1, BearsStays
  <2>4. \A m \in Nat : Bears(r, m) => m \in 1..Len(arca'[voucher'[r].kind]) /\ arca'[voucher'[r].kind][m].by = r
    BY <2>3 DEF Bears
  <2> QED
    BY <2>1, <2>2, <2>4
<1>3. CASE ~Issued(r)
  <2>1. Issues(r)
    <3>1. ~UNCHANGED voucher
      BY <1>3 DEF Issued
    <3>2. ASSUME NEW s \in Rows, Dates(s) \/ Claims(s) \/ Issues(s) \/ Drops(s) PROVE Issues(r)
      <4>1. s = r
        BY <1>1, <1>3, <3>2, DatesRow, ClaimsRow, IssuesRow, DropsRow DEF Issued
      <4> QED
        BY <1>1, <1>3, <3>2, <4>1, DatesRow, ClaimsRow, DropsRow DEF Issued
    <3>3. ASSUME NEW s \in Rows,
                 (\E q \in Quotes : FilesInvoice(s, q)) \/ (\E i \in Rows : FilesNote(s, i))
          PROVE  FALSE
      BY <1>1, <1>3, <3>3, FilesInvoiceRow, FilesNoteRow DEF Issued
    <3> QED
      BY <3>1, <3>2, <3>3, RowsAreWritten DEF RowWritten
  <2>2. /\ SameVoucher(r) /\ voucher'[r].number = voucher[r].claimed /\ arca' = arca
    BY <1>1, <2>1, IssuesRow DEF Issues
  <2>3. Bears(r, voucher[r].claimed)
    BY <2>1, <2>2, IssuesItsOwn DEF SameVoucher
  <2> QED
    BY <2>2, <2>3 DEF Bears, SameVoucher
<1> QED
  BY <1>2, <1>3

(* Every ISSUED row of a sale no other system's voucher is taken for bears the number ARCA *)
(* authorized for that very row: verifying what stands under the number and adopting it,   *)
(* as reconcile and recoverIssued do, records nothing that was not authorized.             *)
THEOREM RecordAgreesWithArca == Spec => []IssuedIsAuthorized
<1>1. Init => IssuedIsAuthorized
  BY DEF Init, NoVoucher, IssuedIsAuthorized, Issued
<1> QED
  BY <1>1, RecordStep, Invariant, PTL DEF Spec

(* What ARCA holds for a row: the row waits or is issued. *)
LEMMA AuthorizedIsLive ==
  ASSUME IInv, NEW r \in Rows, Authorized(r)
  PROVE  Live(r)
<1>1. PICK n \in 1..Len(arca[voucher[r].kind]) : Bears(r, n)
  BY DEF Authorized
<1>2. voucher[r].kind \in Kinds /\ arca[voucher[r].kind][n].by = r /\ r # 0
  BY <1>1, RowType, RowsAreNumbers DEF IInv, Bears
<1>3. voucher[r].status # "NONE"
  BY <1>2 DEF IInv, ArcaIsFiled
<1> QED
  BY <1>1, <1>3 DEF IInv, NothingAuthorizedIsLost, Live, Pending, Issued

LEMMA IssuedWasAuthorized ==
  ASSUME IssuedIsAuthorized, NEW r \in Rows, Issued(r), voucher[r].quote \in Distinct
  PROVE  Authorized(r)
BY DEF IssuedIsAuthorized, Authorized, Bears

LEMMA OnceFollows == IInv /\ IssuedIsAuthorized => BilledOnce
<1> SUFFICES ASSUME IInv, IssuedIsAuthorized PROVE BilledOnce
  OBVIOUS
<1>1. ASSUME NEW r \in Rows, Credited(r), voucher[r].quote \in Distinct
      PROVE  \E n \in NotesOf(r) : Authorized(n)
  <2>1. PICK n \in NotesOf(r) : Issued(n)
    BY <1>1 DEF Credited
  <2>2. n \in Rows /\ voucher[n].kind = "CREDIT_NOTE" /\ voucher[n].status # "NONE" /\ voucher[n].credits = r
    BY DEF NotesOf
  <2>3. voucher[n].quote = voucher[r].quote
    BY <2>2 DEF IInv, VouchersAreFiled
  <2> QED
    BY <1>1, <2>1, <2>2, <2>3, IssuedWasAuthorized
<1>2. ASSUME NEW r \in Rows, NEW s \in Rows, Authorized(r), Authorized(s), voucher[r].kind = "INVOICE",
             voucher[s].kind = "INVOICE", voucher[r].quote = voucher[s].quote,
             voucher[r].quote \in Distinct, r # s
      PROVE  \E n \in NotesOf(r) \cup NotesOf(s) : Authorized(n)
  <2>1. Live(r) /\ Live(s)
    BY <1>2, AuthorizedIsLive
  <2>2. Credited(r) \/ Credited(s)
    BY <1>2, <2>1, OneInvoiceStands
  <2> QED
    BY <1>1, <1>2, <2>2
<1>3. ASSUME NEW n \in Rows, NEW m \in Rows, Authorized(n), Authorized(m),
             voucher[n].kind = "CREDIT_NOTE", voucher[m].kind = "CREDIT_NOTE",
             voucher[n].credits = voucher[m].credits
      PROVE  n = m
  BY <1>3, AuthorizedIsLive DEF IInv, OneStands
<1> QED
  BY <1>2, <1>3 DEF BilledOnce

(* However often Issue is pressed, retried and recovered, ARCA holds one invoice of the   *)
(* sale that is not cancelled, and an invoice is cancelled at most once.                  *)
THEOREM NothingIsBilledTwice == Spec => []BilledOnce
<1> QED
  BY OnceFollows, Invariant, RecordAgreesWithArca, PTL

=============================================================================
