------------------------- MODULE InvoicingBooks_proofs -------------------------
(***************************************************************************)
(* Invoicing keeps the promise of SaleBooks: per sale, ARCA's record and   *)
(* Coti's books move in turns. The proof reads both off the sale's rows in *)
(* a state that satisfies the invariant, then follows how rows are written *)
(* and ARCA's record grows.                                                *)
(***************************************************************************)
EXTENDS Invoicing_proofs

-----------------------------------------------------------------------------
(* What the books say, read off the sale's rows *)

Sound == IInv /\ IssuedIsAuthorized

(* Row r is of sale q; a row waits, or an invoice of the sale stands. *)
OfSale(r, q)   == voucher[r].status # "NONE" /\ voucher[r].quote = q
Waits(r, kind) == voucher[r].status = "PENDING" /\ voucher[r].kind = kind
Cancels(n, i)  == voucher[n].status # "NONE" /\ voucher[n].kind = "CREDIT_NOTE" /\ voucher[n].credits = i

Stands(i) ==
  /\ voucher[i].status = "ISSUED" /\ voucher[i].kind = "INVOICE"
  /\ \A n \in Rows : Cancels(n, i) => voucher[n].status # "ISSUED"

LEMMA BooksByRow ==
  VouchersAreFiled =>
    \A q \in Quotes :
      /\ InvoiceWaits(q) <=> \E r \in Rows : Waits(r, "INVOICE") /\ voucher[r].quote = q
      /\ NoteWaits(q) <=> \E n \in Rows : Waits(n, "CREDIT_NOTE") /\ voucher[n].quote = q
      /\ InvoiceStands(q) <=> \E i \in Rows : Stands(i) /\ voucher[i].quote = q
<1> SUFFICES ASSUME VouchersAreFiled, NEW q \in Quotes
             PROVE  /\ InvoiceWaits(q) <=> \E r \in Rows : Waits(r, "INVOICE") /\ voucher[r].quote = q
                    /\ NoteWaits(q) <=> \E n \in Rows : Waits(n, "CREDIT_NOTE") /\ voucher[n].quote = q
                    /\ InvoiceStands(q) <=> \E i \in Rows : Stands(i) /\ voucher[i].quote = q
  OBVIOUS
<1>1. InvoiceWaits(q) <=> \E r \in Rows : Waits(r, "INVOICE") /\ voucher[r].quote = q
  BY DEF InvoiceWaits, InvoicesOf, Pending, Waits
<1>2. ASSUME NEW i \in InvoicesOf(q), NEW n \in NotesOf(i), Pending(n)
      PROVE  n \in Rows /\ Waits(n, "CREDIT_NOTE") /\ voucher[n].quote = q
  BY <1>2 DEF VouchersAreFiled, InvoicesOf, NotesOf, Pending, Waits
<1>3. ASSUME NEW n \in Rows, Waits(n, "CREDIT_NOTE"), voucher[n].quote = q
      PROVE  NoteWaits(q)
  <2> DEFINE i == voucher[n].credits
  <2>1. i \in InvoicesOf(q) /\ n \in NotesOf(i)
    BY <1>3 DEF VouchersAreFiled, InvoicesOf, NotesOf, Waits, Issued
  <2> QED
    BY <1>3, <2>1 DEF NoteWaits, Pending, Waits
<1>4. InvoiceStands(q) <=> \E i \in Rows : Stands(i) /\ voucher[i].quote = q
  <2>1. \A i \in Rows : Creditable(i) <=> Stands(i)
    BY DEF Creditable, Credited, NotesOf, Issued, Stands, Cancels
  <2> QED
    BY <2>1 DEF InvoiceStands, InvoicesOf, Stands
<1> QED
  BY <1>1, <1>2, <1>3, <1>4 DEF NoteWaits

LEMMA BooksByRowNext ==
  VouchersAreFiled' =>
    (\A q \in Quotes :
      /\ InvoiceWaits(q) <=> \E r \in Rows : Waits(r, "INVOICE") /\ voucher[r].quote = q
      /\ NoteWaits(q) <=> \E n \in Rows : Waits(n, "CREDIT_NOTE") /\ voucher[n].quote = q
      /\ InvoiceStands(q) <=> \E i \in Rows : Stands(i) /\ voucher[i].quote = q)'
BY BooksByRow, PTL

LEMMA UseNext ==
  ASSUME VouchersAreFiled', NEW q \in Quotes
  PROVE  /\ InvoiceWaits(q)' <=> \E r \in Rows : Waits(r, "INVOICE")' /\ voucher'[r].quote = q
         /\ NoteWaits(q)' <=> \E n \in Rows : Waits(n, "CREDIT_NOTE")' /\ voucher'[n].quote = q
         /\ InvoiceStands(q)' <=> \E i \in Rows : Stands(i)' /\ voucher'[i].quote = q
BY BooksByRowNext

LEMMA CreditableStands == \A i \in Rows : Creditable(i) <=> Stands(i)
BY DEF Creditable, Credited, NotesOf, Issued, Stands, Cancels

LEMMA OneBooked ==
  ASSUME IInv, NEW r \in Rows, NEW s \in Rows, Waits(r, "INVOICE") \/ Stands(r), Waits(s, "INVOICE") \/ Stands(s),
         voucher[r].quote = voucher[s].quote
  PROVE  r = s
<1>1. \A t \in Rows : Waits(t, "INVOICE") \/ Stands(t) => Live(t) /\ ~Credited(t) /\ voucher[t].kind = "INVOICE"
  BY CreditableStands, PendingIsNotCredited DEF Waits, Stands, Live, Creditable, Pending
<1> QED
  BY <1>1, OneInvoiceStands

(* What ARCA holds of a sale follows from the row that waits or stands. *)
LEMMA BilledByRow ==
  Sound =>
    \A q \in Distinct :
      /\ \A r \in Rows : Waits(r, "INVOICE") /\ voucher[r].quote = q =>
           /\ Billed(q) <=> Authorized(r)
           /\ ~NoteWaits(q) /\ ~InvoiceStands(q)
      /\ \A n \in Rows : Waits(n, "CREDIT_NOTE") /\ voucher[n].quote = q =>
           /\ Billed(q) <=> ~Authorized(n)
           /\ ~InvoiceWaits(q) /\ InvoiceStands(q) /\ Stands(voucher[n].credits)
      /\ ~InvoiceWaits(q) /\ ~NoteWaits(q) => (Billed(q) <=> InvoiceStands(q))
<1> SUFFICES ASSUME Sound, NEW q \in Distinct
             PROVE  /\ \A r \in Rows : Waits(r, "INVOICE") /\ voucher[r].quote = q =>
                         /\ Billed(q) <=> Authorized(r)
                         /\ ~NoteWaits(q) /\ ~InvoiceStands(q)
                    /\ \A n \in Rows : Waits(n, "CREDIT_NOTE") /\ voucher[n].quote = q =>
                         /\ Billed(q) <=> ~Authorized(n)
                         /\ ~InvoiceWaits(q) /\ InvoiceStands(q) /\ Stands(voucher[n].credits)
                    /\ ~InvoiceWaits(q) /\ ~NoteWaits(q) => (Billed(q) <=> InvoiceStands(q))
  OBVIOUS
<1>1. IInv /\ IssuedIsAuthorized /\ VouchersAreFiled /\ q \in Quotes
  BY DEF Sound, IInv, Distinct
<1>2. /\ InvoiceWaits(q) <=> \E r \in Rows : Waits(r, "INVOICE") /\ voucher[r].quote = q
      /\ NoteWaits(q) <=> \E n \in Rows : Waits(n, "CREDIT_NOTE") /\ voucher[n].quote = q
      /\ InvoiceStands(q) <=> \E i \in Rows : Stands(i) /\ voucher[i].quote = q
  BY <1>1, BooksByRow
<1>3. \A i \in Rows : Creditable(i) <=> Stands(i)
  BY CreditableStands
<1>4. ASSUME NEW r \in Rows, NEW s \in Rows, Waits(r, "INVOICE") \/ Stands(r), Waits(s, "INVOICE") \/ Stands(s),
             voucher[r].quote = voucher[s].quote
      PROVE  r = s
  BY <1>1, <1>4, OneBooked
<1>5. \A r \in Rows : Waits(r, "INVOICE") => ~Stands(r)
  BY DEF Waits, Stands
<1>6. ASSUME NEW n \in Rows, Waits(n, "CREDIT_NOTE")
      PROVE  /\ voucher[n].credits \in Rows /\ Stands(voucher[n].credits)
             /\ voucher[voucher[n].credits].quote = voucher[n].quote
  BY <1>1, <1>3, <1>6, NotedIsNotCredited DEF Waits, Pending
(* An invoice of the sale that ARCA holds uncancelled waits or stands. *)
<1>7. ASSUME NEW s \in InvoicesOf(q), Authorized(s), \A n \in NotesOf(s) : ~Authorized(n)
      PROVE  s \in Rows /\ voucher[s].quote = q /\ (Waits(s, "INVOICE") \/ Stands(s))
  <2>1. s \in Rows /\ voucher[s].kind = "INVOICE" /\ voucher[s].quote = q
    BY DEF InvoicesOf
  <2>2. Live(s)
    BY <1>1, <1>7, <2>1, AuthorizedIsLive
  <2>3. ASSUME Issued(s) PROVE ~Credited(s)
    <3>1. \A n \in NotesOf(s) : n \in Rows /\ voucher[n].quote = q
      BY <1>1, <2>1 DEF VouchersAreFiled, NotesOf
    <3> QED
      BY <1>1, <1>7, <3>1, IssuedWasAuthorized DEF Credited
  <2> QED
    BY <1>3, <2>1, <2>2, <2>3 DEF Live, Waits, Creditable, Issued
<1>8. ASSUME NEW i \in Rows, Stands(i), voucher[i].quote = q
      PROVE  Authorized(i) /\ i \in InvoicesOf(q)
  BY <1>1, <1>8, IssuedWasAuthorized DEF Stands, Issued, InvoicesOf
<1>9. ASSUME NEW r \in Rows, Waits(r, "INVOICE"), voucher[r].quote = q
      PROVE  /\ Billed(q) <=> Authorized(r)
             /\ ~NoteWaits(q) /\ ~InvoiceStands(q)
  <2>1. ~InvoiceStands(q) /\ ~NoteWaits(q)
    BY <1>2, <1>4, <1>5, <1>6, <1>9
  <2>2. NotesOf(r) = {} /\ r \in InvoicesOf(q)
    BY <1>1, <1>9 DEF NotesOf, InvoicesOf, VouchersAreFiled, Waits, Issued
  <2>3. Billed(q) => Authorized(r)
    BY <1>4, <1>7, <1>9 DEF Billed
  <2> QED
    BY <2>1, <2>2, <2>3 DEF Billed
<1>10. ASSUME NEW n \in Rows, Waits(n, "CREDIT_NOTE"), voucher[n].quote = q
       PROVE  /\ Billed(q) <=> ~Authorized(n)
              /\ ~InvoiceWaits(q) /\ InvoiceStands(q) /\ Stands(voucher[n].credits)
  <2> DEFINE i == voucher[n].credits
  <2>1. i \in Rows /\ Stands(i) /\ voucher[i].quote = q
    BY <1>6, <1>10
  <2>2. ~InvoiceWaits(q) /\ InvoiceStands(q)
    BY <1>2, <1>4, <1>5, <2>1
  <2>3. n \in NotesOf(i)
    BY <1>10 DEF NotesOf, Waits
  <2>4. ASSUME NEW m \in NotesOf(i), Authorized(m) PROVE m = n
    <3>1. m \in Rows /\ voucher[m].kind = "CREDIT_NOTE" /\ voucher[m].credits = i
      BY DEF NotesOf
    <3>2. Live(m) /\ Live(n)
      BY <1>1, <1>10, <2>4, <3>1, AuthorizedIsLive DEF Live, Waits
    <3> QED
      BY <1>1, <1>10, <3>1, <3>2 DEF IInv, OneStands, Waits
  <2>5. ~Authorized(n) => Billed(q)
    BY <1>8, <2>1, <2>4 DEF Billed
  <2>6. Billed(q) => ~Authorized(n)
    BY <1>4, <1>7, <2>1, <2>3 DEF Billed
  <2> QED
    BY <2>1, <2>2, <2>5, <2>6
<1>11. ASSUME ~InvoiceWaits(q), ~NoteWaits(q) PROVE Billed(q) <=> InvoiceStands(q)
  <2>1. Billed(q) => InvoiceStands(q)
    BY <1>2, <1>7, <1>11 DEF Billed
  <2>2. ASSUME NEW i \in Rows, Stands(i), voucher[i].quote = q PROVE Billed(q)
    <3>1. ASSUME NEW m \in NotesOf(i), Authorized(m) PROVE FALSE
      <4>1. m \in Rows /\ voucher[m].kind = "CREDIT_NOTE" /\ voucher[m].quote = q /\ Cancels(m, i)
        BY <1>1, <2>2 DEF NotesOf, Cancels, VouchersAreFiled
      <4>2. Live(m)
        BY <1>1, <3>1, <4>1, AuthorizedIsLive
      <4> QED
        BY <1>2, <1>11, <2>2, <4>1, <4>2 DEF Live, Waits, Stands
    <3> QED
      BY <1>8, <2>2, <3>1 DEF Billed
  <2> QED
    BY <1>2, <2>1, <2>2
<1> QED
  BY <1>9, <1>10, <1>11

LEMMA BilledByRowNext ==
  Sound' =>
    (\A q \in Distinct :
      /\ \A r \in Rows : Waits(r, "INVOICE") /\ voucher[r].quote = q =>
           /\ Billed(q) <=> Authorized(r)
           /\ ~NoteWaits(q) /\ ~InvoiceStands(q)
      /\ \A n \in Rows : Waits(n, "CREDIT_NOTE") /\ voucher[n].quote = q =>
           /\ Billed(q) <=> ~Authorized(n)
           /\ ~InvoiceWaits(q) /\ InvoiceStands(q) /\ Stands(voucher[n].credits)
      /\ ~InvoiceWaits(q) /\ ~NoteWaits(q) => (Billed(q) <=> InvoiceStands(q)))'
BY BilledByRow, PTL

-----------------------------------------------------------------------------
(* What moves the books of a sale *)

BookVars ==
  <<{q \in Distinct : ~accepted[q]},
    [q \in Distinct |-> IF Billed(q) THEN "billed" ELSE "unbilled"],
    [q \in Distinct |-> BooksOf(q)]>>

LEMMA BooksStay ==
  ASSUME UNCHANGED accepted, \A q \in Distinct : BooksOf(q)' = BooksOf(q),
         \A q \in Distinct : Billed(q)' <=> Billed(q)
  PROVE  UNCHANGED BookVars
BY DEF BookVars

LEMMA BooksMove ==
  ASSUME UNCHANGED accepted, NEW q \in Distinct, NEW from, NEW to,
         BooksOf(q) = from, BooksOf(q)' = to,
         \A s \in Distinct : s # q => BooksOf(s)' = BooksOf(s),
         \A s \in Distinct : Billed(s)' <=> Billed(s)
  PROVE  Books!Book(q, from, to)
BY DEF Books!Book

(* The books of a sale are read off its own rows. *)
LEMMA OtherBooks ==
  ASSUME VouchersAreFiled, VouchersAreFiled', NEW q \in Quotes,
         \A r \in Rows : OfSale(r, q) \/ OfSale(r, q)' =>
           voucher'[r].status = voucher[r].status /\ SameVoucher(r)
  PROVE  BooksOf(q)' = BooksOf(q)
<1>1. \A r \in Rows : \A kind \in Kinds :
        (Waits(r, kind)' /\ voucher'[r].quote = q) <=> (Waits(r, kind) /\ voucher[r].quote = q)
  BY DEF OfSale, Waits, SameVoucher
<1>2. \A i \in Rows : OfSale(i, q) => \A n \in Rows : Cancels(n, i) => OfSale(n, q)
  BY DEF OfSale, Cancels, VouchersAreFiled
<1>3. \A i \in Rows : OfSale(i, q)' => \A n \in Rows : Cancels(n, i)' => OfSale(n, q)'
  BY DEF OfSale, Cancels, VouchersAreFiled
<1>4. \A i \in Rows : OfSale(i, q) <=> OfSale(i, q)'
  BY DEF OfSale, SameVoucher
<1>5. ASSUME NEW i \in Rows, OfSale(i, q)
      PROVE  \A n \in Rows : /\ Cancels(n, i)' <=> Cancels(n, i)
                             /\ Cancels(n, i) => voucher'[n].status = voucher[n].status
  BY <1>2, <1>3, <1>4, <1>5 DEF Cancels, SameVoucher
<1>6. \A i \in Rows : (Stands(i)' /\ voucher'[i].quote = q) <=> (Stands(i) /\ voucher[i].quote = q)
  <2> TAKE i \in Rows
  <2>1. CASE OfSale(i, q)
    BY <1>5, <2>1 DEF Stands, OfSale, SameVoucher
  <2>2. CASE ~OfSale(i, q)
    BY <1>4, <2>2 DEF Stands, OfSale
  <2> QED
    BY <2>1, <2>2
<1>7. "INVOICE" \in Kinds /\ "CREDIT_NOTE" \in Kinds
  BY DEF Kinds
<1>8. /\ InvoiceWaits(q)' <=> InvoiceWaits(q)
      /\ NoteWaits(q)' <=> NoteWaits(q)
      /\ InvoiceStands(q)' <=> InvoiceStands(q)
  BY <1>1, <1>6, <1>7, BooksByRow, UseNext
<1> QED
  BY <1>8 DEF BooksOf

(* What ARCA holds of the sales moves with its record, and not with the rows' outcome. *)
LEMMA SameFiscal ==
  ASSUME TypeOK, UNCHANGED arca,
         \A r \in Rows : /\ SameVoucher(r)
                         /\ voucher'[r].status # "NONE" <=> voucher[r].status # "NONE"
  PROVE  /\ \A r \in Rows : Authorized(r)' <=> Authorized(r)
         /\ \A q : Billed(q)' <=> Billed(q)
<1>1. \A r \in Rows : Authorized(r)' <=> Authorized(r)
  BY BearsIsKept DEF Authorized, SameVoucher
<1>2. \A q : InvoicesOf(q)' = InvoicesOf(q)
  BY DEF InvoicesOf, SameVoucher
<1>3. \A i : NotesOf(i)' = NotesOf(i)
  BY DEF NotesOf, SameVoucher
<1>4. \A q : InvoicesOf(q) \subseteq Rows
  BY DEF InvoicesOf
<1>5. \A i : NotesOf(i) \subseteq Rows
  BY DEF NotesOf
<1> QED
  BY <1>1, <1>2, <1>3, <1>4, <1>5 DEF Billed

-----------------------------------------------------------------------------
(* The outcome of a row *)

LEMMA OutcomeKeeps ==
  ASSUME IInv, NEW r \in Rows, Issues(r) \/ Drops(r)
  PROVE  /\ TypeOK /\ Pending(r) /\ arca' = arca /\ accepted' = accepted
         /\ voucher[r].quote \in Quotes /\ voucher[r].kind \in Kinds
         /\ \A s \in Rows : SameVoucher(s) /\ (s # r => voucher'[s] = voucher[s])
         /\ voucher'[r].status = IF Issues(r) THEN "ISSUED" ELSE "REJECTED"
         /\ \A q : Billed(q)' <=> Billed(q)
         /\ \A s \in Rows : s # r => ~(Waits(s, voucher[r].kind))
<1>1. TypeOK /\ Pending(r) /\ arca' = arca /\ accepted' = accepted
  BY DEF IInv, Issues, Drops, saleVars
<1>2. voucher[r].quote \in Quotes /\ voucher[r].kind \in Kinds
  BY <1>1, RowType DEF IInv, VouchersAreFiled, Pending
<1>3. /\ \A s \in Rows : SameVoucher(s) /\ (s # r => voucher'[s] = voucher[s])
      /\ Issues(r) => voucher'[r].status = "ISSUED"
      /\ Drops(r) => voucher'[r].status = "REJECTED"
  BY <1>1, IssuesRow, DropsRow
<1>4. \A s \in Rows : voucher'[s].status # "NONE" <=> voucher[s].status # "NONE"
  BY <1>1, <1>3 DEF Pending
<1>5. \A q : Billed(q)' <=> Billed(q)
  BY <1>1, <1>3, <1>4, SameFiscal
<1>6. \A s \in Rows : s # r => ~(Waits(s, voucher[r].kind))
  BY <1>1 DEF IInv, OneWaitsPerSeries, Waits, Pending
<1> QED
  BY <1>1, <1>2, <1>3, <1>5, <1>6

LEMMA InvoiceOutcome ==
  ASSUME Sound, VouchersAreFiled', NEW r \in Rows, Issues(r) \/ Drops(r), voucher[r].kind = "INVOICE",
         voucher[r].quote \in Distinct
  PROVE  /\ BooksOf(voucher[r].quote) = "invoicing"
         /\ \A q \in Quotes : q = voucher[r].quote =>
              BooksOf(q)' = IF Issues(r) THEN "billed" ELSE "clear"
<1>1. PICK q \in Quotes : q = voucher[r].quote /\ q \in Distinct
  BY DEF Distinct
<1>2. /\ IInv /\ Pending(r) /\ \A s \in Rows : SameVoucher(s) /\ (s # r => voucher'[s] = voucher[s])
      /\ voucher'[r].status = IF Issues(r) THEN "ISSUED" ELSE "REJECTED"
      /\ \A s \in Rows : s # r => ~(Waits(s, "INVOICE"))
  BY OutcomeKeeps DEF Sound
<1>3. Waits(r, "INVOICE") /\ ~NoteWaits(q) /\ ~InvoiceStands(q) /\ InvoiceWaits(q)
  <2>1. Waits(r, "INVOICE")
    BY <1>2 DEF Waits, Pending
  <2>2. ~NoteWaits(q) /\ ~InvoiceStands(q)
    BY <1>1, <2>1, BilledByRow
  <2> QED
    BY <1>1, <1>2, <2>1, <2>2, BooksByRow DEF IInv
<1>4. ~(InvoiceWaits(q)') /\ ~(NoteWaits(q)')
  <2>1. \A s \in Rows : ~(Waits(s, "INVOICE")')
    BY <1>2 DEF Waits, SameVoucher
  <2>2. \A s \in Rows : Waits(s, "CREDIT_NOTE")' /\ voucher'[s].quote = q =>
          Waits(s, "CREDIT_NOTE") /\ voucher[s].quote = q
    BY <1>2 DEF Waits, SameVoucher
  <2>3. \A s \in Rows : ~(Waits(s, "CREDIT_NOTE")') \/ voucher'[s].quote # q
    BY <1>2, <1>3, <2>2, BooksByRow DEF IInv
  <2> QED
    BY <2>1, <2>3, UseNext
<1>5. CASE Issues(r)
  <2>1. \A n \in Rows : ~Cancels(n, r)'
    <3>1. \A n \in Rows : ~Cancels(n, r)
      BY <1>2 DEF Cancels, IInv, VouchersAreFiled, Issued, Pending
    <3> QED
      BY <1>2, <3>1 DEF Cancels, SameVoucher, Pending
  <2>2. Stands(r)' /\ voucher'[r].quote = q
    BY <1>1, <1>2, <1>5, <2>1 DEF Stands, SameVoucher
  <2> QED
    BY <1>1, <1>3, <1>4, <1>5, <2>2, UseNext DEF BooksOf
<1>6. CASE ~Issues(r)
  <2>1. \A n, i \in Rows : Cancels(n, i) /\ voucher[n].status = "ISSUED" =>
          Cancels(n, i)' /\ voucher'[n].status = "ISSUED"
    BY <1>2 DEF Cancels, SameVoucher, Pending
  <2>2. \A i \in Rows : Stands(i)' /\ voucher'[i].quote = q => Stands(i) /\ voucher[i].quote = q
    BY <1>2, <1>6, <2>1 DEF Stands, SameVoucher
  <2>3. ~(InvoiceStands(q)')
    BY <1>2, <1>3, <2>2, BooksByRow, UseNext DEF IInv
  <2> QED
    BY <1>1, <1>3, <1>4, <1>6, <2>3 DEF BooksOf
<1> QED
  BY <1>5, <1>6

LEMMA NoteOutcome ==
  ASSUME Sound, VouchersAreFiled', NEW r \in Rows, Issues(r) \/ Drops(r), voucher[r].kind = "CREDIT_NOTE",
         voucher[r].quote \in Distinct
  PROVE  /\ BooksOf(voucher[r].quote) = "crediting"
         /\ \A q \in Quotes : q = voucher[r].quote =>
              BooksOf(q)' = IF Issues(r) THEN "clear" ELSE "billed"
<1>1. PICK q \in Quotes : q = voucher[r].quote /\ q \in Distinct
  BY DEF Distinct
<1>2. PICK i \in Rows : i = voucher[r].credits /\ Stands(i) /\ voucher[i].quote = q /\ Waits(r, "CREDIT_NOTE")
  <2>1. Waits(r, "CREDIT_NOTE") /\ Pending(r) /\ IInv
    BY OutcomeKeeps DEF Waits, Pending, Sound
  <2>2. voucher[r].credits \in Rows /\ voucher[voucher[r].credits].quote = q
    BY <1>1, <2>1, NotedIsNotCredited
  <2> QED
    BY <1>1, <2>1, <2>2, BilledByRow
<1>3. /\ IInv /\ \A s \in Rows : SameVoucher(s) /\ (s # r => voucher'[s] = voucher[s])
      /\ voucher'[r].status = IF Issues(r) THEN "ISSUED" ELSE "REJECTED"
      /\ \A s \in Rows : s # r => ~(Waits(s, "CREDIT_NOTE"))
  BY OutcomeKeeps DEF Sound
<1>4. NoteWaits(q) /\ ~InvoiceWaits(q)
  <2>1. ~InvoiceWaits(q)
    BY <1>1, <1>2, BilledByRow
  <2> QED
    BY <1>1, <1>2, <1>3, <2>1, BooksByRow DEF IInv
<1>5. ~(InvoiceWaits(q)') /\ ~(NoteWaits(q)')
  <2>1. \A s \in Rows : ~(Waits(s, "CREDIT_NOTE")')
    BY <1>3 DEF Waits, SameVoucher
  <2>2. \A s \in Rows : Waits(s, "INVOICE")' /\ voucher'[s].quote = q =>
          Waits(s, "INVOICE") /\ voucher[s].quote = q
    BY <1>3 DEF Waits, SameVoucher
  <2>3. \A s \in Rows : ~(Waits(s, "INVOICE")') \/ voucher'[s].quote # q
    BY <1>3, <1>4, <2>2, BooksByRow DEF IInv
  <2> QED
    BY <2>1, <2>3, UseNext
<1>6. i # r /\ voucher'[i] = voucher[i]
  BY <1>2, <1>3 DEF Stands, Waits
<1>7. CASE Issues(r)
  <2>1. ~(Stands(i)')
    BY <1>2, <1>3, <1>7 DEF Stands, Cancels, SameVoucher, Waits
  <2>2. \A j \in Rows : Stands(j)' /\ voucher'[j].quote = q => Stands(j) /\ voucher[j].quote = q
    <3>1. \A n, j \in Rows : Cancels(n, j) /\ voucher[n].status = "ISSUED" =>
            Cancels(n, j)' /\ voucher'[n].status = "ISSUED"
      BY <1>2, <1>3 DEF Cancels, SameVoucher, Waits
    <3>2. \A j \in Rows : voucher'[j].kind = "INVOICE" => j # r
      BY <1>3 DEF SameVoucher
    <3> QED
      BY <1>3, <3>1, <3>2 DEF Stands, SameVoucher
  <2>3. \A j \in Rows : Stands(j) /\ voucher[j].quote = q => j = i
    BY <1>2, <1>3, OneBooked
  <2>4. ~(InvoiceStands(q)')
    BY <2>1, <2>2, <2>3, UseNext
  <2> QED
    BY <1>1, <1>4, <1>5, <1>7, <2>4 DEF BooksOf
<1>8. CASE ~Issues(r)
  <2>1. \A n \in Rows : Cancels(n, i)' /\ voucher'[n].status = "ISSUED" =>
          Cancels(n, i) /\ voucher[n].status = "ISSUED"
    BY <1>3, <1>8 DEF Cancels, SameVoucher
  <2>2. Stands(i)' /\ voucher'[i].quote = q
    BY <1>2, <1>6, <2>1 DEF Stands
  <2> QED
    BY <1>1, <1>4, <1>5, <1>8, <2>2, UseNext DEF BooksOf
<1> QED
  BY <1>7, <1>8

LEMMA OutcomeBooks ==
  ASSUME Sound, Sound', NEW r \in Rows, Issues(r) \/ Drops(r)
  PROVE  UNCHANGED BookVars \/ \E q \in Distinct : \/ Books!RecordInvoice(q) \/ Books!DropInvoice(q)
                                                   \/ Books!RecordNote(q) \/ Books!DropNote(q)
<1>1. IInv /\ VouchersAreFiled /\ VouchersAreFiled'
  BY DEF Sound, IInv
<1>2. /\ TypeOK /\ Pending(r) /\ accepted' = accepted
      /\ voucher[r].quote \in Quotes /\ voucher[r].kind \in Kinds
      /\ \A s \in Rows : SameVoucher(s) /\ (s # r => voucher'[s] = voucher[s])
      /\ \A q : Billed(q)' <=> Billed(q)
  BY <1>1, OutcomeKeeps
<1>3. \A s \in Distinct : s # voucher[r].quote => BooksOf(s)' = BooksOf(s)
  <2> SUFFICES ASSUME NEW s \in Distinct, s # voucher[r].quote PROVE BooksOf(s)' = BooksOf(s)
    OBVIOUS
  <2>1. s \in Quotes
    BY DEF Distinct
  <2>2. \A t \in Rows : OfSale(t, s) \/ OfSale(t, s)' => t # r
    BY <1>2 DEF OfSale, SameVoucher
  <2> QED
    BY <1>1, <1>2, <2>1, <2>2, OtherBooks
<1>4. CASE voucher[r].quote \notin Distinct
  <2>1. \A s \in Distinct : BooksOf(s)' = BooksOf(s)
    BY <1>3, <1>4
  <2> QED
    BY <1>2, <2>1, BooksStay
<1>5. CASE voucher[r].quote \in Distinct
  <2>1. PICK q \in Quotes : q = voucher[r].quote /\ q \in Distinct
    BY <1>5 DEF Distinct
  <2>2. \A s \in Distinct : s # q => BooksOf(s)' = BooksOf(s)
    BY <1>3, <2>1
  <2>3. Drops(r) => ~Authorized(r)
    BY DEF Drops, Unborne, Authorized
  <2>4. Issues(r) => Authorized(r)
    BY <1>1, <1>5, IssuesItsOwn DEF Authorized, Issues
  <2>5. CASE voucher[r].kind = "INVOICE"
    <3>1. BooksOf(q) = "invoicing" /\ BooksOf(q)' = IF Issues(r) THEN "billed" ELSE "clear"
      BY <1>1, <1>5, <2>1, <2>5, InvoiceOutcome
    <3>2. Billed(q) <=> Authorized(r)
      BY <1>2, <2>1, <2>5, BilledByRow DEF Waits, Pending
    <3>3. CASE Issues(r)
      <4>1. Books!Book(q, "invoicing", "billed")
        BY <1>2, <2>1, <2>2, <3>1, <3>3, BooksMove
      <4> QED
        BY <2>1, <2>4, <3>2, <3>3, <4>1 DEF Books!RecordInvoice
    <3>4. CASE ~Issues(r)
      <4>1. Books!Book(q, "invoicing", "clear")
        BY <1>2, <2>1, <2>2, <3>1, <3>4, BooksMove
      <4> QED
        BY <2>1, <2>3, <3>2, <3>4, <4>1 DEF Books!DropInvoice
    <3> QED
      BY <3>3, <3>4
  <2>6. CASE voucher[r].kind = "CREDIT_NOTE"
    <3>1. BooksOf(q) = "crediting" /\ BooksOf(q)' = IF Issues(r) THEN "clear" ELSE "billed"
      BY <1>1, <1>5, <2>1, <2>6, NoteOutcome
    <3>2. Billed(q) <=> ~Authorized(r)
      BY <1>2, <2>1, <2>6, BilledByRow DEF Waits, Pending
    <3>3. CASE Issues(r)
      <4>1. Books!Book(q, "crediting", "clear")
        BY <1>2, <2>1, <2>2, <3>1, <3>3, BooksMove
      <4> QED
        BY <2>1, <2>4, <3>2, <3>3, <4>1 DEF Books!RecordNote
    <3>4. CASE ~Issues(r)
      <4>1. Books!Book(q, "crediting", "billed")
        BY <1>2, <2>1, <2>2, <3>1, <3>4, BooksMove
      <4> QED
        BY <2>1, <2>3, <3>2, <3>4, <4>1 DEF Books!DropNote
    <3> QED
      BY <3>3, <3>4
  <2> QED
    BY <1>2, <2>5, <2>6 DEF Kinds
<1> QED
  BY <1>4, <1>5

-----------------------------------------------------------------------------
(* A row is filed *)

LEMMA FiledKeeps ==
  ASSUME Sound, Sound', NEW r \in Rows, UNCHANGED arca, voucher[r].status = "NONE",
         voucher'[r].status = "PENDING", \A s \in Rows : s # r => voucher'[s] = voucher[s]
  PROVE  /\ \A s \in Rows : Authorized(s) /\ voucher[s].status # "NONE" => Authorized(s)'
         /\ \A s \in Rows : Authorized(s)' => s # r /\ Authorized(s)
         /\ \A q \in Distinct : Billed(q)' <=> Billed(q)
<1>1. TypeOK /\ TypeOK' /\ IInv /\ IInv'
  BY DEF Sound, IInv
<1>2. \A s \in Rows : s # r => (Authorized(s)' <=> Authorized(s))
  BY <1>1, BearsIsKept DEF Authorized
<1>3. ~(Authorized(r)')
  <2>1. voucher'[r].kind \in Kinds
    BY <1>1 DEF TypeOK, VoucherType
  <2>2. \A n \in 1..Len(arca[voucher'[r].kind]) : arca[voucher'[r].kind][n].by # r
    BY <1>1, <2>1, RowsAreNumbers DEF IInv, ArcaIsFiled
  <2> QED
    BY <2>2 DEF Authorized, Bears
<1>4. \A q : \A s \in Rows : s # r => (s \in InvoicesOf(q)' <=> s \in InvoicesOf(q))
  BY DEF InvoicesOf
<1>5. \A i : \A n \in Rows : n # r => (n \in NotesOf(i)' <=> n \in NotesOf(i))
  BY DEF NotesOf
<1>6. (\A q : r \notin InvoicesOf(q)) /\ (\A i : r \notin NotesOf(i))
  BY DEF InvoicesOf, NotesOf
<1>7. (\A q : InvoicesOf(q) \subseteq Rows) /\ (\A i : NotesOf(i) \subseteq Rows)
  BY DEF InvoicesOf, NotesOf
<1>8. (\A q : InvoicesOf(q)' \subseteq Rows) /\ (\A i : NotesOf(i)' \subseteq Rows)
  BY DEF InvoicesOf, NotesOf
<1>9. \A q : Billed(q)' <=> Billed(q)
  BY <1>2, <1>3, <1>4, <1>5, <1>6, <1>7, <1>8 DEF Billed
<1> QED
  BY <1>2, <1>3, <1>9

LEMMA InvoiceFiledBooks ==
  ASSUME Sound, Sound', NEW r \in Rows, NEW q \in Quotes, FilesInvoice(r, q)
  PROVE  UNCHANGED BookVars \/ (q \in Distinct /\ Books!StartInvoice(q))
<1>1. IInv /\ TypeOK /\ VouchersAreFiled /\ VouchersAreFiled'
  BY DEF Sound, IInv
<1>2. /\ voucher[r].status = "NONE" /\ voucher'[r].status = "PENDING" /\ voucher'[r].kind = "INVOICE"
      /\ voucher'[r].quote = q /\ \A s \in Rows : s # r => voucher'[s] = voucher[s]
      /\ arca' = arca /\ accepted' = accepted /\ accepted[q]
  BY <1>1, FilesInvoiceRow DEF FilesInvoice, saleVars, NothingMissing
<1>3. \A s \in Distinct : Billed(s)' <=> Billed(s)
  BY <1>2, FiledKeeps
<1>4. \A s \in Distinct : s # q => BooksOf(s)' = BooksOf(s)
  <2> SUFFICES ASSUME NEW s \in Distinct, s # q PROVE BooksOf(s)' = BooksOf(s)
    OBVIOUS
  <2>1. s \in Quotes
    BY DEF Distinct
  <2>2. \A t \in Rows : OfSale(t, s) \/ OfSale(t, s)' => t # r
    BY <1>2 DEF OfSale
  <2>3. \A t \in Rows : t # r => voucher'[t].status = voucher[t].status /\ SameVoucher(t)
    BY <1>2 DEF SameVoucher
  <2> QED
    BY <1>1, <2>1, <2>2, <2>3, OtherBooks
<1>5. CASE q \notin Distinct
  <2>1. \A s \in Distinct : BooksOf(s)' = BooksOf(s)
    BY <1>4, <1>5
  <2> QED
    BY <1>2, <1>3, <2>1, BooksStay
<1>6. CASE q \in Distinct
  <2>1. \A s \in Rows : ~(Waits(s, "INVOICE"))
    BY DEF FilesInvoice, UniqueViolation, PendingSeriesTaken, InvoiceOf, NoVoucher, Waits, Pending
  <2>2. \A i \in Rows : Stands(i) => voucher[i].quote # q
    <3> SUFFICES ASSUME NEW i \in Rows, Stands(i), voucher[i].quote = q PROVE FALSE
      OBVIOUS
    <3>1. Live(i) /\ ~Credited(i) /\ voucher[i].kind = "INVOICE" /\ i \in InvoicesOf(q)
      BY CreditableStands DEF Stands, Live, Creditable, InvoicesOf
    <3>2. voucher[i].replaces = LatestCredited(q)
      BY <1>1, <3>1 DEF IInv, OneStands
    <3> QED
      BY <3>1, <3>2 DEF FilesInvoice, UniqueViolation, ActiveQuoteTaken, InvoiceOf, NoVoucher, Live
  <2>3. ~InvoiceWaits(q) /\ ~InvoiceStands(q) /\ ~NoteWaits(q)
    BY <1>1, <1>6, <2>1, <2>2, BooksByRow, BilledByRow
  <2>4. InvoiceWaits(q)'
    <3>1. Waits(r, "INVOICE")' /\ voucher'[r].quote = q
      BY <1>2 DEF Waits
    <3> QED
      BY <1>1, <3>1, UseNext
  <2>5. BooksOf(q) = "clear" /\ BooksOf(q)' = "invoicing"
    BY <2>3, <2>4 DEF BooksOf
  <2>6. Books!Book(q, "clear", "invoicing")
    BY <1>2, <1>3, <1>4, <1>6, <2>5, BooksMove
  <2> QED
    BY <1>2, <1>6, <2>6 DEF Books!StartInvoice
<1> QED
  BY <1>5, <1>6

LEMMA NoteFiledBooks ==
  ASSUME Sound, Sound', NEW r \in Rows, NEW i \in Rows, FilesNote(r, i)
  PROVE  UNCHANGED BookVars \/ \E q \in Distinct : Books!StartNote(q)
<1>1. IInv /\ TypeOK /\ VouchersAreFiled /\ VouchersAreFiled'
  BY DEF Sound, IInv
<1>2. /\ voucher[r].status = "NONE" /\ voucher'[r].status = "PENDING" /\ voucher'[r].kind = "CREDIT_NOTE"
      /\ voucher'[r].quote = voucher[i].quote /\ \A s \in Rows : s # r => voucher'[s] = voucher[s]
      /\ arca' = arca /\ accepted' = accepted /\ Stands(i)
  BY <1>1, FilesNoteRow, CreditableStands DEF FilesNote, saleVars
<1>3. PICK q \in Quotes : q = voucher[i].quote
  BY <1>1, <1>2 DEF VouchersAreFiled, Stands
<1>4. \A s \in Distinct : Billed(s)' <=> Billed(s)
  BY <1>2, FiledKeeps
<1>5. \A s \in Distinct : s # q => BooksOf(s)' = BooksOf(s)
  <2> SUFFICES ASSUME NEW s \in Distinct, s # q PROVE BooksOf(s)' = BooksOf(s)
    OBVIOUS
  <2>1. s \in Quotes
    BY DEF Distinct
  <2>2. \A t \in Rows : OfSale(t, s) \/ OfSale(t, s)' => t # r
    BY <1>2, <1>3 DEF OfSale
  <2>3. \A t \in Rows : t # r => voucher'[t].status = voucher[t].status /\ SameVoucher(t)
    BY <1>2 DEF SameVoucher
  <2> QED
    BY <1>1, <2>1, <2>2, <2>3, OtherBooks
<1>6. CASE q \notin Distinct
  <2>1. \A s \in Distinct : BooksOf(s)' = BooksOf(s)
    BY <1>5, <1>6
  <2> QED
    BY <1>2, <1>4, <2>1, BooksStay
<1>7. CASE q \in Distinct
  <2>1. \A s \in Rows : ~(Waits(s, "CREDIT_NOTE"))
    BY DEF FilesNote, UniqueViolation, PendingSeriesTaken, NoteOf, NoVoucher, Waits, Pending
  <2>2. ~NoteWaits(q) /\ InvoiceStands(q) /\ ~InvoiceWaits(q)
    <3>1. ~NoteWaits(q) /\ InvoiceStands(q)
      BY <1>1, <1>2, <1>3, <2>1, BooksByRow
    <3> QED
      BY <1>1, <1>7, <3>1, BooksByRow, BilledByRow
  <2>3. NoteWaits(q)'
    <3>1. Waits(r, "CREDIT_NOTE")' /\ voucher'[r].quote = q
      BY <1>2, <1>3 DEF Waits
    <3> QED
      BY <1>1, <3>1, UseNext
  <2>4. ~(InvoiceWaits(q)')
    <3>1. \A s \in Rows : Waits(s, "INVOICE")' /\ voucher'[s].quote = q =>
            Waits(s, "INVOICE") /\ voucher[s].quote = q
      BY <1>2 DEF Waits
    <3> QED
      BY <1>1, <2>2, <3>1, BooksByRow, UseNext
  <2>5. BooksOf(q) = "billed" /\ BooksOf(q)' = "crediting"
    BY <2>2, <2>3, <2>4 DEF BooksOf
  <2>6. Books!Book(q, "billed", "crediting")
    BY <1>2, <1>4, <1>5, <1>7, <2>5, BooksMove
  <2> QED
    BY <1>7, <2>6 DEF Books!StartNote
<1> QED
  BY <1>6, <1>7

-----------------------------------------------------------------------------
(* A row is leased, ages or claims its number *)

LEMMA AnnotatedBooks ==
  ASSUME Sound, NEW r \in Rows, Dates(r) \/ Claims(r)
  PROVE  UNCHANGED BookVars
<1>1. TypeOK /\ arca' = arca /\ accepted' = accepted
  BY DEF Sound, IInv, Dates, Claims, saleVars
<1>2. \A s \in Rows : voucher'[s].status = voucher[s].status /\ SameVoucher(s)
  BY <1>1, DatesRow, ClaimsRow
<1>3. \A q : Billed(q)' <=> Billed(q)
  BY <1>1, <1>2, SameFiscal
<1>4. \A q : BooksOf(q)' = BooksOf(q)
  <2>1. \A q : InvoicesOf(q)' = InvoicesOf(q)
    BY <1>2 DEF InvoicesOf, SameVoucher
  <2>2. \A i : NotesOf(i)' = NotesOf(i)
    BY <1>2 DEF NotesOf, SameVoucher
  <2>3. (\A q : InvoicesOf(q) \subseteq Rows) /\ (\A i : NotesOf(i) \subseteq Rows)
    BY DEF InvoicesOf, NotesOf
  <2>4. \A s \in Rows : (Pending(s)' <=> Pending(s)) /\ (Issued(s)' <=> Issued(s))
    BY <1>2 DEF Pending, Issued
  <2>5. \A s \in Rows : Credited(s)' <=> Credited(s)
    BY <2>2, <2>3, <2>4 DEF Credited
  <2>6. \A s \in Rows : Creditable(s)' <=> Creditable(s)
    BY <1>2, <2>4, <2>5 DEF Creditable, SameVoucher
  <2>7. \A q : (InvoiceWaits(q)' <=> InvoiceWaits(q)) /\ (InvoiceStands(q)' <=> InvoiceStands(q))
    BY <2>1, <2>3, <2>4, <2>6 DEF InvoiceWaits, InvoiceStands
  <2>8. \A q : NoteWaits(q)' <=> NoteWaits(q)
    BY <2>1, <2>2, <2>3, <2>4 DEF NoteWaits
  <2> QED
    BY <2>7, <2>8 DEF BooksOf
<1> QED
  BY <1>1, <1>3, <1>4, BooksStay

-----------------------------------------------------------------------------
(* ARCA's record grows *)

LEMMA AuthorizedIsBorne ==
  /\ \A r : Authorized(r) <=> ~Unborne(r)
  /\ \A r : Authorized(r)' <=> ~(Unborne(r)')
BY DEF Authorized, Unborne

LEMMA GrownRecord ==
  ASSUME TypeOK, UNCHANGED voucher, NEW k \in Kinds, NEW by,
         \A j \in Kinds : j # k => arca'[j] = arca[j],
         Len(arca'[k]) = Len(arca[k]) + 1,
         \A n \in 1..Len(arca[k]) : arca'[k][n] = arca[k][n],
         arca'[k][Len(arca[k]) + 1].by = by
  PROVE  /\ \A s \in Rows : Authorized(s) => Authorized(s)'
         /\ \A s \in Rows : s # by => (Authorized(s)' => Authorized(s))
<1>1. ASSUME NEW s \in Rows, Authorized(s) PROVE Authorized(s)'
  <2>1. PICK n \in 1..Len(arca[voucher[s].kind]) : Bears(s, n)
    BY <1>1 DEF Authorized
  <2>2. n \in Nat
    BY <2>1, RowType
  <2>3. Bears(s, n)'
    BY <2>1, <2>2, GrownView
  <2> QED
    BY <2>3 DEF Authorized, Bears
<1>2. \A s \in Rows : s # by => (Unborne(s) => Unborne(s)')
  BY GrownView
<1> QED
  BY <1>1, <1>2, AuthorizedIsBorne

LEMMA SameRowsSameBooks ==
  ASSUME UNCHANGED voucher
  PROVE  /\ \A q : BooksOf(q)' = BooksOf(q)
         /\ \A q : InvoicesOf(q)' = InvoicesOf(q) /\ InvoicesOf(q) \subseteq Rows
         /\ \A i : NotesOf(i)' = NotesOf(i) /\ NotesOf(i) \subseteq Rows
<1>1. \A i : NotesOf(i)' = NotesOf(i) /\ NotesOf(i) \subseteq Rows
  BY DEF NotesOf
<1>2. \A q : InvoicesOf(q)' = InvoicesOf(q) /\ InvoicesOf(q) \subseteq Rows
  BY DEF InvoicesOf
<1>3. \A s : (Pending(s)' <=> Pending(s)) /\ (Issued(s)' <=> Issued(s))
  BY DEF Pending, Issued
<1>4. \A s : Creditable(s)' <=> Creditable(s)
  BY <1>1, <1>3 DEF Creditable, Credited
<1>5. \A q : (InvoiceWaits(q)' <=> InvoiceWaits(q)) /\ (InvoiceStands(q)' <=> InvoiceStands(q))
  BY <1>2, <1>3, <1>4 DEF InvoiceWaits, InvoiceStands
<1>6. \A q : NoteWaits(q)' <=> NoteWaits(q)
  BY <1>1, <1>2, <1>3 DEF NoteWaits
<1> QED
  BY <1>1, <1>2, <1>5, <1>6 DEF BooksOf

LEMMA OtherSystemBooks ==
  ASSUME Sound, NEW k \in Kinds, OtherSystemIssues(k)
  PROVE  UNCHANGED BookVars
<1>1. TypeOK /\ voucher' = voucher /\ accepted' = accepted
  BY DEF Sound, IInv, OtherSystemIssues, saleVars
<1>2. \A s \in Rows : Authorized(s)' <=> Authorized(s)
  <2>1. /\ \A j \in Kinds : j # k => arca'[j] = arca[j]
        /\ Len(arca'[k]) = Len(arca[k]) + 1
        /\ \A n \in 1..Len(arca[k]) : arca'[k][n] = arca[k][n]
        /\ arca'[k][Len(arca[k]) + 1].by = 0
    BY <1>1, OtherSystemRow
  <2> QED
    BY <1>1, <2>1, GrownRecord, RowsAreNumbers
<1>3. \A q : Billed(q)' <=> Billed(q)
  BY <1>1, <1>2, SameRowsSameBooks DEF Billed
<1> QED
  BY <1>1, <1>3, SameRowsSameBooks, BooksStay

LEMMA AuthorizedBooks ==
  ASSUME Sound, Sound', NEW r \in Rows, ArcaAuthorizes(r)
  PROVE  UNCHANGED BookVars \/ \E q \in Distinct : Books!Bill(q) \/ Books!Credit(q)
<1>1. /\ IInv /\ TypeOK /\ VouchersAreFiled /\ VouchersAreFiled' /\ voucher' = voucher /\ accepted' = accepted
      /\ voucher[r].kind \in Kinds
  BY RowType DEF Sound, IInv, ArcaAuthorizes, saleVars
<1>2. Pending(r) /\ ~Authorized(r)
  <2>1. voucher[r].claimed = Len(arca[voucher[r].kind]) + 1 /\ Len(arca[voucher[r].kind]) \in Nat
    BY <1>1, ArcaRow, RowType
  <2>2. Pending(r) /\ Unborne(r)
    BY <1>1, <2>1, ArcaRow DEF IInv, RequestsFollow
  <2> QED
    BY <2>2, AuthorizedIsBorne
<1>3. Authorized(r)' /\ \A s \in Rows : s # r => (Authorized(s)' <=> Authorized(s))
  <2> DEFINE k == voucher[r].kind
  <2>1. /\ \A j \in Kinds : j # k => arca'[j] = arca[j]
        /\ Len(arca'[k]) = Len(arca[k]) + 1 /\ Len(arca[k]) \in Nat
        /\ \A n \in 1..Len(arca[k]) : arca'[k][n] = arca[k][n]
        /\ arca'[k][Len(arca[k]) + 1].by = r
    BY <1>1, ArcaRow, RowType
  <2> HIDE DEF k
  <2>2. \A s \in Rows : s # r => (Authorized(s)' <=> Authorized(s))
    <3>1. k \in Kinds
      BY <1>1 DEF k
    <3> QED
      BY <1>1, <2>1, <3>1, GrownRecord
  <2>3. Authorized(r)'
    <3> DEFINE last == Len(arca[k])
    <3>1. last \in Nat /\ Len(arca'[k]) = last + 1 /\ arca'[k][last + 1].by = r
      BY <2>1
    <3> HIDE DEF last
    <3>2. last + 1 \in 1..Len(arca'[k])
      BY <3>1
    <3>3. voucher'[r].kind = k
      BY <1>1 DEF k
    <3> QED
      BY <3>1, <3>2, <3>3 DEF Authorized, Bears
  <2> QED
    BY <2>2, <2>3
<1>4. PICK q \in Quotes : q = voucher[r].quote
  BY <1>1, <1>2 DEF VouchersAreFiled, Pending
<1>5. ASSUME NEW s \in Quotes, s # q PROVE Billed(s)' <=> Billed(s)
  <2>1. r \notin InvoicesOf(s) /\ \A i \in InvoicesOf(s) : r \notin NotesOf(i)
    BY <1>1, <1>4, <1>5 DEF InvoicesOf, NotesOf, VouchersAreFiled
  <2>2. \A i \in InvoicesOf(s) : Authorized(i)' <=> Authorized(i)
    BY <1>1, <1>3, <2>1, SameRowsSameBooks
  <2>3. \A i \in InvoicesOf(s) : \A n \in NotesOf(i) : Authorized(n)' <=> Authorized(n)
    BY <1>1, <1>3, <2>1, SameRowsSameBooks
  <2>4. InvoicesOf(s)' = InvoicesOf(s) /\ \A i : NotesOf(i)' = NotesOf(i)
    BY <1>1, SameRowsSameBooks
  <2> QED
    BY <2>2, <2>3, <2>4 DEF Billed
<1>6. \A s \in Distinct : BooksOf(s)' = BooksOf(s)
  BY <1>1, SameRowsSameBooks
<1>7. CASE q \notin Distinct
  <2>1. \A s \in Distinct : Billed(s)' <=> Billed(s)
    BY <1>5, <1>7 DEF Distinct
  <2> QED
    BY <1>1, <1>6, <2>1, BooksStay
<1>8. CASE q \in Distinct /\ voucher[r].kind = "INVOICE"
  <2>1. Waits(r, "INVOICE") /\ Waits(r, "INVOICE")' /\ voucher'[r].quote = q
    BY <1>1, <1>2, <1>4, <1>8 DEF Waits, Pending
  <2>2. ~Billed(q)
    BY <1>2, <1>4, <1>8, <2>1, BilledByRow
  <2>3. Billed(q)'
    BY <1>3, <1>8, <2>1, BilledByRowNext
  <2>4. BooksOf(q) = "invoicing"
    BY <1>1, <1>4, <2>1, BooksByRow DEF BooksOf
  <2>5. \A s \in Distinct : s # q => (Billed(s)' <=> Billed(s))
    BY <1>5 DEF Distinct
  <2> QED
    BY <1>1, <1>6, <1>8, <2>2, <2>3, <2>4, <2>5 DEF Books!Bill
<1>9. CASE q \in Distinct /\ voucher[r].kind = "CREDIT_NOTE"
  <2>1. Waits(r, "CREDIT_NOTE") /\ Waits(r, "CREDIT_NOTE")' /\ voucher'[r].quote = q
    BY <1>1, <1>2, <1>4, <1>9 DEF Waits, Pending
  <2>2. Billed(q) /\ ~InvoiceWaits(q)
    BY <1>2, <1>4, <1>9, <2>1, BilledByRow
  <2>3. ~(Billed(q)')
    BY <1>3, <1>9, <2>1, BilledByRowNext
  <2>4. BooksOf(q) = "crediting"
    BY <1>1, <1>4, <2>1, <2>2, BooksByRow DEF BooksOf
  <2>5. \A s \in Distinct : s # q => (Billed(s)' <=> Billed(s))
    BY <1>5 DEF Distinct
  <2> QED
    BY <1>1, <1>6, <1>9, <2>2, <2>3, <2>4, <2>5 DEF Books!Credit
<1> QED
  BY <1>1, <1>7, <1>8, <1>9 DEF Kinds

-----------------------------------------------------------------------------
(* The sale is accepted and reactivated *)

LEMMA SameFacts ==
  ASSUME UNCHANGED <<voucher, arca>>
  PROVE  (\A q : BooksOf(q)' = BooksOf(q)) /\ (\A q : Billed(q)' <=> Billed(q))
<1>1. \A r : Authorized(r)' <=> Authorized(r)
  BY SameView, AuthorizedIsBorne
<1> QED
  BY <1>1, SameRowsSameBooks DEF Billed

LEMMA SaleBooksMove ==
  ASSUME Sound, SaleNext
  PROVE  UNCHANGED BookVars \/ \E q \in Distinct : Books!Close(q) \/ Books!Reopen(q)
<1>1. /\ IInv /\ TypeOK /\ VouchersAreFiled /\ accepted \in [Quotes -> BOOLEAN]
      /\ (\A q : BooksOf(q)' = BooksOf(q)) /\ (\A q : Billed(q)' <=> Billed(q))
  BY SaleWrites, SameFacts DEF Sound, IInv, TypeOK
<1> DEFINE open == {q \in Distinct : ~accepted[q]}
<1>2. /\ [q \in Distinct |-> IF Billed(q) THEN "billed" ELSE "unbilled"]' =
           [q \in Distinct |-> IF Billed(q) THEN "billed" ELSE "unbilled"]
      /\ [q \in Distinct |-> BooksOf(q)]' = [q \in Distinct |-> BooksOf(q)]
  BY <1>1
<1>3. UNCHANGED accepted => UNCHANGED BookVars
  BY <1>1, BooksStay
<1>4. ASSUME NEW q \in Quotes, Accept(q)
      PROVE  UNCHANGED BookVars \/ (q \in Distinct /\ Books!Close(q))
  <2>1. ~accepted[q] /\ accepted' = [accepted EXCEPT ![q] = TRUE]
    BY <1>4 DEF Accept
  <2>2. open' = open \ {q}
    BY <1>1, <2>1 DEF Distinct
  <2>3. CASE q \in Distinct
    BY <1>2, <2>1, <2>2, <2>3 DEF Books!Close
  <2>4. CASE q \notin Distinct
    <3>1. open' = open
      BY <2>2, <2>4
    <3> QED
      BY <1>2, <3>1 DEF BookVars
  <2> QED
    BY <2>3, <2>4
<1>5. ASSUME NEW q \in Quotes, NEW edit \in BOOLEAN, Reactivate(q, edit)
      PROVE  UNCHANGED BookVars \/ (q \in Distinct /\ Books!Reopen(q))
  <2>1. accepted[q] /\ ~HasLiveInvoice(q) /\ accepted' = [accepted EXCEPT ![q] = FALSE]
    BY <1>5 DEF Reactivate
  <2>2. open' = open \cup (Distinct \cap {q})
    BY <1>1, <2>1 DEF Distinct
  <2>3. CASE q \in Distinct
    <3>1. ~InvoiceWaits(q) /\ ~NoteWaits(q) /\ ~InvoiceStands(q)
      <4>1. \A r \in Rows : Pending(r) => voucher[r].quote # q
        BY <2>1 DEF HasLiveInvoice
      <4>2. ~InvoiceStands(q)
        BY <2>1 DEF HasLiveInvoice, InvoiceStands, Creditable
      <4> QED
        BY <1>1, <4>1, <4>2, BooksByRow DEF Waits, Pending
    <3>2. BooksOf(q) = "clear" /\ ~Billed(q)
      BY <2>3, <3>1, BilledByRow DEF BooksOf
    <3>3. open' = open \cup {q}
      BY <2>2, <2>3
    <3> QED
      BY <1>2, <2>1, <2>3, <3>2, <3>3 DEF Books!Reopen
  <2>4. CASE q \notin Distinct
    <3>1. open' = open
      BY <2>2, <2>4
    <3> QED
      BY <1>2, <3>1 DEF BookVars
  <2> QED
    BY <2>3, <2>4
<1>6. ASSUME NEW q \in Quotes,
             \/ Price(q) \/ ChangeRequested(q) \/ FoldVersion(q)
             \/ SetArchived(q) \/ WaiveInvoice(q) \/ RestoreInvoiceWait(q)
      PROVE  UNCHANGED accepted
  BY <1>6 DEF Price, ChangeRequested, FoldVersion, SetArchived, WaiveInvoice, RestoreInvoiceWait
<1>7. ASSUME SetInvoicingEnabled \/ DisconnectARCA \/ ConnectARCA PROVE UNCHANGED accepted
  BY <1>7 DEF SetInvoicingEnabled, DisconnectARCA, ConnectARCA, saleVars
<1> QED
  BY <1>3, <1>4, <1>5, <1>6, <1>7 DEF SaleNext

-----------------------------------------------------------------------------
(* The refinement *)

LEMMA BooksStep ==
  ASSUME Sound, Sound', [Next]_vars
  PROVE  UNCHANGED BookVars \/ Books!Next
<1>1. CASE SaleNext
  BY <1>1, SaleBooksMove DEF Books!Next
<1>2. CASE ~SaleNext
  <2>1. HandlerNext \/ OutsideNext \/ UNCHANGED vars
    BY <1>2 DEF Next
  <2>2. IInv /\ UNCHANGED accepted
    BY <2>1, SaleIsKept DEF Sound
  <2>3. CASE UNCHANGED <<voucher, arca>>
    BY <2>2, <2>3, SameFacts, BooksStay
  <2>4. ASSUME NEW r \in Rows, ArcaAuthorizes(r) PROVE UNCHANGED BookVars \/ Books!Next
    BY <2>4, AuthorizedBooks DEF Books!Next
  <2>5. ASSUME NEW k \in Kinds, OtherSystemIssues(k) PROVE UNCHANGED BookVars
    BY <2>5, OtherSystemBooks
  <2>6. CASE RowWritten
    <3>1. ASSUME NEW r \in Rows, Dates(r) \/ Claims(r) PROVE UNCHANGED BookVars
      BY <3>1, AnnotatedBooks
    <3>2. ASSUME NEW r \in Rows, Issues(r) \/ Drops(r) PROVE UNCHANGED BookVars \/ Books!Next
      BY <3>2, OutcomeBooks DEF Books!Next
    <3>3. ASSUME NEW r \in Rows, NEW q \in Quotes, FilesInvoice(r, q) PROVE UNCHANGED BookVars \/ Books!Next
      BY <3>3, InvoiceFiledBooks DEF Books!Next
    <3>4. ASSUME NEW r \in Rows, NEW i \in Rows, FilesNote(r, i) PROVE UNCHANGED BookVars \/ Books!Next
      BY <3>4, NoteFiledBooks DEF Books!Next
    <3> QED
      BY <2>6, <3>1, <3>2, <3>3, <3>4 DEF RowWritten
  <2>7. UNCHANGED voucher \/ RowWritten
    BY <2>2, RowsAreWritten
  <2>8. ~UNCHANGED arca => (\E r \in Rows : ArcaAuthorizes(r)) \/ (\E k \in Kinds : OtherSystemIssues(k))
    BY ArcaGrows
  <2> QED
    BY <2>3, <2>4, <2>5, <2>6, <2>7, <2>8
<1> QED
  BY <1>1, <1>2

(* Handlers, retries, recoveries, refusals and lost answers keep the promise of SaleBooks: *)
(* ARCA bills or credits a sale only while the books wait for it, the books record what    *)
(* ARCA holds and nothing else, and a billed sale is not reopened.                         *)
THEOREM ImplementsBooks == Spec => BooksSpec
<1>1. Init => Books!Init
  <2> SUFFICES ASSUME Init PROVE Books!Init
    OBVIOUS
  <2>1. \A r \in Rows : voucher[r].status = "NONE"
    BY DEF Init, NoVoucher
  <2>2. \A q : InvoicesOf(q) = {}
    BY <2>1 DEF InvoicesOf
  <2>3. \A q : ~Billed(q) /\ BooksOf(q) = "clear"
    BY <2>2 DEF Billed, BooksOf, InvoiceWaits, NoteWaits, InvoiceStands
  <2>4. {q \in Distinct : ~accepted[q]} = Distinct
    BY DEF Init, Distinct
  <2> QED
    BY <2>3, <2>4 DEF Books!Init
<1>2. Spec => []Sound
  BY Invariant, RecordAgreesWithArca, PTL DEF Sound
<1>3. Sound /\ Sound' /\ [Next]_vars => [UNCHANGED Books!vars \/ Books!Next]_(Books!vars)
  BY BooksStep DEF BookVars, Books!vars
<1> QED
  BY <1>1, <1>2, <1>3, PTL DEF Spec, BooksSpec, Books!Spec

=============================================================================
