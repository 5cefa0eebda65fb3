------------------------------ MODULE SaleBooks ------------------------------
(***************************************************************************)
(* What invoicing promises for every sale, without numbers, workers or     *)
(* messages: the tax authority's record and Coti's books move in turns, so *)
(* a sale is never billed twice, nothing authorized is forgotten, nothing  *)
(* is booked that was not authorized, and a billed sale is not reopened.   *)
(***************************************************************************)
CONSTANT Sales

VARIABLES
  open,     \* the sales that are not, or no longer, accepted
  fiscal,   \* what ARCA holds for the sale: "unbilled" or "billed"
  books     \* what Coti holds: "clear", "invoicing", "billed" or "crediting"

vars == <<open, fiscal, books>>

Init ==
  /\ open = Sales
  /\ fiscal = [s \in Sales |-> "unbilled"]
  /\ books = [s \in Sales |-> "clear"]

Book(s, from, to) ==
  /\ books[s] = from /\ books' = [books EXCEPT ![s] = to]
  /\ UNCHANGED <<open, fiscal>>

(* A voucher is held before ARCA is asked, and recorded or dropped after it. *)
StartInvoice(s)  == s \notin open /\ Book(s, "clear", "invoicing")
RecordInvoice(s) == fiscal[s] = "billed" /\ Book(s, "invoicing", "billed")
DropInvoice(s)   == fiscal[s] = "unbilled" /\ Book(s, "invoicing", "clear")
StartNote(s)     == Book(s, "billed", "crediting")
RecordNote(s)    == fiscal[s] = "unbilled" /\ Book(s, "crediting", "clear")
DropNote(s)      == fiscal[s] = "billed" /\ Book(s, "crediting", "billed")

(* ARCA authorizes only what the books are waiting for. *)
Bill(s) ==
  /\ fiscal[s] = "unbilled" /\ books[s] = "invoicing"
  /\ fiscal' = [fiscal EXCEPT ![s] = "billed"] /\ UNCHANGED <<open, books>>

Credit(s) ==
  /\ fiscal[s] = "billed" /\ books[s] = "crediting"
  /\ fiscal' = [fiscal EXCEPT ![s] = "unbilled"] /\ UNCHANGED <<open, books>>

Close(s) ==
  /\ s \in open /\ open' = open \ {s} /\ UNCHANGED <<fiscal, books>>

Reopen(s) ==
  /\ s \notin open /\ books[s] = "clear" /\ fiscal[s] = "unbilled"
  /\ open' = open \cup {s} /\ UNCHANGED <<fiscal, books>>

Next ==
  \E s \in Sales :
    \/ StartInvoice(s) \/ RecordInvoice(s) \/ DropInvoice(s)
    \/ StartNote(s) \/ RecordNote(s) \/ DropNote(s)
    \/ Bill(s) \/ Credit(s) \/ Close(s) \/ Reopen(s)

(* Most steps of the system book nothing, which TLC is to find out first. *)
Spec == Init /\ [][UNCHANGED vars \/ Next]_vars

=============================================================================
