SPECIFICATION Spec
CONSTANTS
  Quotes = {q1}
  Workers = {w1, w2}
  LookAlikes = {}
  MaxRows = 3
  MaxVersion = 2
  MaxForeign = 0
  NoQuote = NoQuote
SYMMETRY Symmetry
INVARIANTS IInv NoInvoiceWaitsUnreachable BilledSaleStands BilledOnce WaivedIsNotBilled
PROPERTY BooksSpec
