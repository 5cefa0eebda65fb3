------------------------------ MODULE Discounts ------------------------------
(***************************************************************************)
(* The discounts of one quote: its lines, the rows of quote_discount of    *)
(* the current version and its total, under the account's promotions.      *)
(* Every edit ends in discountSweep.settle, in the transaction that makes  *)
(* it, and so does what the batch handler writes for the customer.         *)
(***************************************************************************)
EXTENDS DiscountEngine

CONSTANTS
  Products,
  Slots,        \* typed discounts a version may hold at once
  Asked,        \* for each line id, in order, the products, or None, and quantities asked
  HandPrices,   \* a seller types
  Typed,        \* rules a seller types: scope, action, value
  Named,        \* sets of lines a customer's request names
  Price,        \* what the branch asks for a product: price and floor, or None
  Alternatives, \* products offered for a product, by kind
  Offers        \* for each promotion, the rules it may be given

Lines == DOMAIN Asked
Promotions == DOMAIN Offers   \* numbers, in the order of their ids

(* normalizePromotion, validateTiers and validateFigure: what Create and *)
(* Replace accept.                                                       *)
Bounded(action, value) == value > 0 /\ (action = "PERCENTAGE" => value <= 100)

ASSUME RulesAreNormalized ==
  \A p \in Promotions : \A r \in Offers[p] :
    /\ r.condition \in {"PER_ITEM", "QUANTITY_TIERED"} => r.targets # {}
    /\ r.condition = "ITEM_SET" => Cardinality(r.targets) >= 2
    /\ r.condition = "ON_TOTAL" => r.targets = {}
    /\ r.action = "SPECIAL_PRICE" => r.condition \in {"PER_ITEM", "QUANTITY_TIERED"}
    /\ r.minTotal # None => r.condition = "ON_TOTAL" /\ r.minTotal > 0
    /\ IF r.condition = "QUANTITY_TIERED"
       THEN /\ r.tiers # {} /\ \A t \in r.tiers : t.from > 0 /\ Bounded(r.action, t.value)
            /\ \A t, u \in r.tiers : t = u \/ (t.to # None /\ t.to < u.from)
                                          \/ (u.to # None /\ u.to < t.from)
       ELSE r.tiers = {} /\ Bounded(r.action, r.value)

RuleTables ==
  {f \in [Promotions -> UNION {Offers[p] : p \in Promotions}] : \A p \in Promotions : f[p] \in Offers[p]}

(* Ids are ordered, a version has finitely many lines, an account finitely *)
(* many promotions, and no figure is negative.                             *)
ASSUME DiscountsAssumption ==
  /\ Lines \subseteq Nat /\ IsFiniteSet(Lines) /\ Promotions \subseteq Nat /\ IsFiniteSet(Promotions)
  /\ \A i \in Lines : Asked[i].products \subseteq Products \cup {None}
                    /\ Asked[i].quantities \subseteq Nat \ {0}
  /\ HandPrices \subseteq Nat
  /\ \A t \in Typed : /\ t.scope \in {"ITEM", "ITEM_SET", "TOTAL"}
                      /\ t.action \in {"PERCENTAGE", "FIXED_AMOUNT"} /\ t.value \in Nat
  /\ Price \in [Products -> [price : Nat, floor : Nat \cup {None}] \cup {None}]
  /\ \A kind \in DOMAIN Alternatives : Alternatives[kind] \in [Products -> SUBSET Products]
  /\ \A p \in Promotions : \A r \in Offers[p] :
       /\ r.action \in {"PERCENTAGE", "FIXED_AMOUNT", "SPECIAL_PRICE"}
       /\ r.priority \in Int /\ r.value \in Nat
       /\ \A t \in r.targets : t.min \in Nat \cup {None}
       /\ \A t \in r.tiers : t.from \in Nat /\ t.value \in Nat

VARIABLES
  rule,      \* the rows of promotion
  status,    \* quote.current_status; SENT also once it was answered
  frozen,    \* the current version is immutable
  line,      \* rows of quote_item of the current version
  discount,  \* rows of quote_discount with the lines they name
  total,     \* quote_version.total
  sent       \* lines and seller's decisions of the newest frozen version, or None

vars == <<rule, status, frozen, line, discount, total, sent>>

Editable == ~frozen /\ status \in {"DRAFT", "QUOTED", "CHANGE_REQUESTED"}

-----------------------------------------------------------------------------
(* The sweep *)

EngineOwned(d) == d.origin \in {"AUTOMATIC", "AI_ADAPTATION"}
Live(d) == ~d.suppressed
Earning(ds) == {d \in ds : EngineOwned(d) /\ Live(d)}
Suppressed(ds) == {d \in ds : EngineOwned(d) /\ ~Live(d)}
Manual(ds) == {d \in ds : ~EngineOwned(d)}
Decisions(ds) == Manual(ds) \cup Suppressed(ds)

ScopeBase(ln, scope, items) == SumLines(ln, IF scope = "TOTAL" THEN DOMAIN ln ELSE items)

(* A typed percentage follows its lines; a typed amount never outgrows them. *)
FollowLines(d, ln) ==
  LET base == ScopeBase(ln, d.scope, d.items)
      computed == BaseAmount(d.action, d.value, base)
  IN IF d.action = "FIXED_AMOUNT" /\ d.scope # "TOTAL" THEN AtMost(computed, base) ELSE computed

Followed(ds, ln) ==
  {IF Live(d) THEN [d EXCEPT !.amount = FollowLines(d, ln)] ELSE d : d \in Manual(ds)}

(* What an evaluation of these rows and lines reads. *)
Reading(ds, ln) ==
  [line |-> ln, rule |-> rule, suppressed |-> Suppressed(ds),
   held |-> {[id |-> d.slot, amount |-> d.amount,
              items |-> IF d.scope = "TOTAL" THEN {} ELSE d.items] :
               d \in {e \in Followed(ds, ln) : Live(e)}}]

Earned(ds, ln) == EvaluateDiscounts(Reading(ds, ln))

Fresh(a) ==
  [origin |-> "AUTOMATIC", promotion |-> a.promotion, slot |-> None, scope |-> a.scope,
   action |-> a.action, value |-> a.value, amount |-> a.amount, items |-> a.items,
   suppressed |-> FALSE]

(* A row still earned is updated in place and keeps its origin, its action *)
(* and its scope; the rest are dropped, and new ones are AUTOMATIC.        *)
Kept(d, a) == [d EXCEPT !.value = a.value, !.amount = a.amount, !.items = a.items]
Persisted(stored, earned) ==
  {LET mine == {d \in stored : Key(d) = Key(a)}
   IN IF mine = {} THEN Fresh(a) ELSE Kept(CHOOSE d \in mine : TRUE, a) : a \in earned}

TotalOf(ds, ln) ==
  NotNegative(SumLines(ln, DOMAIN ln) - AmountsOf({d \in ds : Live(d)}))

Version(ln, rows) == [line |-> ln, rows |-> rows, total |-> TotalOf(rows, ln)]
Settle(ds, ln) ==
  Version(ln, Persisted(Earning(ds), Earned(ds, ln)) \cup Followed(ds, ln) \cup Suppressed(ds))

(* ck_quote_discount_percentage_bounds: a row that breaks it fails the *)
(* transaction.                                                        *)
Writable(s) == \A d \in s.rows : Live(d) /\ d.action = "PERCENTAGE" => d.value \in 1..100

Writes(set) ==
  \E s \in {set} :
    /\ Writable(s)
    /\ line' = s.line /\ discount' = s.rows /\ total' = s.total

-----------------------------------------------------------------------------
(* Lines *)

(* Mutant of Unlinked: a line discount left covering nothing stays. *)
UnlinkedButKept(ds, i) == {[d EXCEPT !.items = @ \ {i}] : d \in ds}

(* deleteItemDiscountLinks: a line discount left covering nothing goes too. *)
Unlinked(ds, i) ==
  {[d EXCEPT !.items = @ \ {i}] :
     d \in {e \in ds : e.scope = "TOTAL" \/ i \notin e.items \/ e.items # {i}}}

(* prepareVersionCopy, ApplyPricing: the price and the floor the branch asks now. *)
ValuedLine(l) ==
  LET priced == l.product # None /\ Price[l.product] # None
  IN [l EXCEPT !.price = IF priced THEN Price[l.product].price ELSE None,
               !.floor = IF priced THEN Price[l.product].floor ELSE None]
Valued(ln) == [i \in DOMAIN ln |-> ValuedLine(ln[i])]

(* What a seller's patch leaves of a line.  A product chosen without a price *)
(* takes the branch's on a priced quote and loses the old one on a draft.    *)
Patched(l, patch) ==
  LET chosen == [l EXCEPT !.product = patch.product, !.price = None, !.floor = None]
      resolved == IF patch.product = None THEN l
                  ELSE IF status = "QUOTED" /\ patch.price = None THEN ValuedLine(chosen)
                  ELSE chosen
  IN [resolved EXCEPT !.quantity = IF patch.quantity = None THEN @ ELSE patch.quantity,
                      !.price = IF patch.price = None THEN @ ELSE patch.price]

NoPatch == [product |-> None, price |-> None, quantity |-> None]

(* One field, or a product with its price; an empty one confirms the match. *)
Patches(i) ==
  [product : Asked[i].products \cup {None}, price : HandPrices \cup {None}, quantity : {None}]
  \cup [product : {None}, price : {None}, quantity : Asked[i].quantities]

Init ==
  /\ rule \in RuleTables
  /\ status = "DRAFT" /\ frozen = FALSE /\ sent = None
  /\ line = <<>> /\ discount = {} /\ total = 0

AddItem(i, p, n) ==
  /\ Editable /\ i \notin DOMAIN line
  /\ LET new == [product |-> p, quantity |-> n, price |-> None, floor |-> None]
     IN Writes(Settle(discount, [j \in DOMAIN line \cup {i} |->
                                   IF j = i THEN new ELSE line[j]]))
  /\ UNCHANGED <<rule, status, frozen, sent>>

UpdateItem(i, patch) ==
  /\ Editable
  /\ patch = NoPatch => line[i].product # None
  /\ Writes(Settle(discount, [line EXCEPT ![i] = Patched(@, patch)]))
  /\ UNCHANGED <<rule, status, frozen, sent>>

(* Mutant of DeleteItem: the line goes and the version is not swept again. *)
DeleteItemUnswept(i) ==
  /\ Editable
  /\ line' = [j \in DOMAIN line \ {i} |-> line[j]]
  /\ discount' = Unlinked(discount, i)
  /\ UNCHANGED <<rule, status, frozen, total, sent>>

DeleteItem(i) ==
  /\ Editable
  /\ Writes(Settle(Unlinked(discount, i), [j \in DOMAIN line \ {i} |-> line[j]]))
  /\ UNCHANGED <<rule, status, frozen, sent>>

AcceptMaterials ==
  /\ ~frozen /\ status \in {"DRAFT", "CHANGE_REQUESTED"}
  /\ Writes(Settle(discount, Valued(line)))
  /\ status' = "QUOTED"
  /\ UNCHANGED <<rule, frozen, sent>>

(* The version is frozen with its discounts, once every line has its price. *)
Freeze ==
  /\ status = "QUOTED" /\ ~frozen /\ frozen' = TRUE
  /\ DOMAIN line # {} /\ \A i \in DOMAIN line : line[i].price # None
  /\ sent' = [line |-> line, rows |-> Decisions(discount)]
  /\ UNCHANGED <<rule, status, line, discount, total>>

(* Sent, or marked as sent by hand, which a draft may be too. *)
Publish ==
  /\ status = "QUOTED" /\ status' = "SENT"
  /\ UNCHANGED <<rule, frozen, line, discount, total, sent>>

ReactivateForResend ==
  /\ status = "SENT" /\ frozen /\ status' = "QUOTED"
  /\ UNCHANGED <<rule, frozen, line, discount, total, sent>>

(* Mutant of SellerDecisions: only what was typed is copied. *)
TypedOnly(ds) == Manual(ds)

(* CopySellerDecisions: what was typed and what was suppressed. *)
SellerDecisions(ds) ==
  {[d EXCEPT !.origin = IF @ = "AI_ADAPTATION" THEN "AUTOMATIC" ELSE @] : d \in Decisions(ds)}

(* insertVersionCopy and CopySellerDecisions, of the version frozen last. *)
WritesCopy == Writes(Settle(SellerDecisions(sent.rows), Valued(sent.line)))

(* ReactivateForEdit, and a change request on a frozen version: the next draft. *)
Reopen ==
  /\ status = "SENT" /\ frozen
  /\ WritesCopy
  /\ status' = "CHANGE_REQUESTED" /\ frozen' = FALSE
  /\ UNCHANGED <<rule, sent>>

(* The batch handler takes up the draft a sent quote shows, as it is. *)
TakeUpDraft ==
  /\ status = "SENT" /\ ~frozen /\ status' = "CHANGE_REQUESTED"
  /\ UNCHANGED <<rule, frozen, line, discount, total, sent>>

(* The draft of a change request becomes again a copy of what was frozen last: *)
(* the decisions taken on the draft go with its lines.  Which runs of the      *)
(* handler wait for the seller's decision is kept by ConversationBatches.      *)
DiscardAIChanges ==
  /\ status = "CHANGE_REQUESTED" /\ ~frozen /\ sent # None
  /\ WritesCopy
  /\ UNCHANGED <<rule, status, frozen, sent>>

(* persistDraftVersion: the attachment sweep opens a version with the lines it *)
(* read from a file, unpriced and undiscounted, whatever the quote has become. *)
ReadLine(i) ==
  [product : Asked[i].products, quantity : Asked[i].quantities, price : {None}, floor : {None}]
ReadLines(ids) ==
  {ln \in [ids -> UNION {ReadLine(i) : i \in ids}] : \A i \in ids : ln[i] \in ReadLine(i)}

FoldVersion ==
  /\ frozen /\ frozen' = FALSE
  /\ \E ids \in SUBSET Lines \ {{}} : \E ln \in ReadLines(ids) : line' = ln
  /\ discount' = {} /\ total' = 0
  /\ UNCHANGED <<rule, status, sent>>

(* Replace, or a validity window that opens or closes. *)
ReplaceRule(p, r) ==
  /\ rule' = [rule EXCEPT ![p] = r]
  /\ UNCHANGED <<status, frozen, line, discount, total, sent>>

-----------------------------------------------------------------------------
(* The seller's discounts *)

(* validateDiscountScope: the lines a rule of this scope may name. *)
Covers(scope) ==
  CASE scope = "TOTAL" -> {{}}
    [] scope = "ITEM" -> {{i} : i \in DOMAIN line}
    [] OTHER -> SUBSET DOMAIN line \ {{}}

(* amountForRule, rebuiltRule: a fixed amount stays within what it covers. *)
WithinBase(t, items) ==
  t.action = "FIXED_AMOUNT" => t.value <= ScopeBase(line, t.scope, items)

AddDiscount(s, t, items) ==
  /\ Editable /\ items \in Covers(t.scope) /\ WithinBase(t, items)
  /\ \A d \in discount : d.slot # s
  /\ LET new == [origin |-> "MANUAL_SELLER", promotion |-> None, slot |-> s, scope |-> t.scope,
                 action |-> t.action, value |-> t.value, items |-> items, suppressed |-> FALSE,
                 amount |-> BaseAmount(t.action, t.value, ScopeBase(line, t.scope, items))]
     IN Writes(Settle(discount \cup {new}, line))
  /\ UNCHANGED <<rule, status, frozen, sent>>

(* An edit to TOTAL leaves the links the row had. *)
EditDiscount(d, t, items) ==
  /\ Editable /\ ~EngineOwned(d)
  /\ items \in Covers(t.scope) /\ WithinBase(t, items)
  /\ LET edited == [d EXCEPT !.scope = t.scope, !.action = t.action, !.value = t.value,
                             !.items = IF t.scope = "TOTAL" THEN @ ELSE items,
                             !.amount = IF Live(d)
                                        THEN BaseAmount(t.action, t.value,
                                                        ScopeBase(line, t.scope, items))
                                        ELSE 0]
     IN Writes(Settle((discount \ {d}) \cup {edited}, line))
  /\ UNCHANGED <<rule, status, frozen, sent>>

(* Nothing reads the figure of a row that is off: the model leaves it out. *)
Marked(d, flag) ==
  [d EXCEPT !.suppressed = flag, !.amount = IF flag THEN 0 ELSE @,
            !.value = IF flag /\ EngineOwned(d) THEN 0 ELSE @]

(* A restored application the sweep no longer earns is refused. *)
SetSuppressed(d, flag) ==
  /\ Editable
  /\ \E set \in {Settle((discount \ {d}) \cup {Marked(d, flag)}, line)} :
       /\ EngineOwned(d) => Key(d) \in Keys({e \in set.rows : EngineOwned(e)})
       /\ Writes(set)
  /\ UNCHANGED <<rule, status, frozen, sent>>

DeleteDiscount(d) ==
  /\ Editable /\ ~EngineOwned(d)
  /\ Writes(Settle(discount \ {d}, line))
  /\ UNCHANGED <<rule, status, frozen, sent>>

-----------------------------------------------------------------------------
(* The batch handler, on the draft of a change request.  Its additions,     *)
(* removals and quantities write what the seller's edits write; a           *)
(* replacement is unpriced.                                                 *)

ReplaceItem(i, p, n) ==
  /\ status = "CHANGE_REQUESTED"
  /\ LET new == [product |-> p, quantity |-> n, price |-> None, floor |-> None]
     IN Writes(Settle(discount, [line EXCEPT ![i] = new]))
  /\ UNCHANGED <<rule, status, frozen, sent>>

(* nextThreshold: the least quantity above the line's at which a line rule *)
(* earns a figure there that it does not earn already.                     *)
NextThreshold(r, l) ==
  LET earning == \E t \in r.targets : Matches(t, l)
      Above(t) ==
        LET floor == IF t.min = None THEN 0 ELSE t.min
        IN {n \in {floor} : n > l.quantity}
           \cup {IF u.from < floor THEN floor ELSE u.from :
                   u \in {v \in r.tiers : v.from > l.quantity}}
      better == {n \in UNION {Above(t) : t \in {u \in r.targets : ConditionTargets(u, l)}} :
                   /\ LineFigure(r, n) # None
                   /\ ~(earning /\ LineFigure(r, n) = LineFigure(r, l.quantity))}
  IN IF r.condition \notin {"PER_ITEM", "QUANTITY_TIERED"} \/ l.price = None \/ better = {}
     THEN None ELSE Min(better)

Raised(ln, i, n) == [ln EXCEPT ![i].quantity = n]

(* planPromotionReach: a raise is kept where the promotion then applies.  Both *)
(* plans walk lines in the order of their ids.                                 *)
PlanReach(ds, ln, p, items) ==
  LET Tried(i, done, to) ==
        IF to # None /\ \E a \in Earned(ds, Raised(done, i, to)) : a.promotion = p /\ i \in a.items
        THEN Raised(done, i, to) ELSE done
      Reach(i, done) == Tried(i, done, NextThreshold(rule[p], done[i]))
  IN IF rule[p].inForce THEN MapThenFoldSet(Reach, ln, LAMBDA i : i, Max, items) ELSE ln

(* planLowerTotalAdaptation: the raise that leaves the total lowest, if it is *)
(* lower; of equals, the one of the promotion read first.                     *)
PlanLowerTotal(ds, ln, items) ==
  LET usable == {p \in Promotions : /\ rule[p].inForce
                                    /\ \A d \in Suppressed(ds) : d.promotion # p}
      ReadBefore(p, q) == \/ rule[p].priority > rule[q].priority
                          \/ rule[p].priority = rule[q].priority /\ p < q
      Trial(p, trial) == [promotion |-> p, line |-> trial, total |-> Settle(ds, trial).total]
      Better(t, u) == \/ t.total < u.total
                      \/ t.total = u.total /\ ReadBefore(t.promotion, u.promotion)
      Lowest(trials, done) ==
        {t \in trials : /\ \A u \in trials \ {t} : Better(t, u)
                        /\ t.total < Settle(ds, done).total}
      Raises(i, done) ==
        {Trial(p, Raised(done, i, NextThreshold(rule[p], done[i]))) :
           p \in {q \in usable : NextThreshold(rule[q], done[i]) # None}}
      Lower(i, done) ==
        LET Taken(lower) == IF lower = {} THEN done ELSE (CHOOSE t \in lower : TRUE).line
        IN Taken(Lowest(Raises(i, done), done))
  IN MapThenFoldSet(Lower, ln, LAMBDA i : i, Max, items)

(* applyRaises: what the raises earned on raised lines, or at a better figure, *)
(* is marked.                                                                  *)
Adapted(before, s) ==
  LET raised == {i \in DOMAIN s.line : s.line[i].quantity # before.line[i].quantity}
      Figures(ds) == {<<Key(d), d.value>> : d \in Earning(ds)}
      Reached(d) == /\ d.origin = "AUTOMATIC" /\ Live(d) /\ d.items \cap raised # {}
                    /\ <<Key(d), d.value>> \notin Figures(before.rows)
  IN [s EXCEPT !.rows = {IF Reached(d) THEN [d EXCEPT !.origin = "AI_ADAPTATION"] ELSE d : d \in @}]

PromotionLive(p, ds) == \E d \in ds : Live(d) /\ d.promotion = p

(* restorePromotions: what the seller took off of a promotion the customer *)
(* asks for, when it is nowhere live.                                      *)
Restored(ds, p) ==
  {IF EngineOwned(d) /\ d.promotion = p THEN [d EXCEPT !.suppressed = FALSE] ELSE d : d \in ds}

(* The customer asks for a promotion, and may ask for quantities with it: it *)
(* is live, or restored, or reached by raising other lines, or nothing is    *)
(* written.                                                                  *)
AddsPromotion(p, asked, n) ==
  /\ status = "CHANGE_REQUESTED"
  /\ LET wanted == [i \in DOMAIN line |->
                      IF i \in asked THEN [line[i] EXCEPT !.quantity = n] ELSE line[i]]
         Standing(swept) == IF PromotionLive(p, swept.rows) THEN swept
                            ELSE Settle(Restored(swept.rows, p), wanted)
     IN \E swept \in {Settle(discount, wanted)} : \E stands \in {Standing(swept)} :
          /\ Writable(swept) /\ Writable(stands)
          /\ \/ PromotionLive(p, stands.rows) /\ Writes(stands)
             \/ /\ ~PromotionLive(p, stands.rows)
                /\ \E raised \in {PlanReach(stands.rows, wanted, p, DOMAIN line \ asked)} \ {wanted} :
                   \E reached \in {Adapted(stands, Settle(stands.rows, raised))} :
                     PromotionLive(p, reached.rows) /\ Writes(reached)
  /\ UNCHANGED <<rule, status, frozen, sent>>

AdaptToLowerTotal(named) ==
  /\ status = "CHANGE_REQUESTED"
  /\ \E baseline \in {Settle(discount, line)} :
     \E raised \in {PlanLowerTotal(baseline.rows, line, named)} \ {line} :
     \E reached \in {Adapted(baseline, Settle(baseline.rows, raised))} :
       /\ Writable(baseline) /\ reached.total < baseline.total
       /\ Writes(reached)
  /\ UNCHANGED <<rule, status, frozen, sent>>

(* pickAlternative: the cheapest the branch prices; an economy one must be *)
(* cheaper than the line.                                                  *)
Cheapest(kind, l) ==
  LET offered == {a \in Alternatives[kind][l.product] :
                    /\ Price[a] # None
                    /\ kind = "ECONOMY" => l.price # None /\ Price[a].price < l.price}
  IN IF l.product = None \/ offered = {} THEN l
     ELSE ValuedLine([l EXCEPT !.product = CHOOSE a \in offered :
                        \A b \in offered : Price[a].price <= Price[b].price])

(* runRecipe: a cheaper draft must end below the draft's own total. *)
RunRecipe(kind, named) ==
  /\ status = "CHANGE_REQUESTED"
  /\ LET swapped == [i \in DOMAIN line |->
                       IF i \in named THEN Cheapest(kind, line[i]) ELSE line[i]]
     IN /\ swapped # line
        /\ \E baseline \in {Settle(discount, line)} :
           \E after \in {Settle(baseline.rows, swapped)} :
             /\ Writable(baseline)
             /\ kind = "ECONOMY" => after.total < baseline.total
             /\ Writes(after)
  /\ UNCHANGED <<rule, status, frozen, sent>>

-----------------------------------------------------------------------------
SellerNext ==
  \/ \E i \in Lines \ DOMAIN line : \E p \in Asked[i].products, n \in Asked[i].quantities :
       AddItem(i, p, n)
  \/ \E i \in DOMAIN line : DeleteItem(i) \/ \E patch \in Patches(i) : UpdateItem(i, patch)
  \/ AcceptMaterials \/ Freeze \/ Publish \/ ReactivateForResend \/ DiscardAIChanges
  \/ \E t \in Typed : \E items \in Covers(t.scope) :
       \/ \E s \in Slots : AddDiscount(s, t, items)
       \/ \E d \in discount : EditDiscount(d, t, items)
  \/ \E d \in discount : DeleteDiscount(d) \/ \E flag \in BOOLEAN : SetSuppressed(d, flag)

HandlerNext ==
  \/ \E i \in DOMAIN line : \E p \in Asked[i].products, n \in Asked[i].quantities :
       ReplaceItem(i, p, n)
  \/ \E p \in Promotions :
       \/ AddsPromotion(p, {}, None)
       \/ \E i \in DOMAIN line : \E n \in Asked[i].quantities \ {line[i].quantity} :
            AddsPromotion(p, {i}, n)
  \/ \E named \in Named \cap SUBSET DOMAIN line :
       AdaptToLowerTotal(named) \/ \E kind \in DOMAIN Alternatives : RunRecipe(kind, named)

Next ==
  \/ SellerNext \/ HandlerNext \/ Reopen \/ TakeUpDraft \/ FoldVersion
  \/ \E p \in Promotions : \E r \in Offers[p] : ReplaceRule(p, r)

Spec == Init /\ [][Next]_vars

-----------------------------------------------------------------------------
(* Rows, lines and the total keep their shape; a row names lines of the quote *)
(* and a typed one has its slot to itself.                                    *)
LineRow ==
  [product : Products \cup {None}, quantity : Nat \ {0},
   price : Nat \cup {None}, floor : Nat \cup {None}]
LinesFit(ln) == DOMAIN ln \subseteq Lines /\ ln \in [DOMAIN ln -> LineRow]

DiscountRow(ln) ==
  [origin : {"AUTOMATIC", "AI_ADAPTATION", "MANUAL_SELLER"},
   promotion : Promotions \cup {None}, slot : Slots \cup {None},
   scope : {"ITEM", "ITEM_SET", "TOTAL"}, action : {"PERCENTAGE", "FIXED_AMOUNT", "SPECIAL_PRICE"},
   value : Nat, amount : Nat, items : SUBSET DOMAIN ln, suppressed : BOOLEAN]
RowsFit(ds, ln) ==
  /\ IsFiniteSet(ds)
  /\ \A d \in ds :
       /\ d \in DiscountRow(ln)
       /\ d.scope = "ITEM" => \E i \in DOMAIN ln : d.items = {i}
       /\ IF EngineOwned(d) THEN d.promotion \in Promotions ELSE d.slot \in Slots
  /\ \A d, e \in Manual(ds) : d.slot = e.slot => d = e

TypeOK ==
  /\ rule \in RuleTables /\ status \in {"DRAFT", "QUOTED", "SENT", "CHANGE_REQUESTED"}
  /\ frozen \in BOOLEAN
  /\ LinesFit(line) /\ RowsFit(discount, line) /\ total \in Nat
  /\ sent # None => LinesFit(sent.line) /\ RowsFit(sent.rows, sent.line)

(* The rows say what the rules give, unless a rule was replaced since. *)
Swept == Settle(discount, line).rows = discount

(* What a step leaves is what a sweep would leave: no edit forgets to sweep, *)
(* and a second sweep changes nothing.                                       *)
SweepIsSettled ==
  [][<<line, discount, total>>' # <<line, discount, total>>
       => rule' = rule /\ Settle(discount', line') = [line |-> line', rows |-> discount',
                                                     total |-> total']]_vars

(* Promotions do not stack: no line is under two of them, at most one is on *)
(* the total, and an exclusive one on the total is alone.                    *)
PromotionsDoNotStack ==
  \A d, e \in Earning(discount) :
    d # e => /\ d.items \cap e.items = {} /\ (d.items # {} \/ e.items # {})
             /\ Swept /\ d.items = {} => ~rule[d.promotion].exclusive

(* The engine never takes a line or a set below its floor, beside what the *)
(* seller took, nor the quote below the sum of its floors.                 *)
FloorBindsTheEngine ==
  LET Taken(items) == AmountsOf({e \in Manual(discount) :
                                   Live(e) /\ e.scope # "TOTAL" /\ e.items \cap items # {}})
  IN /\ \A d \in Earning(discount) :
          d.items # {} => d.amount + Taken(d.items) <= SumHeadroom(line, d.items)
     /\ AmountsOf(Earning(discount)) <= SumHeadroom(line, PricedLines(line))

(* The inductive invariant of the proofs: the types, what the rows keep of the *)
(* two above although their rule may have been replaced since, and that a      *)
(* frozen version stays what a copy of it reads.                               *)
FrozenIsSent ==
  /\ status = "CHANGE_REQUESTED" => ~frozen
  /\ frozen => sent = [line |-> line, rows |-> Decisions(discount)]

EarnedStaysApart ==
  \A d, e \in Earning(discount) :
    d # e => d.items \cap e.items = {} /\ (d.items # {} \/ e.items # {})

IInv == TypeOK /\ FrozenIsSent /\ EarnedStaysApart /\ FloorBindsTheEngine

(* The reference for the resolution: an application that could be made and is *)
(* not has lost each time to one that ranks above it, on a line it needs; or  *)
(* an exclusive promotion took the total.                                     *)
FirstRankedClaims ==
  LET in == Reading(discount, line)
  IN Swept =>
       \A c \in Candidates(in) :
         c.scope = "TOTAL" \/ ~Free(c, in.suppressed, Holding(in))
         \/ \E d \in Earning(discount) :
              \/ Key(d) = Key(c)
              \/ d.items \cap c.items # {} /\ Outranks(in, d, c)
              \/ d.items = {} /\ rule[d.promotion].exclusive

(* What a seller decided stands through every edit of the lines, every request  *)
(* of the customer and every version copied from another: the row keeps its     *)
(* figure, its flag and its lines, but those deleted.  Only a customer who asks *)
(* for a promotion undoes a suppression of it.  Two writers keep nothing of the *)
(* draft's own: a discard gives back what the version frozen last had decided,  *)
(* so what was decided since is lost, and the version the attachment sweep      *)
(* opens carries no decision at all.                                            *)
StandsIn(d, rows, ln) ==
  \/ \E e \in rows :
       /\ e.suppressed = d.suppressed /\ EngineOwned(e) = EngineOwned(d)
       /\ e.items = d.items \cap DOMAIN ln
       /\ <<e.promotion, e.slot, e.scope, e.action, e.value>>
            = <<d.promotion, d.slot, d.scope, d.action, d.value>>
  \/ d.items # {} /\ d.items \cap DOMAIN ln = {}
AskedFor(d) == EngineOwned(d) /\ status = "CHANGE_REQUESTED" /\ PromotionLive(d.promotion, discount')
SellerDecisionsStand ==
  [][/\ <<line, status>>' # <<line, status>> =>
          \A d \in Decisions(discount) :
            StandsIn(d, discount', line') \/ AskedFor(d) \/ DiscardAIChanges \/ FoldVersion
     /\ sent # None =>
          \A d \in Decisions(sent.rows) : StandsIn(d, discount', line') \/ ~DiscardAIChanges]_vars
=============================================================================
