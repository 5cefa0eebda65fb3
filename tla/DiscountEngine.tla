---------------------------- MODULE DiscountEngine ----------------------------
(***************************************************************************)
(* The deterministic promotion evaluator of services/discount_engine.go,   *)
(* as operators.  An evaluation reads a record in:                         *)
(*   line        the lines of the version, a function from line ids        *)
(*   rule        the account's promotions, a function from their ids       *)
(*   held        what the seller took off by hand: id, amount, items       *)
(*   suppressed  the applications a seller took off the version            *)
(* Money is a number of the smallest unit.                                 *)
(***************************************************************************)
EXTENDS Integers, FiniteSets, FiniteSetsExt

CONSTANT None   \* an absent product, price, floor, bound or threshold

AtMost(a, b) == IF a < b THEN a ELSE b
NotNegative(a) == IF a < 0 THEN 0 ELSE a

(* round(base * percentage / 100), half-up *)
Share(base, percentage) == (base * percentage + 50) \div 100

AmountsOf(applications) == MapThenSumSet(LAMBDA a : a.amount, applications)

-----------------------------------------------------------------------------
(* Lines *)

Subtotal(l) == IF l.price = None THEN 0 ELSE l.price * l.quantity
Headroom(l) ==
  NotNegative(Subtotal(l) - (IF l.floor = None THEN 0 ELSE l.floor * l.quantity))

PricedLines(line) == {i \in DOMAIN line : line[i].price # None}
SumLines(line, items) == MapThenSumSet(LAMBDA i : Subtotal(line[i]), items)
SumHeadroom(line, items) == MapThenSumSet(LAMBDA i : Headroom(line[i]), items)

(* Mutant of RemainingHeadroom: what the seller took off is not deducted. *)
HeadroomWithoutHeld(in, items) == SumHeadroom(in.line, items)

RemainingHeadroom(in, items) ==
  NotNegative(SumHeadroom(in.line, items)
              - AmountsOf({h \in in.held : h.items \cap items # {}}))

-----------------------------------------------------------------------------
(* Rules *)

ScopeOf(condition) ==
  CASE condition = "ON_TOTAL" -> "TOTAL"
    [] condition = "ITEM_SET" -> "ITEM_SET"
    [] OTHER -> "ITEM"

ConditionTargets(target, l) == l.product \in target.products
Matches(target, l) ==
  ConditionTargets(target, l) /\ (target.min = None \/ l.quantity >= target.min)

(* The rule's figure at a quantity: its own, or that of the highest tier the *)
(* quantity reaches; past the end of the last one, None.                     *)
LineFigure(r, quantity) ==
  LET reached == {t \in r.tiers : t.from <= quantity}
      tier == CHOOSE t \in reached : \A u \in reached : u.from <= t.from
      past == tier.to # None /\ quantity > tier.to
  IN IF r.condition # "QUANTITY_TIERED" THEN r.value
     ELSE IF reached = {} \/ (reached = r.tiers /\ past) THEN None ELSE tier.value

LineAmount(r, value, l) ==
  CASE r.action = "PERCENTAGE" -> Share(Subtotal(l), value)
    [] r.action = "FIXED_AMOUNT" -> value * l.quantity
    [] r.action = "SPECIAL_PRICE" -> NotNegative(Subtotal(l) - value * l.quantity)

(* A typed discount's ruleAmount is the same computation. *)
BaseAmount(action, value, base) ==
  IF action = "PERCENTAGE" THEN Share(base, value) ELSE value

-----------------------------------------------------------------------------
(* Candidates: the ways a promotion could apply, before conflicts. *)

Application(in, p, value, amount, items) ==
  [promotion |-> p, scope |-> ScopeOf(in.rule[p].condition), action |-> in.rule[p].action,
   value |-> value, amount |-> amount, items |-> items]

LineCandidates(in, p) ==
  LET r == in.rule[p]
      Figure(i) == LineFigure(r, in.line[i].quantity)
      At(i, figure) ==
        LET amount == LineAmount(r, figure, in.line[i])
        IN Application(in, p, figure, AtMost(amount, RemainingHeadroom(in, {i})), {i})
      covered == {i \in PricedLines(in.line) :
                    (\E t \in r.targets : Matches(t, in.line[i])) /\ Figure(i) # None}
  IN {c \in {At(i, Figure(i)) : i \in covered} : c.amount > 0}

SetCandidate(in, p) ==
  LET r == in.rule[p]
      Found(t) == {i \in PricedLines(in.line) : Matches(t, in.line[i])}
      Over(items) ==
        LET amount == BaseAmount(r.action, r.value, SumLines(in.line, items))
        IN Application(in, p, r.value, AtMost(amount, RemainingHeadroom(in, items)), items)
  IN {c \in {Over(UNION {Found(t) : t \in r.targets})} :
        c.amount > 0 /\ \A t \in r.targets : Found(t) # {}}

(* Ranked on the gross; the amount is computed on the net when it is accepted. *)
TotalCandidate(in, p) ==
  LET r == in.rule[p]
      gross == SumLines(in.line, PricedLines(in.line))
  IN {Application(in, p, r.value, BaseAmount(r.action, r.value, gross), {})}

CandidatesOf(in, p) ==
  CASE in.rule[p].condition = "ITEM_SET" -> SetCandidate(in, p)
    [] in.rule[p].condition = "ON_TOTAL" -> TotalCandidate(in, p)
    [] OTHER -> LineCandidates(in, p)

Candidates(in) == UNION {CandidatesOf(in, p) : p \in {q \in DOMAIN in.rule : in.rule[q].inForce}}

FirstLine(a) == IF a.items = {} THEN 0 ELSE Min(a.items)

(* compareCandidates: priority, then the larger amount, then the ids. *)
Outranks(in, a, b) ==
  LET before == <<in.rule[b.promotion].priority, b.amount, a.promotion, FirstLine(a)>>
      after == <<in.rule[a.promotion].priority, a.amount, b.promotion, FirstLine(b)>>
  IN \E n \in 1..4 : before[n] < after[n] /\ \A m \in 1..(n - 1) : before[m] = after[m]

-----------------------------------------------------------------------------
(* Conflicts *)

Exclusive(in, a) == in.rule[a.promotion].exclusive
LinesOf(applications) == UNION {a.items : a \in applications}

(* What an ON_TOTAL rule takes off the net of the open lines, within the *)
(* headroom left there; 0 when it does not apply.                        *)
NetAmount(in, c, open, taken, held) ==
  LET base == NotNegative(SumLines(in.line, open) - taken
                          - AmountsOf({h \in held : h.items # {}}))
      headroom == NotNegative(SumHeadroom(in.line, open) - taken - AmountsOf(held))
      least == in.rule[c.promotion].minTotal
  IN IF least # None /\ base < least THEN 0
     ELSE AtMost(BaseAmount(c.action, c.value, base), headroom)

(* The open lines are those no exclusive rule holds. *)
TotalAmount(in, accepted, c) ==
  LET exclusive == {a \in accepted : Exclusive(in, a)}
      locked == LinesOf(exclusive)
  IN NetAmount(in, c, PricedLines(in.line) \ locked, AmountsOf(accepted \ exclusive),
               {h \in in.held : h.items \cap locked = {}})

Applies(in, accepted, c) == TotalAmount(in, accepted, c) > 0
OnNet(in, accepted, c) == [c EXCEPT !.amount = TotalAmount(in, accepted, c)]

(* Mutant of Claims: a set may take lines that a line rule already holds. *)
ClaimsOverLines(c, accepted) ==
  c.items \cap LinesOf({a \in accepted : a.scope = c.scope}) = {}

Claims(c, accepted) == c.items \cap LinesOf(accepted) = {}

HighestRanked(in, cs) == CHOOSE c \in cs : \A d \in cs \ {c} : Outranks(in, c, d)
LowestRanked(in, cs) == CHOOSE c \in cs : \A d \in cs \ {c} : Outranks(in, d, c)

(* One candidate in rank order: accepted line and set applications, pending *)
(* totals, and the exclusive total that ended the resolution.               *)
Resolved(in, c, s) ==
  IF s.alone # {} THEN s
  ELSE CASE c.scope # "TOTAL" ->
              IF Claims(c, s.accepted) THEN [s EXCEPT !.accepted = @ \cup {c}] ELSE s
         [] c.scope = "TOTAL" /\ ~Exclusive(in, c) -> [s EXCEPT !.pending = @ \cup {c}]
         [] OTHER -> [s EXCEPT !.alone =
                        {t \in {OnNet(in, {}, c)} :
                           /\ s.accepted = {} /\ t.amount > 0
                           /\ ~\E u \in s.pending : Applies(in, {}, u)}]

(* The accepted ones, and the first of the totals that still apply on their net. *)
WithTotal(in, s) ==
  LET viable == {c \in s.pending : Applies(in, s.accepted, c)}
  IN s.accepted \cup (IF viable = {} THEN {}
                      ELSE {OnNet(in, s.accepted, HighestRanked(in, viable))})
Outcome(in, s) == IF s.alone # {} THEN s.alone ELSE WithTotal(in, s)

ResolveCandidates(in, candidates) ==
  Outcome(in, MapThenFoldSet(LAMBDA c, s : Resolved(in, c, s),
                             [accepted |-> {}, pending |-> {}, alone |-> {}],
                             LAMBDA c : c, LAMBDA cs : LowestRanked(in, cs), candidates))

-----------------------------------------------------------------------------
(* Suppression *)

(* What identifies an application across sweeps: a line one by its line. *)
Key(a) == <<a.promotion, IF a.scope = "ITEM" THEN a.items ELSE {}>>
Keys(applications) == {Key(a) : a \in applications}

(* suppressedBy: not a suppressed application itself, and not on what a *)
(* suppression that holds covered.                                      *)
Free(c, suppressed, holding) ==
  /\ Key(c) \notin Keys(suppressed)
  /\ IF c.scope = "TOTAL" THEN \A s \in holding : s.scope # "TOTAL"
                          ELSE c.items \cap LinesOf(holding) = {}

EvaluateWith(in, suppressed, holding) ==
  ResolveCandidates(in, {c \in Candidates(in) : Free(c, suppressed, holding)})

(* A suppression holds while lifting it alone would earn it again. *)
Holding(in) ==
  {s \in in.suppressed : Key(s) \in Keys(EvaluateWith(in, in.suppressed \ {s}, {}))}

EvaluateDiscounts(in) == EvaluateWith(in, in.suppressed, Holding(in))
=============================================================================
