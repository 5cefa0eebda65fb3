-------------------------- MODULE Discounts_proofs --------------------------
(***************************************************************************)
(* Proofs about Discounts, for any lines, promotions, prices, typed rules  *)
(* and requests of the customer.                                           *)
(***************************************************************************)
EXTENDS Discounts, DiscountEngine_proofs

-----------------------------------------------------------------------------
(* What a sweep reads *)

LEMMA LinesAre ==
  ASSUME NEW ln, LinesFit(ln)
  PROVE  /\ DOMAIN ln \subseteq Nat /\ IsFiniteSet(DOMAIN ln)
         /\ \A i \in DOMAIN ln : ln[i] \in LineRow /\ IsLine(ln[i])
<1>1. DOMAIN ln \in SUBSET Lines
  BY DEF LinesFit
<1>2. IsFiniteSet(DOMAIN ln) /\ DOMAIN ln \subseteq Nat
  BY <1>1, DiscountsAssumption, FS_Subset
<1>3. \A i \in DOMAIN ln : ln[i] \in LineRow
  BY DEF LinesFit
<1> QED
  BY <1>2, <1>3 DEF LineRow, IsLine

LEMMA RulesAre ==
  ASSUME rule \in RuleTables
  PROVE  /\ DOMAIN rule = Promotions
         /\ \A p \in Promotions : rule[p] \in Offers[p] /\ IsRule(rule[p])
<1>1. DOMAIN rule = Promotions /\ \A p \in Promotions : rule[p] \in Offers[p]
  BY DEF RuleTables
<1>2. ASSUME NEW p \in Promotions PROVE IsRule(rule[p])
  <2> DEFINE r == rule[p]
  <2>1. r \in Offers[p]
    BY <1>1
  <2> HIDE DEF r
  <2>2. /\ r.action \in Actions /\ r.priority \in Int /\ r.value \in Nat
        /\ \A t \in r.tiers : t.from \in Nat /\ t.value \in Nat
    BY <2>1, DiscountsAssumption DEF Actions
  <2>3. r.condition = "ITEM_SET" => r.targets # {}
    <3>1. r.condition = "ITEM_SET" => Cardinality(r.targets) >= 2
      BY <2>1, RulesAreNormalized
    <3>2. Cardinality({}) = 0
      BY FS_EmptySet
    <3> QED
      BY <3>1, <3>2
  <2> QED
    BY <2>2, <2>3 DEF IsRule, r
<1> QED
  BY <1>1, <1>2

LEMMA FollowLinesIs ==
  ASSUME NEW ln, LinesFit(ln), NEW d \in DiscountRow(ln)
  PROVE  FollowLines(d, ln) \in Nat
<1> DEFINE base == ScopeBase(ln, d.scope, d.items)
           computed == BaseAmount(d.action, d.value, base)
<1>1. base \in Nat
  <2>1. d.items \in SUBSET DOMAIN ln
    BY DEF DiscountRow
  <2>2. \A items \in SUBSET DOMAIN ln : SumLines(ln, items) \in Nat
    BY LinesAre, SumsAre
  <2> QED
    BY <2>1, <2>2 DEF ScopeBase
<1> HIDE DEF base
<1>2. computed \in Nat
  BY <1>1, BaseAmountIs DEF DiscountRow
<1> HIDE DEF computed
<1>3. AtMost(computed, base) \in Nat
  BY <1>1, <1>2, AtMostIs
<1> QED
  BY <1>2, <1>3 DEF FollowLines, base, computed

(* The row FollowLines leaves of a typed one. *)
FollowedRow(d, ln) == IF Live(d) THEN [d EXCEPT !.amount = FollowLines(d, ln)] ELSE d

LEMMA FollowedRowIs ==
  ASSUME NEW ln, LinesFit(ln), NEW d \in DiscountRow(ln)
  PROVE  LET f == FollowedRow(d, ln)
         IN /\ f \in DiscountRow(ln)
            /\ f.origin = d.origin /\ f.promotion = d.promotion /\ f.slot = d.slot
            /\ f.scope = d.scope /\ f.action = d.action /\ f.value = d.value
            /\ f.items = d.items /\ f.suppressed = d.suppressed
            /\ FollowedRow(f, ln) = f
<1>1. CASE Live(d)
  <2>1. FollowedRow(d, ln) = [d EXCEPT !.amount = FollowLines(d, ln)]
    BY <1>1 DEF FollowedRow
  <2> DEFINE f == [d EXCEPT !.amount = FollowLines(d, ln)]
  <2>2. /\ f \in DiscountRow(ln)
        /\ f.origin = d.origin /\ f.promotion = d.promotion /\ f.slot = d.slot
        /\ f.scope = d.scope /\ f.action = d.action /\ f.value = d.value
        /\ f.items = d.items /\ f.suppressed = d.suppressed /\ f.amount = FollowLines(d, ln)
    BY FollowLinesIs DEF DiscountRow
  <2> HIDE DEF f
  <2>3. FollowLines(f, ln) = f.amount
    BY <2>2 DEF FollowLines
  <2>4. [f EXCEPT !.amount = f.amount] = f
    BY <2>2 DEF DiscountRow
  <2>5. FollowedRow(f, ln) = f
    BY <2>3, <2>4 DEF FollowedRow
  <2> QED
    BY <2>1, <2>2, <2>5 DEF f
<1>2. CASE ~Live(d)
  BY <1>2 DEF FollowedRow
<1> QED
  BY <1>1, <1>2

LEMMA FollowedAre ==
  ASSUME NEW ln, LinesFit(ln), NEW ds, RowsFit(ds, ln)
  PROVE  /\ Followed(ds, ln) = {FollowedRow(d, ln) : d \in Manual(ds)}
         /\ IsFiniteSet(Followed(ds, ln))
         /\ \A f \in Followed(ds, ln) : /\ f \in DiscountRow(ln) /\ ~EngineOwned(f) /\ f.slot \in Slots
                                        /\ f.scope = "ITEM" => \E i \in DOMAIN ln : f.items = {i}
         /\ \A f, g \in Followed(ds, ln) : f.slot = g.slot => f = g
<1> DEFINE F == [d \in Manual(ds) |-> FollowedRow(d, ln)]
<1>1. Followed(ds, ln) = {F[d] : d \in Manual(ds)}
  BY DEF Followed, FollowedRow
<1>2. IsFiniteSet(Manual(ds))
  BY FS_Subset DEF Manual, RowsFit
<1>3. IsFiniteSet(Followed(ds, ln))
  <2> HIDE DEF F
  <2> QED
    BY <1>1, <1>2, FiniteImage
<1>4. \A d \in Manual(ds) : /\ d \in DiscountRow(ln) /\ ~EngineOwned(d) /\ d.slot \in Slots
                            /\ d.scope = "ITEM" => \E i \in DOMAIN ln : d.items = {i}
  BY DEF Manual, RowsFit
<1>5. ASSUME NEW d \in Manual(ds)
      PROVE  /\ F[d] \in DiscountRow(ln) /\ ~EngineOwned(F[d]) /\ F[d].slot = d.slot
             /\ F[d].scope = d.scope /\ F[d].items = d.items
  BY <1>4, FollowedRowIs DEF EngineOwned
<1>6. \A d, e \in Manual(ds) : d.slot = e.slot => d = e
  BY DEF RowsFit
<1> HIDE DEF F
<1>7. ASSUME NEW f \in Followed(ds, ln)
      PROVE  /\ f \in DiscountRow(ln) /\ ~EngineOwned(f) /\ f.slot \in Slots
             /\ f.scope = "ITEM" => \E i \in DOMAIN ln : f.items = {i}
  BY <1>1, <1>4, <1>5
<1>8. ASSUME NEW f \in Followed(ds, ln), NEW g \in Followed(ds, ln), f.slot = g.slot PROVE f = g
  BY <1>1, <1>5, <1>6, <1>8
<1> QED
  BY <1>1, <1>3, <1>7, <1>8 DEF F

(* A reading of typed lines and rows is one the engine's proofs are about. *)
LEMMA ReadingIs ==
  ASSUME rule \in RuleTables, NEW ln, LinesFit(ln), NEW ds, RowsFit(ds, ln)
  PROVE  /\ IsReading(Reading(ds, ln))
         /\ Reading(ds, ln).line = ln /\ Reading(ds, ln).rule = rule
         /\ Reading(ds, ln).suppressed = Suppressed(ds)
<1> DEFINE in == Reading(ds, ln)
           live == {e \in Followed(ds, ln) : Live(e)}
           H == [d \in live |-> [id |-> d.slot, amount |-> d.amount,
                                 items |-> IF d.scope = "TOTAL" THEN {} ELSE d.items]]
<1>1. /\ in.line = ln /\ in.rule = rule /\ in.suppressed = Suppressed(ds)
      /\ in.held = {H[d] : d \in live}
  BY DEF Reading
<1>2. IsFiniteSet(live)
  BY FollowedAre, FS_Subset
<1>3. IsFiniteSet(in.held)
  <2> HIDE DEF H, live, in
  <2> QED
    BY <1>1, <1>2, FiniteImage
<1>4. \A h \in in.held : h.amount \in Nat
  <2>1. \A d \in live : H[d].amount \in Nat
    BY FollowedAre DEF DiscountRow
  <2> HIDE DEF H, live, in
  <2> QED
    BY <1>1, <2>1
<1> HIDE DEF in
<1>5. IsReading(in)
  BY <1>1, <1>3, <1>4, LinesAre, RulesAre, DiscountsAssumption DEF IsReading
<1> QED
  BY <1>1, <1>5 DEF in

-----------------------------------------------------------------------------
(* What a sweep leaves *)

(* The row a sweep leaves of an application it earns. *)
Row(stored, a) ==
  LET mine == {d \in stored : Key(d) = Key(a)}
  IN IF mine = {} THEN Fresh(a) ELSE Kept(CHOOSE d \in mine : TRUE, a)

(* A row that says what an application does. *)
SaysOf(d, a) ==
  /\ Key(d) = Key(a) /\ d.promotion = a.promotion /\ d.value = a.value
  /\ d.amount = a.amount /\ d.items = a.items

(* What the rows of a settled version are: the engine's say what it earns on them, each of *)
(* one application, and a typed one follows its lines.                                     *)
Shows(W, ln) ==
  /\ Followed(W, ln) = Manual(W)
  /\ \E r : /\ Earning(W) = {r[a] : a \in Earned(W, ln)}
            /\ \A a \in Earned(W, ln) : SaysOf(r[a], a)

(* What the engine earns on typed lines and rows. *)
LEMMA EarnedAre ==
  ASSUME rule \in RuleTables, NEW ln, LinesFit(ln), NEW ds, RowsFit(ds, ln)
  PROVE  LET in == Reading(ds, ln)
         IN /\ IsReading(in) /\ in.line = ln /\ in.rule = rule /\ in.suppressed = Suppressed(ds)
            /\ Standing(in) \in SUBSET Candidates(in)
            /\ IsResolution(in, Standing(in), Earned(ds, ln))
            /\ IsFiniteSet(Earned(ds, ln))
            /\ \A a \in Earned(ds, ln) :
                 /\ a.promotion \in Promotions /\ a.scope \in Scopes /\ a.action \in Actions
                 /\ a.value \in Nat /\ a.amount \in Nat /\ a.items \in SUBSET DOMAIN ln
                 /\ a.scope = "TOTAL" <=> a.items = {}
                 /\ a.scope = "ITEM" => \E i \in DOMAIN ln : a.items = {i}
            /\ \A a, b \in Earned(ds, ln) : Key(a) = Key(b) => a = b
<1> DEFINE in == Reading(ds, ln)
           E == Earned(ds, ln)
<1>1. IsReading(in) /\ in.line = ln /\ in.rule = rule /\ in.suppressed = Suppressed(ds)
  BY ReadingIs
<1>2. Standing(in) \in SUBSET Candidates(in)
  BY DEF Standing
<1>3. E = EvaluateDiscounts(in)
  BY DEF Earned
<1> HIDE DEF in, E
<1>4. IsResolution(in, Standing(in), E)
  BY <1>1, <1>3, EvaluationIs
<1>5. \A a \in E : IsApplication(in, a)
  BY <1>4 DEF IsResolution
<1>6. DOMAIN rule = Promotions
  BY RulesAre
<1>7. ASSUME NEW a \in E
      PROVE  /\ a.promotion \in Promotions /\ a.scope \in Scopes /\ a.action \in Actions
             /\ a.value \in Nat /\ a.amount \in Nat /\ a.items \in SUBSET DOMAIN ln
             /\ a.scope = "TOTAL" <=> a.items = {}
             /\ a.scope = "ITEM" => \E i \in DOMAIN ln : a.items = {i}
  <2>1. IsApplication(in, a)
    BY <1>5
  <2>2. /\ a.promotion \in Promotions /\ a.scope \in Scopes /\ a.action \in Actions
        /\ a.value \in Nat /\ a.amount \in Nat /\ a.items \in SUBSET DOMAIN ln
    BY <1>1, <1>6, <2>1 DEF IsApplication, ApplicationRow
  <2>3. a.scope = "ITEM" => \E i \in DOMAIN ln : a.items = {i}
    BY <2>1, <2>2 DEF IsApplication
  <2> QED
    BY <2>1, <2>2, <2>3 DEF IsApplication
<1>8. \A a, b \in E : Key(a) = Key(b) => a = b
  BY <1>1, <1>2, <1>4, KeysIdentify
<1>9. IsFiniteSet(E)
  BY <1>4 DEF IsResolution
<1> QED
  BY <1>1, <1>2, <1>4, <1>7, <1>8, <1>9 DEF in, E

(* A key is a promotion, and a line for a line rule. *)
LEMMA KeysAre ==
  ASSUME NEW a, NEW b, Key(a) = Key(b)
  PROVE  /\ a.promotion = b.promotion
         /\ (IF a.scope = "ITEM" THEN a.items ELSE {}) = (IF b.scope = "ITEM" THEN b.items ELSE {})
  BY DEF Key

LEMMA RowIs ==
  ASSUME rule \in RuleTables, NEW ln, LinesFit(ln), NEW ds, RowsFit(ds, ln),
         NEW a \in Earned(ds, ln)
  PROVE  LET d == Row(Earning(ds), a)
         IN /\ SaysOf(d, a)
            /\ d \in DiscountRow(ln) /\ EngineOwned(d) /\ Live(d) /\ d.promotion \in Promotions
            /\ d.scope = "ITEM" => \E i \in DOMAIN ln : d.items = {i}
<1> DEFINE mine == {e \in Earning(ds) : Key(e) = Key(a)}
           old == CHOOSE e \in mine : TRUE
<1>1. /\ a.promotion \in Promotions /\ a.scope \in Scopes /\ a.action \in Actions
      /\ a.value \in Nat /\ a.amount \in Nat /\ a.items \in SUBSET DOMAIN ln
      /\ a.scope = "ITEM" => \E i \in DOMAIN ln : a.items = {i}
  BY EarnedAre
<1>2. CASE mine = {}
  <2>1. Row(Earning(ds), a) = Fresh(a)
    BY <1>2 DEF Row
  <2> DEFINE d == Fresh(a)
  <2>2. d = [origin |-> "AUTOMATIC", promotion |-> a.promotion, slot |-> None, scope |-> a.scope,
             action |-> a.action, value |-> a.value, amount |-> a.amount, items |-> a.items,
             suppressed |-> FALSE]
    BY DEF Fresh
  <2> HIDE DEF d
  <2>3. d \in DiscountRow(ln)
    BY <1>1, <2>2 DEF DiscountRow, Scopes, Actions
  <2>4. SaysOf(d, a)
    BY <2>2 DEF SaysOf, Key
  <2>5. EngineOwned(d) /\ Live(d)
    BY <2>2 DEF EngineOwned, Live
  <2>6. d.promotion \in Promotions /\ (d.scope = "ITEM" => \E i \in DOMAIN ln : d.items = {i})
    BY <1>1, <2>2
  <2> QED
    BY <2>1, <2>3, <2>4, <2>5, <2>6 DEF d
<1>3. CASE mine # {}
  <2>1. Row(Earning(ds), a) = Kept(old, a)
    BY <1>3 DEF Row
  <2>2. old \in mine
    BY <1>3
  <2> HIDE DEF old
  <2>3. /\ old \in DiscountRow(ln) /\ EngineOwned(old) /\ Live(old) /\ Key(old) = Key(a)
        /\ old.scope = "ITEM" => \E i \in DOMAIN ln : old.items = {i}
    BY <2>2 DEF Earning, RowsFit
  <2> DEFINE d == Kept(old, a)
  <2>4. /\ d \in DiscountRow(ln)
        /\ d.origin = old.origin /\ d.promotion = old.promotion /\ d.scope = old.scope
        /\ d.suppressed = old.suppressed
        /\ d.value = a.value /\ d.amount = a.amount /\ d.items = a.items
    BY <1>1, <2>3 DEF Kept, DiscountRow
  <2>5. old.promotion = a.promotion
    BY <2>3, KeysAre
  <2>6. (IF old.scope = "ITEM" THEN old.items ELSE {}) = (IF a.scope = "ITEM" THEN a.items ELSE {})
    BY <2>3, KeysAre
  <2> HIDE DEF d
  <2>7. old.scope = "ITEM" => a.scope = "ITEM" /\ a.items = old.items
    BY <1>1, <2>3, <2>6
  <2>8. old.scope # "ITEM" => a.scope # "ITEM"
    BY <1>1, <2>3, <2>6
  <2>9. Key(d) = Key(a)
    BY <2>4, <2>5, <2>7, <2>8 DEF Key
  <2>10. SaysOf(d, a)
    BY <2>4, <2>5, <2>9 DEF SaysOf
  <2>11. EngineOwned(d) /\ Live(d)
    BY <2>3, <2>4 DEF EngineOwned, Live
  <2>12. d.promotion \in Promotions /\ (d.scope = "ITEM" => \E i \in DOMAIN ln : d.items = {i})
    BY <1>1, <2>3, <2>4, <2>5, <2>7
  <2> QED
    BY <2>1, <2>4, <2>10, <2>11, <2>12 DEF d
<1> QED
  BY <1>2, <1>3

(* The three kinds of rows a sweep leaves. *)
LEMMA SettledRows ==
  ASSUME rule \in RuleTables, NEW ln, LinesFit(ln), NEW ds, RowsFit(ds, ln)
  PROVE  LET W == Settle(ds, ln).rows
         IN /\ Settle(ds, ln) = [line |-> ln, rows |-> W, total |-> TotalOf(W, ln)]
            /\ W = Persisted(Earning(ds), Earned(ds, ln)) \cup Followed(ds, ln) \cup Suppressed(ds)
            /\ Earning(W) = {Row(Earning(ds), a) : a \in Earned(ds, ln)}
            /\ Manual(W) = Followed(ds, ln) /\ Suppressed(W) = Suppressed(ds)
<1> DEFINE W == Settle(ds, ln).rows
           P == Persisted(Earning(ds), Earned(ds, ln))
<1>1. /\ Settle(ds, ln) = [line |-> ln, rows |-> W, total |-> TotalOf(W, ln)]
      /\ W = P \cup Followed(ds, ln) \cup Suppressed(ds)
  BY DEF Settle, Version
<1>2. P = {Row(Earning(ds), a) : a \in Earned(ds, ln)}
  BY DEF Persisted, Row
<1> HIDE DEF W, P
<1>3. \A d \in P : EngineOwned(d) /\ Live(d)
  BY <1>2, RowIs
<1>4. \A d \in Followed(ds, ln) : ~EngineOwned(d)
  BY FollowedAre
<1>5. \A d \in Suppressed(ds) : EngineOwned(d) /\ ~Live(d)
  BY DEF Suppressed
<1>6. Earning(W) = P
  BY <1>1, <1>3, <1>4, <1>5 DEF Earning
<1>7. Manual(W) = Followed(ds, ln)
  BY <1>1, <1>3, <1>4, <1>5 DEF Manual
<1>8. Suppressed(W) = Suppressed(ds)
  <2>1. \A d \in W : EngineOwned(d) /\ ~Live(d) <=> d \in Suppressed(ds)
    BY <1>1, <1>3, <1>4, <1>5
  <2>2. Suppressed(ds) \subseteq W
    BY <1>1
  <2>3. Suppressed(W) = {d \in W : d \in Suppressed(ds)}
    BY <2>1 DEF Suppressed
  <2> QED
    BY <2>2, <2>3
<1> QED
  BY <1>1, <1>2, <1>6, <1>7, <1>8 DEF W, P

LEMMA SettledFits ==
  ASSUME rule \in RuleTables, NEW ln, LinesFit(ln), NEW ds, RowsFit(ds, ln)
  PROVE  RowsFit(Settle(ds, ln).rows, ln)
<1> DEFINE W == Settle(ds, ln).rows
           E == Earned(ds, ln)
           F == [a \in E |-> Row(Earning(ds), a)]
<1>1. /\ W = Earning(W) \cup Manual(W) \cup Suppressed(W)
      /\ Earning(W) = {F[a] : a \in E}
      /\ Manual(W) = Followed(ds, ln) /\ Suppressed(W) = Suppressed(ds)
  BY SettledRows DEF Persisted, Row
<1>2. \A a \in E : /\ F[a] \in DiscountRow(ln) /\ EngineOwned(F[a]) /\ F[a].promotion \in Promotions
                   /\ F[a].scope = "ITEM" => \E i \in DOMAIN ln : F[a].items = {i}
  BY RowIs
<1>3. IsFiniteSet(E)
  BY EarnedAre
<1> HIDE DEF W, E, F
<1>4. IsFiniteSet(Earning(W))
  BY <1>1, <1>3, FiniteImage
<1>5. IsFiniteSet(Manual(W)) /\ \A d, e \in Manual(W) : d.slot = e.slot => d = e
  BY <1>1, FollowedAre
<1>6. IsFiniteSet(Suppressed(W))
  BY <1>1, FS_Subset DEF RowsFit, Suppressed
<1>7. IsFiniteSet(W)
  <2>1. IsFiniteSet(Earning(W) \cup Manual(W))
    BY <1>4, <1>5, FS_Union
  <2>2. IsFiniteSet((Earning(W) \cup Manual(W)) \cup Suppressed(W))
    BY <1>6, <2>1, FS_Union
  <2>3. W = (Earning(W) \cup Manual(W)) \cup Suppressed(W)
    BY <1>1
  <2> QED
    BY <2>2, <2>3
<1>8. ASSUME NEW d \in W
      PROVE  /\ d \in DiscountRow(ln)
             /\ d.scope = "ITEM" => \E i \in DOMAIN ln : d.items = {i}
             /\ IF EngineOwned(d) THEN d.promotion \in Promotions ELSE d.slot \in Slots
  <2>1. CASE d \in Earning(W)
    BY <1>1, <1>2, <2>1
  <2>2. CASE d \in Manual(W)
    BY <1>1, <2>2, FollowedAre
  <2>3. CASE d \in Suppressed(W)
    BY <1>1, <2>3 DEF RowsFit, Suppressed
  <2> QED
    BY <1>1, <2>1, <2>2, <2>3
<1> QED
  BY <1>5, <1>7, <1>8 DEF RowsFit, W

(* What an evaluation reads of the rows is what was typed, as it follows the lines, and *)
(* what was suppressed.                                                                 *)
LEMMA EarnedDependsOn ==
  ASSUME NEW ln, NEW ds, NEW es, Followed(ds, ln) = Followed(es, ln), Suppressed(ds) = Suppressed(es)
  PROVE  Earned(ds, ln) = Earned(es, ln)
  BY DEF Earned, Reading

LEMMA FollowedTwice ==
  ASSUME NEW ln, LinesFit(ln), NEW ds, RowsFit(ds, ln), NEW W, RowsFit(W, ln),
         Manual(W) = Followed(ds, ln)
  PROVE  Followed(W, ln) = Manual(W)
<1>1. Followed(W, ln) = {FollowedRow(f, ln) : f \in Manual(W)}
  BY FollowedAre
<1>2. ASSUME NEW f \in Manual(W) PROVE FollowedRow(f, ln) = f
  <2>1. PICK d \in Manual(ds) : f = FollowedRow(d, ln)
    BY FollowedAre
  <2>2. d \in DiscountRow(ln)
    BY DEF Manual, RowsFit
  <2> QED
    BY <2>1, <2>2, FollowedRowIs
<1> QED
  BY <1>1, <1>2

LEMMA SettledShows ==
  ASSUME rule \in RuleTables, NEW ln, LinesFit(ln), NEW ds, RowsFit(ds, ln)
  PROVE  Shows(Settle(ds, ln).rows, ln)
<1> DEFINE W == Settle(ds, ln).rows
           r == [a \in Earned(W, ln) |-> Row(Earning(ds), a)]
<1>1. /\ Earning(W) = {Row(Earning(ds), a) : a \in Earned(ds, ln)}
      /\ Manual(W) = Followed(ds, ln) /\ Suppressed(W) = Suppressed(ds)
  BY SettledRows
<1>2. RowsFit(W, ln)
  BY SettledFits
<1> HIDE DEF W
<1>3. Followed(W, ln) = Manual(W)
  BY <1>1, <1>2, FollowedTwice
<1>4. Earned(W, ln) = Earned(ds, ln)
  BY <1>1, <1>3, EarnedDependsOn
<1>5. \A a \in Earned(ds, ln) : SaysOf(Row(Earning(ds), a), a)
  BY RowIs
<1>6. Earning(W) = {r[a] : a \in Earned(W, ln)}
  BY <1>1, <1>4
<1>7. \A a \in Earned(W, ln) : SaysOf(r[a], a)
  BY <1>4, <1>5
<1> HIDE DEF r
<1>8. Shows(W, ln)
  BY <1>3, <1>6, <1>7 DEF Shows
<1> QED
  BY <1>8 DEF W

(* A row says of one application only what it does. *)
LEMMA SaysOneThing ==
  ASSUME rule \in RuleTables, NEW ln, LinesFit(ln), NEW W, RowsFit(W, ln), Shows(W, ln)
  PROVE  /\ \A d \in Earning(W) : \E a \in Earned(W, ln) : SaysOf(d, a)
         /\ \A a \in Earned(W, ln) : \E d \in Earning(W) : SaysOf(d, a)
         /\ \A d, e \in Earning(W) : Key(d) = Key(e) => d = e
<1>1. PICK r : /\ Earning(W) = {r[a] : a \in Earned(W, ln)}
               /\ \A a \in Earned(W, ln) : SaysOf(r[a], a)
  BY DEF Shows
<1>2. \A a, b \in Earned(W, ln) : Key(a) = Key(b) => a = b
  BY EarnedAre
<1>3. ASSUME NEW d \in Earning(W), NEW e \in Earning(W), Key(d) = Key(e) PROVE d = e
  <2>1. PICK a \in Earned(W, ln) : d = r[a] /\ Key(d) = Key(a)
    BY <1>1 DEF SaysOf
  <2>2. PICK b \in Earned(W, ln) : e = r[b] /\ Key(e) = Key(b)
    BY <1>1 DEF SaysOf
  <2>3. Key(a) = Key(b)
    BY <1>3, <2>1, <2>2
  <2> QED
    BY <1>2, <2>1, <2>2, <2>3
<1>4. \A d \in Earning(W) : \E a \in Earned(W, ln) : SaysOf(d, a)
  BY <1>1
<1>5. \A a \in Earned(W, ln) : \E d \in Earning(W) : SaysOf(d, a)
  BY <1>1
<1> QED
  BY <1>3, <1>4, <1>5

(* A second sweep changes nothing. *)
LEMMA ShownIsSettled ==
  ASSUME rule \in RuleTables, NEW ln, LinesFit(ln), NEW W, RowsFit(W, ln), Shows(W, ln)
  PROVE  Settle(W, ln) = [line |-> ln, rows |-> W, total |-> TotalOf(W, ln)]
<1> DEFINE E == Earned(W, ln)
<1>1. /\ \A d \in Earning(W) : \E a \in E : SaysOf(d, a)
      /\ \A a \in E : \E d \in Earning(W) : SaysOf(d, a)
      /\ \A d, e \in Earning(W) : Key(d) = Key(e) => d = e
  BY SaysOneThing
<1> HIDE DEF E
<1>2. ASSUME NEW a \in E, NEW d \in Earning(W), SaysOf(d, a) PROVE Row(Earning(W), a) = d
  <2> DEFINE mine == {e \in Earning(W) : Key(e) = Key(a)}
  <2>1. mine = {d}
    BY <1>1, <1>2 DEF SaysOf
  <2>2. (CHOOSE e \in mine : TRUE) = d
    BY <2>1
  <2>3. Row(Earning(W), a) = Kept(d, a)
    BY <2>1, <2>2 DEF Row
  <2>4. d \in DiscountRow(ln)
    BY DEF Earning, RowsFit
  <2>5. Kept(d, a) = d
    BY <1>2, <2>4 DEF Kept, SaysOf, DiscountRow
  <2> QED
    BY <2>3, <2>5
<1>3. Persisted(Earning(W), E) = Earning(W)
  <2>1. Persisted(Earning(W), E) = {Row(Earning(W), a) : a \in E}
    BY DEF Persisted, Row
  <2>2. \A a \in E : Row(Earning(W), a) \in Earning(W)
    BY <1>1, <1>2
  <2>3. \A d \in Earning(W) : \E a \in E : d = Row(Earning(W), a)
    BY <1>1, <1>2
  <2> QED
    BY <2>1, <2>2, <2>3
<1>4. Followed(W, ln) = Manual(W)
  BY DEF Shows
<1>5. W = Earning(W) \cup Manual(W) \cup Suppressed(W)
  BY DEF Earning, Manual, Suppressed
<1>6. Settle(W, ln) = Version(ln, W)
  <2>1. Settle(W, ln) = Version(ln, Persisted(Earning(W), E) \cup Followed(W, ln) \cup Suppressed(W))
    BY DEF Settle, E
  <2> QED
    BY <1>3, <1>4, <1>5, <2>1
<1> QED
  BY <1>6 DEF Version

-----------------------------------------------------------------------------
(* What settled rows keep *)

(* What the seller took by hand beside a set of lines. *)
Taken(ds, items) ==
  AmountsOf({e \in Manual(ds) : Live(e) /\ e.scope # "TOTAL" /\ e.items \cap items # {}})

(* FloorBindsTheEngine and EarnedStaysApart, of any rows and lines. *)
FloorsHold(ds, ln) ==
  /\ \A d \in Earning(ds) :
       d.items # {} => d.amount + Taken(ds, d.items) <= SumHeadroom(ln, d.items)
  /\ AmountsOf(Earning(ds)) <= SumHeadroom(ln, PricedLines(ln))

StayApart(ds) ==
  \A d, e \in Earning(ds) : d # e => d.items \cap e.items = {} /\ (d.items # {} \/ e.items # {})

LEMMA ShownStayApart ==
  ASSUME rule \in RuleTables, NEW ln, LinesFit(ln), NEW W, RowsFit(W, ln), Shows(W, ln)
  PROVE  StayApart(W)
<1>1. SUFFICES ASSUME NEW d \in Earning(W), NEW e \in Earning(W), d # e
               PROVE  d.items \cap e.items = {} /\ (d.items # {} \/ e.items # {})
  BY DEF StayApart
<1>2. PICK a \in Earned(W, ln) : SaysOf(d, a)
  BY SaysOneThing
<1>3. PICK b \in Earned(W, ln) : SaysOf(e, b)
  BY SaysOneThing
<1>4. a # b
  <2>1. a = b => Key(d) = Key(e)
    BY <1>2, <1>3 DEF SaysOf
  <2> QED
    BY <1>1, <2>1, SaysOneThing
<1>5. IsResolution(Reading(W, ln), Standing(Reading(W, ln)), Earned(W, ln))
  BY EarnedAre
<1>6. a.items \cap b.items = {} /\ (a.items # {} \/ b.items # {})
  BY <1>4, <1>5 DEF IsResolution
<1> QED
  BY <1>2, <1>3, <1>6 DEF SaysOf

(* What the engine leaves to the seller's discounts is what they take. *)
LEMMA HeldIsTaken ==
  ASSUME rule \in RuleTables, NEW ln, LinesFit(ln), NEW W, RowsFit(W, ln), Shows(W, ln), NEW items
  PROVE  AmountsOf({h \in Reading(W, ln).held : h.items \cap items # {}}) = Taken(W, items)
<1> DEFINE X == {e \in Manual(W) : Live(e) /\ e.scope # "TOTAL" /\ e.items \cap items # {}}
           Held(e) == [id |-> e.slot, amount |-> e.amount,
                       items |-> IF e.scope = "TOTAL" THEN {} ELSE e.items]
           f == [e \in X |-> Held(e)]
           H == {h \in Reading(W, ln).held : h.items \cap items # {}}
<1>1. Manual(W) = Followed(W, ln)
  BY DEF Shows
<1>2. IsFiniteSet(X) /\ \A e \in X : e.amount \in Nat
  <2>1. IsFiniteSet(Manual(W)) /\ \A e \in Manual(W) : e \in DiscountRow(ln)
    BY <1>1, FollowedAre
  <2> QED
    BY <2>1, FS_Subset DEF DiscountRow
<1>3. \A a, b \in X : f[a] = f[b] => a = b
  <2>1. \A a, b \in X : f[a] = f[b] => a.slot = b.slot
    <3>1. \A a \in X : f[a].id = a.slot
      OBVIOUS
    <3> QED
      BY <3>1
  <2> QED
    BY <1>1, <2>1, FollowedAre
<1>4. \A a \in X : f[a].amount = a.amount
  OBVIOUS
<1>5. H = {f[a] : a \in X}
  <2>1. Reading(W, ln).held = {Held(e) : e \in {d \in Followed(W, ln) : Live(d)}}
    BY DEF Reading
  <2>2. \A e \in Manual(W) : Held(e).items = IF e.scope = "TOTAL" THEN {} ELSE e.items
    OBVIOUS
  <2>3. \A e \in X : f[e] = Held(e)
    OBVIOUS
  <2> HIDE DEF Held, f
  <2>4. Reading(W, ln).held = {Held(e) : e \in {d \in Manual(W) : Live(d)}}
    BY <1>1, <2>1
  <2>5. H = {Held(e) : e \in X}
    <3>1. \A e \in Manual(W) : e.scope = "TOTAL" => Held(e).items = {}
      BY <2>2
    <3>2. \A e \in Manual(W) : e.scope # "TOTAL" => Held(e).items = e.items
      BY <2>2
    <3>3. \A e \in Manual(W) : Held(e).items \cap items # {} <=> e.scope # "TOTAL" /\ e.items \cap items # {}
      BY <3>1, <3>2
    <3> QED
      BY <2>4, <3>3
  <2> QED
    BY <2>3, <2>5
<1> HIDE DEF X, f, H
<1>6. AmountsOf({f[a] : a \in X}) = AmountsOf(X)
  BY <1>2, <1>3, <1>4, AmountsImage
<1> QED
  BY <1>5, <1>6 DEF Taken, X, H

LEMMA ShownKeepFloors ==
  ASSUME rule \in RuleTables, NEW ln, LinesFit(ln), NEW W, RowsFit(W, ln), Shows(W, ln)
  PROVE  FloorsHold(W, ln)
<1> DEFINE in == Reading(W, ln)
           E == Earned(W, ln)
<1>1. /\ IsReading(in) /\ in.line = ln /\ Standing(in) \in SUBSET Candidates(in)
      /\ IsResolution(in, Standing(in), E) /\ IsFiniteSet(E) /\ \A a \in E : a.amount \in Nat
      /\ \A a, b \in E : Key(a) = Key(b) => a = b
  BY EarnedAre
<1>2. ASSUME NEW d \in Earning(W), d.items # {}
      PROVE  d.amount + Taken(W, d.items) <= SumHeadroom(ln, d.items)
  <2>1. PICK a \in E : SaysOf(d, a)
    BY SaysOneThing
  <2>2. a.amount = d.amount /\ a.items = d.items
    BY <2>1 DEF SaysOf
  <2>3. AmountsOf({h \in in.held : h.items \cap a.items # {}}) = Taken(W, a.items)
    BY HeldIsTaken
  <2> HIDE DEF in, E
  <2>4. a \in Candidates(in) /\ a.items # {}
    BY <1>1, <1>2, <2>2 DEF IsResolution
  <2>5. a.amount + AmountsOf({h \in in.held : h.items \cap a.items # {}}) <= SumHeadroom(in.line, a.items)
    BY <1>1, <2>4, LinesKeepFloors
  <2> QED
    BY <1>1, <2>2, <2>3, <2>5
<1>3. AmountsOf(Earning(W)) = AmountsOf(E)
  <2>1. PICK r : Earning(W) = {r[a] : a \in E} /\ \A a \in E : SaysOf(r[a], a)
    BY DEF Shows
  <2> HIDE DEF in, E
  <2>2. \A a, b \in E : r[a] = r[b] => a = b
    BY <1>1, <2>1 DEF SaysOf
  <2>3. \A a \in E : r[a].amount = a.amount
    BY <2>1 DEF SaysOf
  <2>4. AmountsOf({r[a] : a \in E}) = AmountsOf(E)
    BY <1>1, <2>2, <2>3, AmountsImage
  <2> QED
    BY <2>1, <2>4
<1>4. AmountsOf(E) <= SumHeadroom(in.line, PricedLines(in.line))
  <2> HIDE DEF in, E
  <2> QED
    BY <1>1, EngineKeepsFloors
<1> QED
  BY <1>1, <1>2, <1>3, <1>4 DEF FloorsHold

(* A sweep of typed rows and lines leaves them typed, settled, apart and above the floors. *)
Sound(s) ==
  /\ s = [line |-> s.line, rows |-> s.rows, total |-> TotalOf(s.rows, s.line)]
  /\ LinesFit(s.line) /\ RowsFit(s.rows, s.line) /\ Shows(s.rows, s.line)

LEMMA SettleIsSound ==
  ASSUME rule \in RuleTables, NEW ln, LinesFit(ln), NEW ds, RowsFit(ds, ln)
  PROVE  Sound(Settle(ds, ln)) /\ Settle(ds, ln).line = ln
<1> DEFINE s == Settle(ds, ln)
<1>1. s = [line |-> ln, rows |-> s.rows, total |-> TotalOf(s.rows, ln)]
  BY SettledRows
<1>2. RowsFit(s.rows, ln) /\ Shows(s.rows, ln)
  BY SettledFits, SettledShows
<1> HIDE DEF s
<1>3. s.line = ln
  BY <1>1
<1>4. Sound(s)
  BY <1>1, <1>2, <1>3 DEF Sound
<1> QED
  BY <1>3, <1>4 DEF s

LEMMA TotalIs ==
  ASSUME NEW ln, LinesFit(ln), NEW ds, RowsFit(ds, ln)
  PROVE  TotalOf(ds, ln) \in Nat
<1>1. SumLines(ln, DOMAIN ln) \in Nat
  BY LinesAre, SumsAre
<1> DEFINE live == {d \in ds : Live(d)}
<1>2. IsFiniteSet(live) /\ \A d \in live : d.amount \in Nat
  BY FS_Subset DEF RowsFit, DiscountRow
<1>3. AmountsOf(live) \in Nat
  <2> HIDE DEF live
  <2> QED
    BY <1>2, AmountsSum
<1> QED
  BY <1>1, <1>3, NotNegativeIs DEF TotalOf

LEMMA SoundIs ==
  ASSUME rule \in RuleTables, NEW s, Sound(s)
  PROVE  /\ LinesFit(s.line) /\ RowsFit(s.rows, s.line) /\ s.total \in Nat
         /\ StayApart(s.rows) /\ FloorsHold(s.rows, s.line)
         /\ Settle(s.rows, s.line) = [line |-> s.line, rows |-> s.rows, total |-> s.total]
<1>1. LinesFit(s.line) /\ RowsFit(s.rows, s.line) /\ Shows(s.rows, s.line)
  BY DEF Sound
<1>2. s.total = TotalOf(s.rows, s.line)
  BY DEF Sound
<1>3. TotalOf(s.rows, s.line) \in Nat
  BY <1>1, TotalIs
<1>4. Settle(s.rows, s.line) = [line |-> s.line, rows |-> s.rows, total |-> TotalOf(s.rows, s.line)]
  BY <1>1, ShownIsSettled
<1> QED
  BY <1>1, <1>2, <1>3, <1>4, ShownStayApart, ShownKeepFloors

(* Lines without a price earn nothing. *)
LEMMA UnpricedEarnNothing ==
  ASSUME rule \in RuleTables, NEW ln, LinesFit(ln), \A i \in DOMAIN ln : ln[i].price = None
  PROVE  Earned({}, ln) = {} /\ RowsFit({}, ln)
<1> DEFINE in == Reading({}, ln)
           E == Earned({}, ln)
<1>1. RowsFit({}, ln)
  BY FS_EmptySet DEF RowsFit, Manual
<1>2. /\ IsReading(in) /\ in.line = ln /\ Standing(in) \in SUBSET Candidates(in)
      /\ IsResolution(in, Standing(in), E) /\ \A a \in E : a.amount \in Nat
  BY <1>1, EarnedAre
<1> HIDE DEF in, E
<1>3. PricedLines(ln) = {}
  BY DEF PricedLines
<1>4. ASSUME NEW a \in E PROVE a.items = {}
  <2>1. a.items # {} => a \in Candidates(in)
    BY <1>2 DEF IsResolution
  <2>2. a.items # {} => a.items \subseteq PricedLines(ln)
    BY <1>2, <2>1, CandidateIs DEF IsCandidate
  <2> QED
    BY <1>3, <2>2
<1>5. ASSUME NEW a \in E PROVE FALSE
  <2>1. \A b \in E : b = a
    BY <1>2, <1>4 DEF IsResolution
  <2>2. E = {a}
    BY <2>1
  <2>3. a.amount > 0
    BY <1>2, <1>4 DEF IsResolution
  <2>4. AmountsOf({a}) = a.amount
    BY <1>2, NoAmounts
  <2>5. AmountsOf(E) <= SumHeadroom(ln, PricedLines(ln))
    BY <1>2, EngineKeepsFloors
  <2>6. SumHeadroom(ln, {}) = 0
    BY FS_EmptySet, HeadroomsAre, SumOfNone
  <2>7. a.amount <= 0
    BY <1>3, <2>2, <2>4, <2>5, <2>6
  <2> QED
    BY <1>2, <2>3, <2>7
<1> QED
  BY <1>1, <1>5 DEF E

(* What the attachment sweep writes is what a sweep of the discounts would leave. *)
LEMMA UnpricedIsSound ==
  ASSUME rule \in RuleTables, NEW ln, LinesFit(ln), \A i \in DOMAIN ln : ln[i].price = None
  PROVE  Sound([line |-> ln, rows |-> {}, total |-> 0])
<1>1. Earned({}, ln) = {} /\ RowsFit({}, ln)
  BY UnpricedEarnNothing
<1>2. Shows({}, ln)
  <2>1. Followed({}, ln) = {} /\ Manual({}) = {} /\ Earning({}) = {}
    BY DEF Followed, Manual, Earning
  <2> QED
    BY <1>1, <2>1 DEF Shows
<1>3. SumLines(ln, DOMAIN ln) = 0
  <2>1. IsFiniteSet(DOMAIN ln) /\ \A i \in DOMAIN ln : Subtotal(ln[i]) = 0
    BY LinesAre DEF Subtotal
  <2> DEFINE h == Subtotals(ln, DOMAIN ln)
             k == [t \in SUBSET DOMAIN ln |-> 0]
  <2>2. \A i \in DOMAIN ln : h[i] = 0
    BY <2>1 DEF Subtotals
  <2>3. Adds(h, k, DOMAIN ln)
    <3>1. ASSUME NEW t \in SUBSET DOMAIN ln, t # {} PROVE k[t] = h[AnyOf(t)] + k[t \ {AnyOf(t)}]
      <4>1. AnyOf(t) \in t
        BY <3>1 DEF AnyOf
      <4> QED
        BY <2>2, <4>1
    <3> QED
      BY <3>1 DEF Adds
  <2>4. k[DOMAIN ln] = 0
    OBVIOUS
  <2> HIDE DEF h, k
  <2>5. SumOf(h, DOMAIN ln) = 0
    BY <2>1, <2>2, <2>3, <2>4, SumIs
  <2> QED
    BY <2>1, <2>5, SubtotalsAre DEF h
<1>4. TotalOf({}, ln) = 0
  <2>1. {d \in {} : Live(d)} = {}
    OBVIOUS
  <2> QED
    BY <1>3, <2>1, NoAmounts DEF TotalOf, NotNegative
<1> QED
  BY <1>1, <1>2, <1>4 DEF Sound

-----------------------------------------------------------------------------
(* What a seller decided *)

(* The same decision, but for the figure a typed one follows its lines to, and for who is *)
(* named as the origin of a suppressed one.                                               *)
SameDecision(d, e) ==
  /\ e.suppressed = d.suppressed /\ EngineOwned(e) = EngineOwned(d) /\ e.items = d.items
  /\ e.promotion = d.promotion /\ e.slot = d.slot /\ e.scope = d.scope
  /\ e.action = d.action /\ e.value = d.value

Keeps(ds, W) == \A d \in Decisions(ds) : \E e \in W : SameDecision(d, e)

LEMMA KeepsOn ==
  ASSUME NEW X, NEW Y, NEW Z, Keeps(X, Y), Keeps(Y, Z)
  PROVE  Keeps(X, Z)
<1>1. SUFFICES ASSUME NEW d \in Decisions(X) PROVE \E e \in Z : SameDecision(d, e)
  BY DEF Keeps
<1>2. PICK e \in Y : SameDecision(d, e)
  BY DEF Keeps
<1>3. e \in Decisions(Y)
  BY <1>2 DEF Decisions, Manual, Suppressed, SameDecision, Live
<1>4. PICK f \in Z : SameDecision(e, f)
  BY <1>3 DEF Keeps
<1>5. SameDecision(d, f)
  BY <1>2, <1>4 DEF SameDecision
<1> QED
  BY <1>5

(* A sweep keeps every decision. *)
LEMMA SettleKeeps ==
  ASSUME NEW ln, LinesFit(ln), NEW ds, RowsFit(ds, ln)
  PROVE  Keeps(ds, Settle(ds, ln).rows)
<1>1. /\ Followed(ds, ln) \subseteq Settle(ds, ln).rows
      /\ Suppressed(ds) \subseteq Settle(ds, ln).rows
  BY DEF Settle, Version
<1>2. ASSUME NEW d \in Manual(ds) PROVE \E e \in Followed(ds, ln) : SameDecision(d, e)
  <2>1. FollowedRow(d, ln) \in Followed(ds, ln)
    BY FollowedAre
  <2>2. d \in DiscountRow(ln)
    BY DEF Manual, RowsFit
  <2>3. SameDecision(d, FollowedRow(d, ln))
    BY <2>2, FollowedRowIs DEF SameDecision, EngineOwned
  <2> QED
    BY <2>1, <2>3
<1>3. \A d \in Suppressed(ds) : SameDecision(d, d)
  BY DEF SameDecision
<1> QED
  BY <1>1, <1>2, <1>3 DEF Keeps, Decisions

-----------------------------------------------------------------------------
(* The customer's raises *)

(* Marking what the raises earned changes no figure, no key and no decision. *)
LEMMA AdaptedIsSound ==
  ASSUME rule \in RuleTables, NEW before, NEW s, Sound(s)
  PROVE  /\ Sound(Adapted(before, s)) /\ Adapted(before, s).line = s.line
         /\ Keeps(s.rows, Adapted(before, s).rows)
<1> DEFINE ln == s.line
           W == s.rows
           raised == {i \in DOMAIN s.line : s.line[i].quantity # before.line[i].quantity}
           Figures == {<<Key(d), d.value>> : d \in Earning(before.rows)}
           Reached(d) == /\ d.origin = "AUTOMATIC" /\ Live(d) /\ d.items \cap raised # {}
                         /\ <<Key(d), d.value>> \notin Figures
           Mark(d) == IF Reached(d) THEN [d EXCEPT !.origin = "AI_ADAPTATION"] ELSE d
           T == {Mark(d) : d \in W}
<1>1. s = [line |-> ln, rows |-> W, total |-> TotalOf(W, ln)]
      /\ LinesFit(ln) /\ RowsFit(W, ln) /\ Shows(W, ln)
  BY DEF Sound
<1>2. Adapted(before, s) = [line |-> ln, rows |-> T, total |-> TotalOf(W, ln)]
  <2>1. Adapted(before, s) = [s EXCEPT !.rows = T]
    BY DEF Adapted
  <2> HIDE DEF T
  <2> QED
    BY <1>1, <2>1
<1>3. \A d \in W : /\ d \in DiscountRow(ln)
                   /\ d.scope = "ITEM" => \E i \in DOMAIN ln : d.items = {i}
                   /\ IF EngineOwned(d) THEN d.promotion \in Promotions ELSE d.slot \in Slots
  BY <1>1 DEF RowsFit
<1>4. ASSUME NEW d \in W
      PROVE  /\ Mark(d) \in DiscountRow(ln) /\ EngineOwned(Mark(d)) = EngineOwned(d)
             /\ Key(Mark(d)) = Key(d) /\ SameDecision(d, Mark(d)) /\ Mark(d).amount = d.amount
             /\ Mark(d).items = d.items /\ Mark(d).value = d.value
             /\ Mark(d).promotion = d.promotion
             /\ Mark(d).suppressed = d.suppressed
             /\ Mark(d) = d \/ (EngineOwned(d) /\ Live(d))
  <2>1. CASE Reached(d)
    <3> DEFINE m == [d EXCEPT !.origin = "AI_ADAPTATION"]
    <3>1. /\ m \in DiscountRow(ln) /\ m.origin = "AI_ADAPTATION" /\ m.promotion = d.promotion
          /\ m.slot = d.slot /\ m.scope = d.scope /\ m.action = d.action /\ m.value = d.value
          /\ m.amount = d.amount /\ m.items = d.items /\ m.suppressed = d.suppressed
      BY <1>3 DEF DiscountRow
    <3>2. Mark(d) = m
      BY <2>1
    <3>3. d.origin = "AUTOMATIC" /\ Live(d)
      BY <2>1
    <3> HIDE DEF m, Mark
    <3>4. EngineOwned(m) /\ EngineOwned(d)
      BY <3>1, <3>3 DEF EngineOwned
    <3>5. Key(m) = Key(d)
      BY <3>1 DEF Key
    <3>6. SameDecision(d, m)
      BY <3>1, <3>4 DEF SameDecision
    <3> QED
      BY <3>1, <3>2, <3>3, <3>4, <3>5, <3>6
  <2>2. CASE ~Reached(d)
    <3>1. Mark(d) = d
      BY <2>2
    <3> HIDE DEF Mark
    <3> QED
      BY <1>3, <3>1 DEF SameDecision
  <2> QED
    BY <2>1, <2>2
<1> HIDE DEF Mark
<1>5. Earning(T) = {Mark(d) : d \in Earning(W)} /\ Suppressed(T) = Suppressed(W) /\ Manual(T) = Manual(W)
  <2>1. \A d \in W : EngineOwned(Mark(d)) = EngineOwned(d) /\ Live(Mark(d)) = Live(d)
    BY <1>4 DEF Live
  <2>2. Earning(T) = {Mark(d) : d \in Earning(W)}
    BY <2>1 DEF Earning
  <2>3. \A d \in W : ~EngineOwned(d) \/ ~Live(d) => Mark(d) = d
    BY <1>4
  <2>4. Suppressed(T) = Suppressed(W)
    BY <2>1, <2>3 DEF Suppressed
  <2>5. Manual(T) = Manual(W)
    BY <2>1, <2>3 DEF Manual
  <2> QED
    BY <2>2, <2>4, <2>5
<1>6. RowsFit(T, ln)
  <2>1. IsFiniteSet(T)
    <3> DEFINE f == [d \in W |-> Mark(d)]
    <3>1. T = {f[d] : d \in W} /\ IsFiniteSet(W)
      BY <1>1 DEF RowsFit
    <3> HIDE DEF f, T, W
    <3> QED
      BY <3>1, FiniteImage
  <2>2. ASSUME NEW d \in W
        PROVE  /\ Mark(d).scope = "ITEM" => \E i \in DOMAIN ln : Mark(d).items = {i}
               /\ IF EngineOwned(Mark(d)) THEN Mark(d).promotion \in Promotions
                                          ELSE Mark(d).slot \in Slots
    BY <1>3, <1>4 DEF SameDecision
  <2>3. \A d, e \in Manual(T) : d.slot = e.slot => d = e
    BY <1>1, <1>5 DEF RowsFit
  <2> HIDE DEF W
  <2>4. \A d \in W : Mark(d) \in DiscountRow(ln)
    BY <1>4
  <2> QED
    BY <2>1, <2>2, <2>3, <2>4 DEF RowsFit
<1>7. Followed(T, ln) = Followed(W, ln)
  BY <1>5 DEF Followed
<1>8. Earned(T, ln) = Earned(W, ln)
  BY <1>5, <1>7, EarnedDependsOn
<1>9. Shows(T, ln)
  <2>1. PICK r : Earning(W) = {r[a] : a \in Earned(W, ln)} /\ \A a \in Earned(W, ln) : SaysOf(r[a], a)
    BY <1>1 DEF Shows
  <2> DEFINE q == [a \in Earned(W, ln) |-> Mark(r[a])]
  <2>2. \A a \in Earned(W, ln) : r[a] \in W
    BY <2>1 DEF Earning
  <2>3. \A a \in Earned(W, ln) : SaysOf(q[a], a)
    BY <1>4, <2>1, <2>2 DEF SaysOf
  <2>4. Earning(T) = {q[a] : a \in Earned(W, ln)}
    BY <1>5, <2>1
  <2> HIDE DEF q
  <2>5. Followed(T, ln) = Manual(T)
    BY <1>1, <1>5, <1>7 DEF Shows
  <2> QED
    BY <1>8, <2>3, <2>4, <2>5 DEF Shows
<1>10. TotalOf(T, ln) = TotalOf(W, ln)
  <2> DEFINE X == {d \in W : Live(d)}
             f == [d \in X |-> Mark(d)]
  <2>1. {d \in T : Live(d)} = {f[d] : d \in X}
    <3>1. \A d \in W : Live(Mark(d)) = Live(d)
      BY <1>4 DEF Live
    <3> QED
      BY <3>1
  <2>2. \A d, e \in X : f[d] = f[e] => d = e
    <3> SUFFICES ASSUME NEW d \in X, NEW e \in X, Mark(d) = Mark(e) PROVE d = e
      OBVIOUS
    <3>1. EngineOwned(d) = EngineOwned(e) /\ Key(d) = Key(e)
      BY <1>4
    <3>2. CASE EngineOwned(d)
      <4>1. d \in Earning(W) /\ e \in Earning(W)
        BY <3>1, <3>2 DEF Earning
      <4> QED
        BY <1>1, <3>1, <4>1, SaysOneThing
    <3>3. CASE ~EngineOwned(d)
      BY <1>4, <3>1, <3>3
    <3> QED
      BY <3>2, <3>3
  <2>3. IsFiniteSet(X) /\ \A d \in X : d.amount \in Nat
    BY <1>1, FS_Subset DEF RowsFit, DiscountRow
  <2>4. \A d \in X : f[d].amount = d.amount
    BY <1>4
  <2> HIDE DEF X, f
  <2>5. AmountsOf({f[d] : d \in X}) = AmountsOf(X)
    BY <2>2, <2>3, <2>4, AmountsImage
  <2> QED
    BY <2>1, <2>5 DEF TotalOf, X
<1>11. Keeps(W, T)
  <2>1. \A d \in W : Mark(d) \in T /\ SameDecision(d, Mark(d))
    BY <1>4
  <2>2. Decisions(W) \subseteq W
    BY DEF Decisions, Manual, Suppressed
  <2> HIDE DEF T
  <2> QED
    BY <2>1, <2>2 DEF Keeps
<1> DEFINE A == Adapted(before, s)
<1> HIDE DEF T
<1>12. A.line = ln /\ A.rows = T /\ A.total = TotalOf(T, ln)
  BY <1>2, <1>10
<1>13. A = [line |-> A.line, rows |-> A.rows, total |-> TotalOf(A.rows, A.line)]
  BY <1>2, <1>10, <1>12
<1> HIDE DEF A
<1>14. Sound(A)
  BY <1>1, <1>6, <1>9, <1>12, <1>13 DEF Sound
<1> QED
  BY <1>11, <1>12, <1>14 DEF A

-----------------------------------------------------------------------------
(* Lines *)

LEMMA RowsStillFit ==
  ASSUME NEW ln, NEW m, DOMAIN ln \subseteq DOMAIN m, NEW ds, RowsFit(ds, ln)
  PROVE  RowsFit(ds, m)
<1>1. ASSUME NEW d \in ds PROVE d \in DiscountRow(m)
  <2>1. d \in DiscountRow(ln)
    BY DEF RowsFit
  <2> QED
    BY <2>1 DEF DiscountRow
<1>2. \A d \in ds : d.scope = "ITEM" => \E i \in DOMAIN m : d.items = {i}
  BY DEF RowsFit
<1> QED
  BY <1>1, <1>2 DEF RowsFit

LEMMA PricesAre ==
  ASSUME NEW p \in Products, Price[p] # None
  PROVE  Price[p].price \in Nat /\ Price[p].floor \in Nat \cup {None}
  BY DiscountsAssumption

LEMMA ValuedLineIs ==
  ASSUME NEW l \in LineRow
  PROVE  ValuedLine(l) \in LineRow
<1> DEFINE priced == l.product # None /\ Price[l.product] # None
<1>1. priced => /\ Price[l.product].price \in Nat
                /\ Price[l.product].floor \in Nat \cup {None}
  BY PricesAre DEF LineRow
<1> QED
  BY <1>1 DEF ValuedLine, LineRow

LEMMA ValuedIs ==
  ASSUME NEW ln, LinesFit(ln)
  PROVE  LinesFit(Valued(ln)) /\ DOMAIN Valued(ln) = DOMAIN ln
<1>1. DOMAIN Valued(ln) = DOMAIN ln
  BY DEF Valued
<1>2. \A i \in DOMAIN ln : ValuedLine(ln[i]) \in LineRow
  BY LinesAre, ValuedLineIs
<1> QED
  BY <1>1, <1>2 DEF LinesFit, Valued

(* Lines that differ from typed ones by typed rows are typed. *)
LEMMA LineChanges ==
  ASSUME NEW ln, LinesFit(ln), NEW i \in DOMAIN ln, NEW l \in LineRow
  PROVE  LinesFit([ln EXCEPT ![i] = l]) /\ DOMAIN [ln EXCEPT ![i] = l] = DOMAIN ln
  BY DEF LinesFit

LEMMA PatchedIs ==
  ASSUME NEW i \in Lines, NEW l \in LineRow, NEW patch \in Patches(i)
  PROVE  Patched(l, patch) \in LineRow
<1>1. /\ patch.product \in Products \cup {None} /\ patch.price \in Nat \cup {None}
      /\ patch.quantity \in (Nat \ {0}) \cup {None}
  <2>1. /\ Asked[i].products \subseteq Products \cup {None} /\ Asked[i].quantities \subseteq Nat \ {0}
        /\ HandPrices \subseteq Nat
    BY DiscountsAssumption
  <2> QED
    BY <2>1 DEF Patches
<1> DEFINE chosen == [l EXCEPT !.product = patch.product, !.price = None, !.floor = None]
           resolved == IF patch.product = None THEN l
                       ELSE IF status = "QUOTED" /\ patch.price = None THEN ValuedLine(chosen)
                       ELSE chosen
<1>2. chosen \in LineRow
  BY <1>1 DEF LineRow
<1>3. resolved \in LineRow
  <2> HIDE DEF chosen
  <2> QED
    BY <1>2, ValuedLineIs
<1>4. Patched(l, patch) = [resolved EXCEPT !.quantity = IF patch.quantity = None THEN @ ELSE patch.quantity,
                                           !.price = IF patch.price = None THEN @ ELSE patch.price]
  BY DEF Patched
<1> HIDE DEF resolved
<1> QED
  BY <1>1, <1>3, <1>4 DEF LineRow

(* A threshold is a quantity above the line's. *)
LEMMA ThresholdIs ==
  ASSUME rule \in RuleTables, NEW p \in Promotions, NEW l \in LineRow
  PROVE  NextThreshold(rule[p], l) \in (Nat \ {0}) \cup {None}
<1> DEFINE r == rule[p]
           earning == \E t \in r.targets : Matches(t, l)
           Floor(t) == IF t.min = None THEN 0 ELSE t.min
           Above(t) ==
             {n \in {Floor(t)} : n > l.quantity}
             \cup {IF u.from < Floor(t) THEN Floor(t) ELSE u.from :
                     u \in {v \in r.tiers : v.from > l.quantity}}
           better == {n \in UNION {Above(t) : t \in {u \in r.targets : ConditionTargets(u, l)}} :
                        /\ LineFigure(r, n) # None
                        /\ ~(earning /\ LineFigure(r, n) = LineFigure(r, l.quantity))}
<1>1. /\ \A t \in r.targets : Floor(t) \in Nat
      /\ \A u \in r.tiers : u.from \in Nat
  <2>1. r \in Offers[p]
    BY RulesAre
  <2> QED
    BY <2>1, DiscountsAssumption
<1>2. l.quantity \in Nat \ {0}
  BY DEF LineRow
<1>3. \A t \in r.targets : Above(t) \subseteq Nat \ {0}
  <2> HIDE DEF Floor, r
  <2> QED
    BY <1>1, <1>2
<1>4. better \subseteq Nat \ {0}
  <2> HIDE DEF Above, r
  <2> QED
    BY <1>3
<1>5. NextThreshold(r, l) = None \/ (better # {} /\ NextThreshold(r, l) = Min(better))
  BY DEF NextThreshold
<1> HIDE DEF better
<1>6. better # {} => Min(better) \in better
  <2>1. SUFFICES ASSUME better # {} PROVE \E n \in better : \A m \in better : n =< m
    BY DEF Min
  <2> QED
    BY <1>4, <2>1, LeastNatural
<1> QED
  BY <1>4, <1>5, <1>6

LEMMA RaisedIs ==
  ASSUME NEW ln, LinesFit(ln), NEW i \in DOMAIN ln, NEW n \in Nat \ {0}
  PROVE  LinesFit(Raised(ln, i, n)) /\ DOMAIN Raised(ln, i, n) = DOMAIN ln
<1> DEFINE l == [ln[i] EXCEPT !.quantity = n]
<1>1. l \in LineRow
  BY LinesAre DEF LineRow
<1>2. Raised(ln, i, n) = [ln EXCEPT ![i] = l]
  BY DEF Raised
<1> HIDE DEF l
<1>3. LinesFit([ln EXCEPT ![i] = l]) /\ DOMAIN [ln EXCEPT ![i] = l] = DOMAIN ln
  BY <1>1, LineChanges
<1> QED
  BY <1>2, <1>3

(* The lines of a version, as they may be raised. *)
LinesLike(ln) == {m \in [DOMAIN ln -> LineRow] : LinesFit(m)}

LEMMA LinesLikeAre ==
  ASSUME NEW ln, LinesFit(ln)
  PROVE  /\ ln \in LinesLike(ln)
         /\ \A m \in LinesLike(ln) : LinesFit(m) /\ DOMAIN m = DOMAIN ln
         /\ \A m : LinesFit(m) /\ DOMAIN m = DOMAIN ln => m \in LinesLike(ln)
  BY DEF LinesLike, LinesFit

LEMMA LargestIn ==
  ASSUME NEW D, IsFiniteSet(D), D \subseteq Nat
  PROVE  \A s \in SUBSET D : s # {} => Max(s) \in s
<1>1. SUFFICES ASSUME NEW s \in SUBSET D, s # {} PROVE \E x \in s : \A y \in s : x >= y
  BY DEF Max
<1>2. IsFiniteSet(s)
  BY FS_Subset
<1> DEFINE R == {z \in s \X s : z[1] > z[2]}
<1>3. \A x, y \in s : <<x, y>> \in R <=> x > y
  OBVIOUS
<1> HIDE DEF R
<1>4. \A x, y \in s : x # y => <<x, y>> \in R \/ <<y, x>> \in R
  BY <1>3
<1>5. \A x, y, z \in s : <<x, y>> \in R /\ <<y, z>> \in R => <<x, z>> \in R
  BY <1>3
<1>6. PICK x \in s : \A y \in s \ {x} : <<x, y>> \in R
  BY <1>1, <1>2, <1>4, <1>5, FirstOfOrder
<1>7. \A y \in s : x >= y
  <2>1. \A y \in s : y \in Nat
    OBVIOUS
  <2>2. \A y \in s \ {x} : x > y
    BY <1>3, <1>6
  <2>3. ASSUME NEW y \in s PROVE x >= y
    <3>1. CASE y = x
      BY <2>1, <3>1
    <3>2. CASE y # x
      BY <2>1, <2>2, <3>2
    <3> QED
      BY <3>1, <3>2
  <2> QED
    BY <2>3
<1> QED
  BY <1>7

(* planPromotionReach raises quantities of typed lines. *)
LEMMA PlanReachIs ==
  ASSUME rule \in RuleTables, NEW ln, LinesFit(ln), NEW ds, NEW p \in Promotions,
         NEW items \in SUBSET DOMAIN ln
  PROVE  LinesFit(PlanReach(ds, ln, p, items)) /\ DOMAIN PlanReach(ds, ln, p, items) = DOMAIN ln
<1> DEFINE Tried(i, done, to) ==
             IF to # None /\ \E a \in Earned(ds, Raised(done, i, to)) : a.promotion = p /\ i \in a.items
             THEN Raised(done, i, to) ELSE done
           Reach(i, done) == Tried(i, done, NextThreshold(rule[p], done[i]))
           V == LinesLike(ln)
           ch == [s \in SUBSET items |-> Max(s)]
           step == [x \in items \X V |-> Reach(x[1], x[2])]
           Body(g) == [s \in SUBSET items |->
                         IF s = {} THEN ln ELSE Reach(Max(s), g[s \ {Max(s)}])]
           K == CHOOSE g : g = Body(g)
<1>1. IsFiniteSet(items) /\ items \subseteq Nat
  BY LinesAre, FS_Subset
<1>2. \A s \in SUBSET items : s # {} => Max(s) \in s
  BY <1>1, LargestIn
<1>3. ASSUME NEW i \in items, NEW done \in V PROVE Reach(i, done) \in V
  <2>1. LinesFit(done) /\ i \in DOMAIN done /\ DOMAIN done = DOMAIN ln
    BY LinesLikeAre
  <2> DEFINE to == NextThreshold(rule[p], done[i])
  <2>2. to \in (Nat \ {0}) \cup {None}
    BY <2>1, LinesAre, ThresholdIs
  <2>3. Reach(i, done) = done \/ (to # None /\ Reach(i, done) = Raised(done, i, to))
    OBVIOUS
  <2> HIDE DEF to, Reach, V
  <2>4. to # None => LinesFit(Raised(done, i, to)) /\ DOMAIN Raised(done, i, to) = DOMAIN ln
    BY <2>1, <2>2, RaisedIs
  <2> QED
    BY <2>3, <2>4, LinesLikeAre DEF V
<1> HIDE DEF Reach, V
<1>4. step \in [items \X V -> V]
  BY <1>3
<1>5. ln \in V
  BY LinesLikeAre DEF V
<1>6. \A s \in SUBSET items : s # {} => ch[s] \in s
  BY <1>2
<1>7. PICK k \in [SUBSET items -> V] : FoldsTo(k, items, ln, ch, step)
  <2> HIDE DEF ch, step
  <2> QED
    BY <1>1, <1>4, <1>5, <1>6, FoldExists
<1>8. ASSUME NEW s \in SUBSET items, s # {}
      PROVE  k[s] = Reach(Max(s), k[s \ {Max(s)}])
  <2>1. ch[s] = Max(s) /\ Max(s) \in items /\ s \ {Max(s)} \in SUBSET items
    BY <1>2, <1>8
  <2>2. k[s] = step[<<Max(s), k[s \ {Max(s)}]>>]
    <3> HIDE DEF ch, step
    <3> QED
      BY <1>7, <1>8, <2>1 DEF FoldsTo
  <2>3. k[s \ {Max(s)}] \in V
    BY <2>1
  <2>4. step[<<Max(s), k[s \ {Max(s)}]>>] = Reach(Max(s), k[s \ {Max(s)}])
    BY <2>1, <2>3
  <2> QED
    BY <2>2, <2>4
<1>9. k[{}] = ln
  <2> HIDE DEF ch, step
  <2> QED
    BY <1>7 DEF FoldsTo
<1>10. k = Body(k)
  BY <1>8, <1>9
<1>11. K = Body(K)
  BY <1>10
<1>12. PlanReach(ds, ln, p, items) = ln \/ PlanReach(ds, ln, p, items) = K[items]
  BY DEF PlanReach, MapThenFoldSet, Reach
<1> HIDE DEF K
<1>13. \A s \in SUBSET items : K[s] \in V
  <2> DEFINE Bad == {s \in SUBSET items : K[s] \notin V}
  <2>1. SUFFICES ASSUME Bad # {} PROVE FALSE
    OBVIOUS
  <2>2. PICK T \in Bad : \A U \in SUBSET T : U # T => U \notin Bad
    <3>1. Bad \in SUBSET (SUBSET items)
      OBVIOUS
    <3> HIDE DEF Bad
    <3> QED
      BY <1>1, <2>1, <3>1, SmallestSubset
  <2>3. T # {}
    BY <1>5, <1>11
  <2> DEFINE i == Max(T)
  <2>4. i \in T
    BY <1>2, <2>3
  <2>5. K[T] = Reach(i, K[T \ {i}])
    BY <1>11, <2>3
  <2> HIDE DEF i
  <2>6. K[T \ {i}] \in V
    <3>1. T \ {i} \in SUBSET T /\ T \ {i} # T
      BY <2>4
    <3>2. T \ {i} \notin Bad
      <4> HIDE DEF Bad
      <4> QED
        BY <2>2, <3>1
    <3> QED
      BY <3>1, <3>2
  <2> QED
    BY <1>3, <2>4, <2>5, <2>6
<1>14. PlanReach(ds, ln, p, items) \in V
  BY <1>5, <1>12, <1>13
<1> QED
  BY <1>14, LinesLikeAre DEF V

(* So does planLowerTotalAdaptation, with the trial that leaves the least. *)
LEMMA PlanLowerTotalIs ==
  ASSUME rule \in RuleTables, NEW ln, LinesFit(ln), NEW ds, NEW items \in SUBSET DOMAIN ln
  PROVE  LinesFit(PlanLowerTotal(ds, ln, items)) /\ DOMAIN PlanLowerTotal(ds, ln, items) = DOMAIN ln
<1> DEFINE usable == {p \in Promotions : /\ rule[p].inForce
                                         /\ \A d \in Suppressed(ds) : d.promotion # p}
           ReadBefore(p, q) == \/ rule[p].priority > rule[q].priority
                               \/ rule[p].priority = rule[q].priority /\ p < q
           Trial(p, trial) == [promotion |-> p, line |-> trial, total |-> Settle(ds, trial).total]
           Better(t, u) == \/ t.total < u.total
                           \/ t.total = u.total /\ ReadBefore(t.promotion, u.promotion)
           Lowest(trials, done) ==
             {t \in trials : /\ \A u \in trials \ {t} : Better(t, u)
                             /\ t.total < Settle(ds, done).total}
           Raises(i, done) ==
             {Trial(p, Raised(done, i, NextThreshold(rule[p], done[i]))) :
                p \in {q \in usable : NextThreshold(rule[q], done[i]) # None}}
           Taken2(lower, done) == IF lower = {} THEN done ELSE (CHOOSE t \in lower : TRUE).line
           Lower(i, done) == Taken2(Lowest(Raises(i, done), done), done)
           V == LinesLike(ln)
           ch == [s \in SUBSET items |-> Max(s)]
           step == [x \in items \X V |-> Lower(x[1], x[2])]
           Body(g) == [s \in SUBSET items |->
                         IF s = {} THEN ln ELSE Lower(Max(s), g[s \ {Max(s)}])]
           K == CHOOSE g : g = Body(g)
<1>1. IsFiniteSet(items) /\ items \subseteq Nat
  BY LinesAre, FS_Subset
<1>2. \A s \in SUBSET items : s # {} => Max(s) \in s
  BY <1>1, LargestIn
<1>3. ASSUME NEW i \in items, NEW done \in V PROVE Lower(i, done) \in V
  <2>1. LinesFit(done) /\ i \in DOMAIN done /\ DOMAIN done = DOMAIN ln
    BY LinesLikeAre
  <2>2. \A p \in Promotions : NextThreshold(rule[p], done[i]) \in (Nat \ {0}) \cup {None}
    BY <2>1, LinesAre, ThresholdIs
  <2>3. ASSUME NEW t \in Raises(i, done) PROVE t.line \in V
    <3>1. PICK p \in Promotions : /\ NextThreshold(rule[p], done[i]) # None
                                  /\ t.line = Raised(done, i, NextThreshold(rule[p], done[i]))
      OBVIOUS
    <3>2. NextThreshold(rule[p], done[i]) \in Nat \ {0}
      BY <2>2, <3>1
    <3> QED
      BY <2>1, <3>1, <3>2, RaisedIs, LinesLikeAre
  <2> HIDE DEF V, Raises
  <2>4. Lowest(Raises(i, done), done) \subseteq Raises(i, done)
    OBVIOUS
  <2> HIDE DEF Lowest
  <2> QED
    BY <2>3, <2>4
<1>4. PlanLowerTotal(ds, ln, items) = K[items]
  BY DEF PlanLowerTotal, MapThenFoldSet
<1> HIDE DEF Lower, V
<1>5. step \in [items \X V -> V]
  BY <1>3
<1>6. ln \in V
  BY LinesLikeAre DEF V
<1>7. \A s \in SUBSET items : s # {} => ch[s] \in s
  BY <1>2
<1>8. PICK k \in [SUBSET items -> V] : FoldsTo(k, items, ln, ch, step)
  <2> HIDE DEF ch, step
  <2> QED
    BY <1>1, <1>5, <1>6, <1>7, FoldExists
<1>9. ASSUME NEW s \in SUBSET items, s # {}
      PROVE  k[s] = Lower(Max(s), k[s \ {Max(s)}])
  <2>1. ch[s] = Max(s) /\ Max(s) \in items /\ s \ {Max(s)} \in SUBSET items
    BY <1>2, <1>9
  <2>2. k[s] = step[<<Max(s), k[s \ {Max(s)}]>>]
    <3> HIDE DEF ch, step
    <3> QED
      BY <1>8, <1>9, <2>1 DEF FoldsTo
  <2>3. k[s \ {Max(s)}] \in V
    BY <2>1
  <2>4. step[<<Max(s), k[s \ {Max(s)}]>>] = Lower(Max(s), k[s \ {Max(s)}])
    BY <2>1, <2>3
  <2> QED
    BY <2>2, <2>4
<1>10. k[{}] = ln
  <2> HIDE DEF ch, step
  <2> QED
    BY <1>8 DEF FoldsTo
<1>11. k = Body(k)
  BY <1>9, <1>10
<1>12. K = Body(K)
  BY <1>11
<1> HIDE DEF K
<1>13. \A s \in SUBSET items : K[s] \in V
  <2> DEFINE Bad == {s \in SUBSET items : K[s] \notin V}
  <2>1. SUFFICES ASSUME Bad # {} PROVE FALSE
    OBVIOUS
  <2>2. PICK T \in Bad : \A U \in SUBSET T : U # T => U \notin Bad
    <3>1. Bad \in SUBSET (SUBSET items)
      OBVIOUS
    <3> HIDE DEF Bad
    <3> QED
      BY <1>1, <2>1, <3>1, SmallestSubset
  <2>3. T # {}
    BY <1>6, <1>12
  <2> DEFINE i == Max(T)
  <2>4. i \in T
    BY <1>2, <2>3
  <2>5. K[T] = Lower(i, K[T \ {i}])
    BY <1>12, <2>3
  <2> HIDE DEF i
  <2>6. K[T \ {i}] \in V
    <3>1. T \ {i} \in SUBSET T /\ T \ {i} # T
      BY <2>4
    <3>2. T \ {i} \notin Bad
      <4> HIDE DEF Bad
      <4> QED
        BY <2>2, <3>1
    <3> QED
      BY <3>1, <3>2
  <2> QED
    BY <1>3, <2>4, <2>5, <2>6
<1>14. PlanLowerTotal(ds, ln, items) \in V
  BY <1>4, <1>13
<1> QED
  BY <1>14, LinesLikeAre DEF V

(* pickAlternative offers a product of the catalog at the branch's price. *)
LEMMA CheapestIs ==
  ASSUME NEW kind \in DOMAIN Alternatives, NEW l \in LineRow
  PROVE  Cheapest(kind, l) \in LineRow
<1> DEFINE offered == {a \in Alternatives[kind][l.product] :
                         /\ Price[a] # None
                         /\ kind = "ECONOMY" => l.price # None /\ Price[a].price < l.price}
           pick == CHOOSE a \in offered : \A b \in offered : Price[a].price <= Price[b].price
<1>1. CASE l.product = None \/ offered = {}
  BY <1>1 DEF Cheapest
<1>2. CASE l.product # None /\ offered # {}
  <2>1. l.product \in Products
    BY <1>2 DEF LineRow
  <2>2. Alternatives[kind][l.product] \subseteq Products
    BY <2>1, DiscountsAssumption
  <2>3. \A a \in offered : a \in Products /\ Price[a].price \in Nat
    BY <2>2, PricesAre
  <2> DEFINE N == {Price[a].price : a \in offered}
  <2>4. PICK n \in N : \A m \in N : n <= m
    <3>1. N \in SUBSET Nat /\ N # {}
      BY <1>2, <2>3
    <3> HIDE DEF N
    <3> QED
      BY <3>1, LeastNatural
  <2>5. \E a \in offered : \A b \in offered : Price[a].price <= Price[b].price
    <3>1. PICK a \in offered : n = Price[a].price
      OBVIOUS
    <3>2. \A b \in offered : n <= Price[b].price
      BY <2>4
    <3> QED
      BY <3>1, <3>2
  <2>6. pick \in offered
    <3> HIDE DEF offered
    <3> QED
      BY <2>5
  <2>7. Cheapest(kind, l) = ValuedLine([l EXCEPT !.product = pick])
    BY <1>2 DEF Cheapest
  <2>8. pick \in Products
    <3> HIDE DEF offered, pick
    <3> QED
      BY <2>3, <2>6
  <2> HIDE DEF pick
  <2>9. [l EXCEPT !.product = pick] \in LineRow
    BY <2>8 DEF LineRow
  <2> QED
    BY <2>7, <2>9, ValuedLineIs
<1> QED
  BY <1>1, <1>2

-----------------------------------------------------------------------------
(* Rows *)

LEMMA FewerFit ==
  ASSUME NEW ln, NEW ds, RowsFit(ds, ln), NEW es \in SUBSET ds
  PROVE  RowsFit(es, ln)
<1>1. IsFiniteSet(es)
  BY FS_Subset DEF RowsFit
<1>2. Manual(es) \subseteq Manual(ds)
  BY DEF Manual
<1> QED
  BY <1>1, <1>2 DEF RowsFit

(* A row in the place of another. *)
LEMMA ReplacedFits ==
  ASSUME NEW ln, NEW ds, RowsFit(ds, ln), NEW d \in ds, NEW e \in DiscountRow(ln),
         e.slot = d.slot, e.promotion = d.promotion, EngineOwned(e) = EngineOwned(d),
         e.scope = "ITEM" => \E i \in DOMAIN ln : e.items = {i}
  PROVE  RowsFit((ds \ {d}) \cup {e}, ln)
<1> DEFINE es == (ds \ {d}) \cup {e}
<1>1. IsFiniteSet(es)
  <2>1. IsFiniteSet(ds \ {d})
    BY FS_Subset DEF RowsFit
  <2> QED
    BY <2>1, FS_Singleton, FS_Union
<1>2. ASSUME NEW x \in es
      PROVE  /\ x \in DiscountRow(ln) /\ (x.scope = "ITEM" => \E i \in DOMAIN ln : x.items = {i})
             /\ IF EngineOwned(x) THEN x.promotion \in Promotions ELSE x.slot \in Slots
  <2>1. CASE x \in ds
    BY <2>1 DEF RowsFit
  <2>2. CASE x = e
    <3>1. IF EngineOwned(d) THEN d.promotion \in Promotions ELSE d.slot \in Slots
      BY DEF RowsFit
    <3> QED
      BY <2>2, <3>1
  <2> QED
    BY <2>1, <2>2
<1>3. ASSUME NEW x \in Manual(es), NEW y \in Manual(es), x.slot = y.slot PROVE x = y
  <2>1. \A z \in Manual(es) : z = e \/ (z \in Manual(ds) /\ z # d)
    BY DEF Manual
  <2>2. e \in Manual(es) => d \in Manual(ds)
    BY DEF Manual
  <2>3. \A a, b \in Manual(ds) : a.slot = b.slot => a = b
    BY DEF RowsFit
  <2> QED
    BY <1>3, <2>1, <2>2, <2>3
<1> HIDE DEF es
<1>4. RowsFit(es, ln)
  BY <1>1, <1>2, <1>3 DEF RowsFit
<1> QED
  BY <1>4 DEF es

(* Rows rewritten one by one, each still of its promotion or in its slot. *)
LEMMA RewrittenFit ==
  ASSUME NEW ln, NEW m, NEW ds, RowsFit(ds, ln), NEW f,
         \A d \in ds : /\ f[d] \in DiscountRow(m) /\ f[d].slot = d.slot /\ f[d].promotion = d.promotion
                       /\ EngineOwned(f[d]) = EngineOwned(d)
                       /\ f[d].scope = "ITEM" => \E i \in DOMAIN m : f[d].items = {i}
  PROVE  RowsFit({f[d] : d \in ds}, m)
<1> DEFINE es == {f[d] : d \in ds}
<1>1. IsFiniteSet(es)
  BY FiniteImage DEF RowsFit
<1>2. ASSUME NEW x \in es
      PROVE  /\ x \in DiscountRow(m) /\ (x.scope = "ITEM" => \E i \in DOMAIN m : x.items = {i})
             /\ IF EngineOwned(x) THEN x.promotion \in Promotions ELSE x.slot \in Slots
  <2>1. PICK d \in ds : x = f[d]
    OBVIOUS
  <2>2. IF EngineOwned(d) THEN d.promotion \in Promotions ELSE d.slot \in Slots
    BY DEF RowsFit
  <2> QED
    BY <2>1, <2>2
<1>3. ASSUME NEW x \in Manual(es), NEW y \in Manual(es), x.slot = y.slot PROVE x = y
  <2>1. \A z \in Manual(es) : \E d \in Manual(ds) : z = f[d] /\ z.slot = d.slot
    BY DEF Manual
  <2>2. \A a, b \in Manual(ds) : a.slot = b.slot => a = b
    BY DEF RowsFit
  <2> QED
    BY <1>3, <2>1, <2>2
<1> HIDE DEF es
<1>4. RowsFit(es, m)
  BY <1>1, <1>2, <1>3 DEF RowsFit
<1> QED
  BY <1>4 DEF es

(* deleteItemDiscountLinks leaves rows that name the lines left. *)
Without(ln, i) == [j \in DOMAIN ln \ {i} |-> ln[j]]

LEMMA UnlinkedFit ==
  ASSUME NEW ln, LinesFit(ln), NEW i \in DOMAIN ln, NEW ds, RowsFit(ds, ln)
  PROVE  /\ LinesFit(Without(ln, i)) /\ DOMAIN Without(ln, i) = DOMAIN ln \ {i}
         /\ RowsFit(Unlinked(ds, i), Without(ln, i))
<1> DEFINE m == Without(ln, i)
           kept == {e \in ds : e.scope = "TOTAL" \/ i \notin e.items \/ e.items # {i}}
           f == [d \in kept |-> [d EXCEPT !.items = @ \ {i}]]
<1>1. LinesFit(m) /\ DOMAIN m = DOMAIN ln \ {i}
  BY DEF LinesFit, Without
<1>2. RowsFit(kept, ln)
  BY FewerFit
<1>3. Unlinked(ds, i) = {f[d] : d \in kept}
  BY DEF Unlinked
<1>4. ASSUME NEW d \in kept
      PROVE  /\ f[d] \in DiscountRow(m) /\ f[d].slot = d.slot /\ f[d].promotion = d.promotion
             /\ EngineOwned(f[d]) = EngineOwned(d)
             /\ f[d].scope = "ITEM" => \E j \in DOMAIN m : f[d].items = {j}
  <2>1. d \in DiscountRow(ln) /\ (d.scope = "ITEM" => \E j \in DOMAIN ln : d.items = {j})
    BY DEF RowsFit
  <2>2. /\ f[d] = [d EXCEPT !.items = @ \ {i}]
        /\ d.scope = "TOTAL" \/ i \notin d.items \/ d.items # {i}
    OBVIOUS
  <2> HIDE DEF f, kept, m
  <2>3. /\ f[d] \in DiscountRow(m) /\ f[d].slot = d.slot /\ f[d].promotion = d.promotion
        /\ f[d].origin = d.origin /\ f[d].scope = d.scope /\ f[d].items = d.items \ {i}
    BY <1>1, <2>1, <2>2 DEF DiscountRow
  <2>4. f[d].scope = "ITEM" => \E j \in DOMAIN m : f[d].items = {j}
    <3>1. SUFFICES ASSUME d.scope = "ITEM" PROVE \E j \in DOMAIN m : f[d].items = {j}
      BY <2>3
    <3>2. PICK j \in DOMAIN ln : d.items = {j}
      BY <2>1, <3>1
    <3>3. j # i
      BY <2>2, <3>1, <3>2
    <3> QED
      BY <1>1, <2>3, <3>2, <3>3
  <2> QED
    BY <2>3, <2>4 DEF EngineOwned
<1> HIDE DEF f, kept, m
<1>5. RowsFit({f[d] : d \in kept}, m)
  BY <1>2, <1>4, RewrittenFit
<1> QED
  BY <1>1, <1>3, <1>5 DEF m

(* CopySellerDecisions copies every decision, as a row of the next version. *)
LEMMA SellerDecisionsFit ==
  ASSUME NEW ln, NEW ds, RowsFit(ds, ln)
  PROVE  RowsFit(SellerDecisions(ds), ln) /\ Keeps(ds, SellerDecisions(ds))
<1> DEFINE f == [d \in Decisions(ds) |->
                   [d EXCEPT !.origin = IF @ = "AI_ADAPTATION" THEN "AUTOMATIC" ELSE @]]
<1>1. Decisions(ds) \in SUBSET ds
  BY DEF Decisions, Manual, Suppressed
<1>2. RowsFit(Decisions(ds), ln)
  BY <1>1, FewerFit
<1>3. SellerDecisions(ds) = {f[d] : d \in Decisions(ds)}
  BY DEF SellerDecisions
<1>4. ASSUME NEW d \in Decisions(ds)
      PROVE  /\ f[d] \in DiscountRow(ln) /\ f[d].slot = d.slot /\ f[d].promotion = d.promotion
             /\ EngineOwned(f[d]) = EngineOwned(d) /\ SameDecision(d, f[d])
             /\ f[d].scope = "ITEM" => \E i \in DOMAIN ln : f[d].items = {i}
  <2>1. d \in DiscountRow(ln) /\ (d.scope = "ITEM" => \E j \in DOMAIN ln : d.items = {j})
    BY <1>2 DEF RowsFit
  <2>2. f[d] = [d EXCEPT !.origin = IF @ = "AI_ADAPTATION" THEN "AUTOMATIC" ELSE @]
    OBVIOUS
  <2> HIDE DEF f
  <2>3. /\ f[d] \in DiscountRow(ln) /\ f[d].slot = d.slot /\ f[d].promotion = d.promotion
        /\ f[d].origin = (IF d.origin = "AI_ADAPTATION" THEN "AUTOMATIC" ELSE d.origin)
        /\ f[d].scope = d.scope /\ f[d].items = d.items /\ f[d].action = d.action
        /\ f[d].value = d.value /\ f[d].suppressed = d.suppressed
    BY <2>1, <2>2 DEF DiscountRow
  <2>4. EngineOwned(f[d]) = EngineOwned(d)
    BY <2>3 DEF EngineOwned
  <2> QED
    BY <2>1, <2>3, <2>4 DEF SameDecision
<1> HIDE DEF f
<1>5. RowsFit({f[d] : d \in Decisions(ds)}, ln)
  BY <1>2, <1>4, RewrittenFit
<1>6. \A d \in Decisions(ds) : f[d] \in SellerDecisions(ds) /\ SameDecision(d, f[d])
  BY <1>3, <1>4
<1>7. Keeps(ds, SellerDecisions(ds))
  BY <1>6 DEF Keeps
<1> QED
  BY <1>3, <1>5, <1>7

(* restorePromotions touches only what was taken off of the promotion. *)
LEMMA RestoredFit ==
  ASSUME NEW ln, NEW ds, RowsFit(ds, ln), NEW p
  PROVE  /\ RowsFit(Restored(ds, p), ln)
         /\ \A d \in ds : ~(EngineOwned(d) /\ d.promotion = p) => d \in Restored(ds, p)
<1> DEFINE f == [d \in ds |-> IF EngineOwned(d) /\ d.promotion = p THEN [d EXCEPT !.suppressed = FALSE] ELSE d]
<1>1. Restored(ds, p) = {f[d] : d \in ds}
  BY DEF Restored
<1>2. ASSUME NEW d \in ds
      PROVE  /\ f[d] \in DiscountRow(ln) /\ f[d].slot = d.slot /\ f[d].promotion = d.promotion
             /\ EngineOwned(f[d]) = EngineOwned(d)
             /\ f[d].scope = "ITEM" => \E i \in DOMAIN ln : f[d].items = {i}
  <2>1. d \in DiscountRow(ln) /\ (d.scope = "ITEM" => \E j \in DOMAIN ln : d.items = {j})
    BY DEF RowsFit
  <2>2. f[d] = d \/ f[d] = [d EXCEPT !.suppressed = FALSE]
    OBVIOUS
  <2> HIDE DEF f
  <2>3. /\ f[d] \in DiscountRow(ln) /\ f[d].slot = d.slot /\ f[d].promotion = d.promotion
        /\ f[d].origin = d.origin /\ f[d].scope = d.scope /\ f[d].items = d.items
    BY <2>1, <2>2 DEF DiscountRow
  <2> QED
    BY <2>1, <2>3 DEF EngineOwned
<1>3. \A d \in ds : ~(EngineOwned(d) /\ d.promotion = p) => f[d] = d
  OBVIOUS
<1> HIDE DEF f
<1>4. RowsFit({f[d] : d \in ds}, ln)
  BY <1>2, RewrittenFit
<1> QED
  BY <1>1, <1>3, <1>4

LEMMA MarkedIs ==
  ASSUME NEW ln, NEW ds, RowsFit(ds, ln), NEW d \in ds, NEW flag \in BOOLEAN
  PROVE  RowsFit((ds \ {d}) \cup {Marked(d, flag)}, ln)
<1> DEFINE e == Marked(d, flag)
<1>1. d \in DiscountRow(ln) /\ (d.scope = "ITEM" => \E i \in DOMAIN ln : d.items = {i})
  BY DEF RowsFit
<1>2. \E v, a \in Nat : e = [d EXCEPT !.suppressed = flag, !.amount = a, !.value = v]
  <2>1. /\ (IF flag THEN 0 ELSE d.amount) \in Nat
        /\ (IF flag /\ EngineOwned(d) THEN 0 ELSE d.value) \in Nat
    BY <1>1 DEF DiscountRow
  <2>2. e = [d EXCEPT !.suppressed = flag, !.amount = IF flag THEN 0 ELSE d.amount,
                      !.value = IF flag /\ EngineOwned(d) THEN 0 ELSE d.value]
    BY <1>1 DEF Marked, DiscountRow
  <2> HIDE DEF e
  <2> QED
    BY <2>1, <2>2
<1> HIDE DEF e
<1>3. /\ e \in DiscountRow(ln) /\ e.slot = d.slot /\ e.promotion = d.promotion
      /\ e.origin = d.origin /\ e.scope = d.scope /\ e.items = d.items
  BY <1>1, <1>2 DEF DiscountRow
<1>4. EngineOwned(e) = EngineOwned(d)
  BY <1>3 DEF EngineOwned
<1>5. RowsFit((ds \ {d}) \cup {e}, ln)
  BY <1>1, <1>3, <1>4, ReplacedFits
<1> QED
  BY <1>5 DEF e

-----------------------------------------------------------------------------
(* Steps *)

(* A step wrote what some sweep left. *)
Wrote ==
  \E s : /\ Sound(s) /\ rule' = rule
         /\ line' = s.line /\ discount' = s.rows /\ total' = s.total

Statuses == {"DRAFT", "QUOTED", "SENT", "CHANGE_REQUESTED"}

(* What SellerDecisionsStand says of a step. *)
Stand == \A d \in Decisions(discount) : StandsIn(d, discount', line') \/ AskedFor(d)

(* What every step does. *)
StepIs ==
  /\ Wrote \/ (rule' \in RuleTables /\ UNCHANGED <<line, discount, total>>)
  /\ status' \in Statuses
  /\ <<line, status>>' # <<line, status>> => Stand \/ DiscardAIChanges \/ FoldVersion

LEMMA SettleSteps ==
  ASSUME rule \in RuleTables, NEW ln, LinesFit(ln), NEW ds, RowsFit(ds, ln),
         Writes(Settle(ds, ln)), rule' = rule
  PROVE  Wrote /\ line' = ln /\ Keeps(ds, discount')
<1> DEFINE s == Settle(ds, ln)
<1>1. Sound(s) /\ s.line = ln /\ Keeps(ds, s.rows)
  BY SettleIsSound, SettleKeeps
<1>2. line' = s.line /\ discount' = s.rows /\ total' = s.total
  BY DEF Writes
<1> HIDE DEF s
<1> QED
  BY <1>1, <1>2 DEF Wrote

LEMMA StandsWhereItWas ==
  ASSUME NEW ln, NEW ds, RowsFit(ds, ln), NEW d \in Decisions(ds), NEW e \in discount',
         SameDecision(d, e), DOMAIN ln \subseteq DOMAIN line'
  PROVE  StandsIn(d, discount', line')
<1>1. d \in DiscountRow(ln)
  BY DEF RowsFit, Decisions, Manual, Suppressed
<1>2. d.items \cap DOMAIN line' = d.items
  BY <1>1 DEF DiscountRow
<1> QED
  BY <1>2 DEF StandsIn, SameDecision

LEMMA KeptStand ==
  ASSUME TypeOK, Keeps(discount, discount'), DOMAIN line \subseteq DOMAIN line'
  PROVE  Stand
<1>1. ASSUME NEW d \in Decisions(discount) PROVE StandsIn(d, discount', line')
  <2>1. PICK e \in discount' : SameDecision(d, e)
    BY DEF Keeps
  <2> QED
    BY <2>1, StandsWhereItWas DEF TypeOK
<1> QED
  BY <1>1 DEF Stand

LEMMA ItemsAre ==
  ASSUME NEW i \in Lines, NEW p \in Asked[i].products, NEW n \in Asked[i].quantities
  PROVE  [product |-> p, quantity |-> n, price |-> None, floor |-> None] \in LineRow
  BY DiscountsAssumption DEF LineRow

LEMMA AddItemStep ==
  ASSUME TypeOK, NEW i \in Lines, NEW p \in Asked[i].products, NEW n \in Asked[i].quantities,
         AddItem(i, p, n)
  PROVE  StepIs
<1> DEFINE new == [product |-> p, quantity |-> n, price |-> None, floor |-> None]
           ln == [j \in DOMAIN line \cup {i} |-> IF j = i THEN new ELSE line[j]]
<1>1. Writes(Settle(discount, ln)) /\ rule' = rule /\ status' = status
  BY DEF AddItem
<1>2. new \in LineRow
  BY ItemsAre
<1> HIDE DEF new
<1>3. LinesFit(ln) /\ DOMAIN ln = DOMAIN line \cup {i}
  BY <1>2 DEF TypeOK, LinesFit
<1> HIDE DEF ln
<1>4. RowsFit(discount, ln)
  BY <1>3, RowsStillFit DEF TypeOK
<1>5. Wrote /\ line' = ln /\ Keeps(discount, discount')
  BY <1>1, <1>3, <1>4, SettleSteps DEF TypeOK
<1>6. Stand
  BY <1>3, <1>5, KeptStand
<1> QED
  BY <1>1, <1>5, <1>6 DEF StepIs, TypeOK, Statuses

(* An edit that leaves the lines their ids. *)
LEMMA LinesStep ==
  ASSUME TypeOK, NEW ln, LinesFit(ln), DOMAIN ln = DOMAIN line,
         Writes(Settle(discount, ln)), rule' = rule, status' \in Statuses
  PROVE  StepIs
<1>1. RowsFit(discount, ln)
  BY RowsStillFit DEF TypeOK
<1>2. Wrote /\ line' = ln /\ Keeps(discount, discount')
  BY <1>1, SettleSteps DEF TypeOK
<1>3. Stand
  BY <1>2, KeptStand
<1> QED
  BY <1>2, <1>3 DEF StepIs

LEMMA UpdateItemStep ==
  ASSUME TypeOK, NEW i \in DOMAIN line, NEW patch \in Patches(i), UpdateItem(i, patch)
  PROVE  StepIs
<1>1. i \in Lines /\ line[i] \in LineRow
  BY LinesAre DEF TypeOK, LinesFit
<1> DEFINE l == Patched(line[i], patch)
           ln == [line EXCEPT ![i] = l]
<1>2. l \in LineRow
  BY <1>1, PatchedIs
<1>3. Writes(Settle(discount, ln)) /\ rule' = rule /\ status' = status
  BY DEF UpdateItem
<1> HIDE DEF l
<1>4. LinesFit(ln) /\ DOMAIN ln = DOMAIN line
  BY <1>2, LineChanges DEF TypeOK
<1> HIDE DEF ln
<1> QED
  BY <1>3, <1>4, LinesStep DEF TypeOK, Statuses

LEMMA ReplaceItemStep ==
  ASSUME TypeOK, NEW i \in DOMAIN line, NEW p \in Asked[i].products, NEW n \in Asked[i].quantities,
         ReplaceItem(i, p, n)
  PROVE  StepIs
<1> DEFINE new == [product |-> p, quantity |-> n, price |-> None, floor |-> None]
           ln == [line EXCEPT ![i] = new]
<1>1. Writes(Settle(discount, ln)) /\ rule' = rule /\ status' = status
  BY DEF ReplaceItem
<1>2. i \in Lines
  BY DEF TypeOK, LinesFit
<1>3. new \in LineRow
  BY <1>2, ItemsAre
<1> HIDE DEF new
<1>4. LinesFit(ln) /\ DOMAIN ln = DOMAIN line
  BY <1>3, LineChanges DEF TypeOK
<1> HIDE DEF ln
<1> QED
  BY <1>1, <1>4, LinesStep DEF TypeOK, Statuses

LEMMA AcceptMaterialsStep ==
  ASSUME TypeOK, AcceptMaterials
  PROVE  StepIs
<1>1. Writes(Settle(discount, Valued(line))) /\ rule' = rule /\ status' = "QUOTED"
  BY DEF AcceptMaterials
<1>2. LinesFit(Valued(line)) /\ DOMAIN Valued(line) = DOMAIN line
  BY ValuedIs DEF TypeOK
<1> DEFINE ln == Valued(line)
<1> HIDE DEF ln
<1>3. Writes(Settle(discount, ln)) /\ LinesFit(ln) /\ DOMAIN ln = DOMAIN line
  BY <1>1, <1>2 DEF ln
<1> QED
  BY <1>1, <1>3, LinesStep DEF Statuses

LEMMA DeleteItemStep ==
  ASSUME TypeOK, NEW i \in DOMAIN line, DeleteItem(i)
  PROVE  StepIs
<1>1. Writes(Settle(Unlinked(discount, i), Without(line, i))) /\ rule' = rule /\ status' = status
  BY DEF DeleteItem, Without
<1> DEFINE ln == Without(line, i)
           ds == Unlinked(discount, i)
<1>2. LinesFit(ln) /\ DOMAIN ln = DOMAIN line \ {i} /\ RowsFit(ds, ln)
  BY UnlinkedFit DEF TypeOK
<1> HIDE DEF ln, ds
<1>3. Wrote /\ line' = ln /\ Keeps(ds, discount')
  BY <1>1, <1>2, SettleSteps DEF TypeOK, ln, ds
<1>4. ASSUME NEW d \in Decisions(discount) PROVE StandsIn(d, discount', line')
  <2>1. d \in discount /\ d \in DiscountRow(line)
    BY DEF Decisions, Manual, Suppressed, TypeOK, RowsFit
  <2>2. d.items \subseteq DOMAIN line
    BY <2>1 DEF DiscountRow
  <2>3. d.items \cap DOMAIN line' = d.items \ {i}
    BY <1>2, <1>3, <2>2
  <2>4. CASE d.scope # "TOTAL" /\ d.items = {i}
    BY <2>3, <2>4 DEF StandsIn
  <2>5. CASE d.scope = "TOTAL" \/ i \notin d.items \/ d.items # {i}
    <3> DEFINE e == [d EXCEPT !.items = @ \ {i}]
    <3>1. e \in ds
      BY <2>1, <2>5 DEF ds, Unlinked
    <3>2. /\ e.suppressed = d.suppressed /\ e.origin = d.origin /\ e.items = d.items \ {i}
          /\ e.promotion = d.promotion /\ e.slot = d.slot /\ e.scope = d.scope
          /\ e.action = d.action /\ e.value = d.value
      BY <2>1 DEF DiscountRow
    <3> HIDE DEF e
    <3>3. EngineOwned(e) = EngineOwned(d) /\ Live(e) = Live(d)
      BY <3>2 DEF EngineOwned, Live
    <3>4. e \in Decisions(ds)
      BY <3>1, <3>3 DEF Decisions, Manual, Suppressed
    <3>5. PICK f \in discount' : SameDecision(e, f)
      BY <1>3, <3>4 DEF Keeps
    <3>6. /\ f.suppressed = d.suppressed /\ EngineOwned(f) = EngineOwned(d)
          /\ f.items = d.items \cap DOMAIN line'
          /\ <<f.promotion, f.slot, f.scope, f.action, f.value>>
               = <<d.promotion, d.slot, d.scope, d.action, d.value>>
      BY <2>3, <3>2, <3>3, <3>5 DEF SameDecision
    <3> QED
      BY <3>6 DEF StandsIn
  <2> QED
    BY <2>4, <2>5
<1> QED
  BY <1>1, <1>3, <1>4 DEF StepIs, Stand, TypeOK, Statuses

(* A copy carries every decision of the version it was taken from. *)
LEMMA CopySteps ==
  ASSUME TypeOK, LinesFit(sent.line), RowsFit(sent.rows, sent.line), WritesCopy, rule' = rule
  PROVE  /\ Wrote /\ Keeps(sent.rows, discount') /\ DOMAIN line' = DOMAIN sent.line
         /\ \A d \in Decisions(sent.rows) : StandsIn(d, discount', line')
<1> DEFINE ln == Valued(sent.line)
           ds == SellerDecisions(sent.rows)
<1>1. Writes(Settle(ds, ln))
  BY DEF WritesCopy
<1>2. LinesFit(ln) /\ DOMAIN ln = DOMAIN sent.line
  BY ValuedIs
<1>3. RowsFit(ds, sent.line) /\ Keeps(sent.rows, ds)
  BY SellerDecisionsFit
<1> HIDE DEF ln, ds
<1>4. RowsFit(ds, ln)
  BY <1>2, <1>3, RowsStillFit
<1>5. Wrote /\ line' = ln /\ Keeps(ds, discount')
  BY <1>1, <1>2, <1>4, SettleSteps DEF TypeOK
<1>6. Keeps(sent.rows, discount')
  BY <1>3, <1>5, KeepsOn
<1>7. ASSUME NEW d \in Decisions(sent.rows) PROVE StandsIn(d, discount', line')
  <2>1. PICK e \in discount' : SameDecision(d, e)
    BY <1>6 DEF Keeps
  <2> QED
    BY <1>2, <1>5, <2>1, StandsWhereItWas
<1> QED
  BY <1>2, <1>5, <1>6, <1>7

LEMMA DecisionsOfDecisions ==
  ASSUME NEW ds
  PROVE  Decisions(Decisions(ds)) = Decisions(ds)
  BY DEF Decisions, Manual, Suppressed

LEMMA ReopenStep ==
  ASSUME TypeOK, FrozenIsSent, Reopen
  PROVE  StepIs
<1>1. WritesCopy /\ rule' = rule /\ status' = "CHANGE_REQUESTED" /\ frozen
  BY DEF Reopen
<1>2. sent.line = line /\ sent.rows = Decisions(discount)
  BY <1>1 DEF FrozenIsSent
<1>3. LinesFit(sent.line) /\ RowsFit(sent.rows, sent.line)
  <2>1. Decisions(discount) \in SUBSET discount
    BY DEF Decisions, Manual, Suppressed
  <2> QED
    BY <1>2, <2>1, FewerFit DEF TypeOK
<1>4. Wrote /\ \A d \in Decisions(sent.rows) : StandsIn(d, discount', line')
  BY <1>1, <1>3, CopySteps
<1>5. Stand
  BY <1>2, <1>4, DecisionsOfDecisions DEF Stand
<1> QED
  BY <1>1, <1>4, <1>5 DEF StepIs, Statuses

(* A discard gives back what the version frozen last had decided. *)
LEMMA DiscardStep ==
  ASSUME TypeOK, DiscardAIChanges
  PROVE  StepIs /\ \A d \in Decisions(sent.rows) : StandsIn(d, discount', line')
<1>1. WritesCopy /\ rule' = rule /\ status' = status /\ sent # None
  BY DEF DiscardAIChanges
<1>2. LinesFit(sent.line) /\ RowsFit(sent.rows, sent.line)
  BY <1>1 DEF TypeOK
<1>3. Wrote /\ \A d \in Decisions(sent.rows) : StandsIn(d, discount', line')
  BY <1>1, <1>2, CopySteps
<1> QED
  BY <1>1, <1>3 DEF StepIs, TypeOK, Statuses

LEMMA FoldVersionStep ==
  ASSUME TypeOK, FoldVersion
  PROVE  StepIs
<1>1. PICK ids \in SUBSET Lines \ {{}} : \E ln \in ReadLines(ids) : line' = ln
  BY DEF FoldVersion
<1>2. /\ line' \in ReadLines(ids) /\ discount' = {} /\ total' = 0
      /\ rule' = rule /\ status' = status
  BY <1>1 DEF FoldVersion
<1> DEFINE ln == line'
<1>3. DOMAIN ln = ids /\ ln = [i \in ids |-> ln[i]] /\ \A i \in ids : ln[i] \in ReadLine(i)
  BY <1>2 DEF ReadLines
<1>4. ASSUME NEW i \in ids PROVE ln[i] \in LineRow /\ ln[i].price = None
  <2>1. /\ i \in Lines /\ Asked[i].products \subseteq Products \cup {None}
        /\ Asked[i].quantities \subseteq Nat \ {0}
    BY <1>1, DiscountsAssumption
  <2>2. ln[i] \in ReadLine(i)
    BY <1>3
  <2> QED
    BY <2>1, <2>2 DEF ReadLine, LineRow
<1> HIDE DEF ln
<1>5. LinesFit(ln) /\ \A i \in DOMAIN ln : ln[i].price = None
  BY <1>1, <1>3, <1>4 DEF LinesFit
<1>6. Sound([line |-> ln, rows |-> {}, total |-> 0])
  BY <1>5, UnpricedIsSound DEF TypeOK
<1>7. Wrote
  BY <1>2, <1>6 DEF Wrote, ln
<1> QED
  BY <1>2, <1>7 DEF StepIs, TypeOK, Statuses

(* The seller's discounts: the lines and the status stay. *)
LEMMA RowsStep ==
  ASSUME TypeOK, NEW ds, RowsFit(ds, line), Writes(Settle(ds, line)), UNCHANGED <<rule, status>>
  PROVE  StepIs
<1>1. Wrote /\ line' = line
  BY SettleSteps DEF TypeOK
<1> QED
  BY <1>1 DEF StepIs, TypeOK, Statuses

LEMMA CoveredAre ==
  ASSUME NEW t \in Typed, NEW items \in Covers(t.scope)
  PROVE  /\ items \in SUBSET DOMAIN line
         /\ t.scope = "ITEM" => \E i \in DOMAIN line : items = {i}
         /\ t.scope \in {"ITEM", "ITEM_SET", "TOTAL"} /\ t.action \in {"PERCENTAGE", "FIXED_AMOUNT"}
         /\ t.value \in Nat
<1>1. /\ t.scope \in {"ITEM", "ITEM_SET", "TOTAL"} /\ t.action \in {"PERCENTAGE", "FIXED_AMOUNT"}
      /\ t.value \in Nat
  BY DiscountsAssumption
<1>2. CASE t.scope = "TOTAL"
  BY <1>1, <1>2 DEF Covers
<1>3. CASE t.scope = "ITEM"
  BY <1>1, <1>3 DEF Covers
<1>4. CASE t.scope = "ITEM_SET"
  BY <1>1, <1>4 DEF Covers
<1> QED
  BY <1>1, <1>2, <1>3, <1>4

LEMMA TypedAmountIs ==
  ASSUME TypeOK, NEW t \in Typed, NEW items \in Covers(t.scope)
  PROVE  BaseAmount(t.action, t.value, ScopeBase(line, t.scope, items)) \in Nat
<1>1. items \in SUBSET DOMAIN line /\ t.value \in Nat
  BY CoveredAre
<1>2. \A s \in SUBSET DOMAIN line : SumLines(line, s) \in Nat
  BY LinesAre, SumsAre DEF TypeOK
<1>3. ScopeBase(line, t.scope, items) \in Nat
  BY <1>1, <1>2 DEF ScopeBase
<1> DEFINE base == ScopeBase(line, t.scope, items)
<1> HIDE DEF base
<1>4. BaseAmount(t.action, t.value, base) \in Nat
  BY <1>1, <1>3, BaseAmountIs DEF base
<1> QED
  BY <1>4 DEF base

LEMMA AddDiscountStep ==
  ASSUME TypeOK, NEW s \in Slots, NEW t \in Typed, NEW items \in Covers(t.scope),
         AddDiscount(s, t, items)
  PROVE  StepIs
<1> DEFINE amount == BaseAmount(t.action, t.value, ScopeBase(line, t.scope, items))
           new == [origin |-> "MANUAL_SELLER", promotion |-> None, slot |-> s, scope |-> t.scope,
                   action |-> t.action, value |-> t.value, items |-> items, suppressed |-> FALSE,
                   amount |-> amount]
           ds == discount \cup {new}
<1>1. Writes(Settle(ds, line)) /\ rule' = rule /\ status' = status /\ \A d \in discount : d.slot # s
  BY DEF AddDiscount
<1>2. amount \in Nat
  BY TypedAmountIs
<1> HIDE DEF amount
<1>3. /\ new \in DiscountRow(line) /\ new.slot = s /\ ~EngineOwned(new)
      /\ new.scope = "ITEM" => \E i \in DOMAIN line : new.items = {i}
  BY <1>2, CoveredAre DEF DiscountRow, EngineOwned
<1> HIDE DEF new
<1>4. RowsFit(ds, line)
  <2>1. IsFiniteSet(ds)
    BY FS_Singleton, FS_Union DEF TypeOK, RowsFit
  <2>2. ASSUME NEW d \in ds
        PROVE  /\ d \in DiscountRow(line)
               /\ d.scope = "ITEM" => \E i \in DOMAIN line : d.items = {i}
               /\ IF EngineOwned(d) THEN d.promotion \in Promotions ELSE d.slot \in Slots
    BY <1>3 DEF TypeOK, RowsFit
  <2>3. ASSUME NEW d \in Manual(ds), NEW e \in Manual(ds), d.slot = e.slot PROVE d = e
    <3>1. \A z \in Manual(ds) : z = new \/ (z \in Manual(discount) /\ z.slot # s)
      BY <1>1 DEF Manual
    <3>2. \A x, y \in Manual(discount) : x.slot = y.slot => x = y
      BY DEF TypeOK, RowsFit
    <3> QED
      BY <1>3, <2>3, <3>1, <3>2
  <2> HIDE DEF ds
  <2> QED
    BY <2>1, <2>2, <2>3 DEF RowsFit
<1> HIDE DEF ds
<1> QED
  BY <1>1, <1>4, RowsStep

LEMMA EditDiscountStep ==
  ASSUME TypeOK, NEW d \in discount, NEW t \in Typed, NEW items \in Covers(t.scope),
         EditDiscount(d, t, items)
  PROVE  StepIs
<1> DEFINE amount == IF Live(d) THEN BaseAmount(t.action, t.value, ScopeBase(line, t.scope, items))
                                ELSE 0
           edited == [d EXCEPT !.scope = t.scope, !.action = t.action, !.value = t.value,
                               !.items = IF t.scope = "TOTAL" THEN @ ELSE items, !.amount = amount]
           ds == (discount \ {d}) \cup {edited}
<1>1. Writes(Settle(ds, line)) /\ rule' = rule /\ status' = status
  BY DEF EditDiscount
<1>2. amount \in Nat
  BY TypedAmountIs
<1>3. d \in DiscountRow(line)
  BY DEF TypeOK, RowsFit
<1> HIDE DEF amount
<1>4. /\ edited \in DiscountRow(line) /\ edited.slot = d.slot /\ edited.promotion = d.promotion
      /\ edited.origin = d.origin
      /\ edited.scope = "ITEM" => \E i \in DOMAIN line : edited.items = {i}
  BY <1>2, <1>3, CoveredAre DEF DiscountRow
<1>5. EngineOwned(edited) = EngineOwned(d)
  BY <1>4 DEF EngineOwned
<1> HIDE DEF edited
<1>6. RowsFit(ds, line)
  BY <1>4, <1>5, ReplacedFits DEF TypeOK
<1> HIDE DEF ds
<1> QED
  BY <1>1, <1>6, RowsStep

LEMMA SetSuppressedStep ==
  ASSUME TypeOK, NEW d \in discount, NEW flag \in BOOLEAN, SetSuppressed(d, flag)
  PROVE  StepIs
<1> DEFINE ds == (discount \ {d}) \cup {Marked(d, flag)}
<1>1. Writes(Settle(ds, line)) /\ rule' = rule /\ status' = status
  BY DEF SetSuppressed
<1>2. RowsFit(ds, line)
  BY MarkedIs DEF TypeOK
<1> HIDE DEF ds
<1> QED
  BY <1>1, <1>2, RowsStep

LEMMA DeleteDiscountStep ==
  ASSUME TypeOK, NEW d \in discount, DeleteDiscount(d)
  PROVE  StepIs
<1> DEFINE ds == discount \ {d}
<1>1. Writes(Settle(ds, line)) /\ rule' = rule /\ status' = status
  BY DEF DeleteDiscount
<1>2. RowsFit(ds, line)
  <2>1. ds \in SUBSET discount
    OBVIOUS
  <2> HIDE DEF ds
  <2> QED
    BY <2>1, FewerFit DEF TypeOK
<1> HIDE DEF ds
<1> QED
  BY <1>1, <1>2, RowsStep

-----------------------------------------------------------------------------
(* Steps of the batch handler *)

LEMMA AddsPromotionStep ==
  ASSUME TypeOK, NEW p \in Promotions, NEW asked \in SUBSET DOMAIN line, NEW n,
         asked = {} \/ n \in Nat \ {0}, AddsPromotion(p, asked, n)
  PROVE  StepIs
<1> DEFINE wanted == [i \in DOMAIN line |->
                        IF i \in asked THEN [line[i] EXCEPT !.quantity = n] ELSE line[i]]
           swept == Settle(discount, wanted)
           stands == IF PromotionLive(p, swept.rows) THEN swept
                     ELSE Settle(Restored(swept.rows, p), wanted)
           raised == PlanReach(stands.rows, wanted, p, DOMAIN line \ asked)
           reached == Adapted(stands, Settle(stands.rows, raised))
<1>1. /\ status = "CHANGE_REQUESTED" /\ rule' = rule /\ status' = status
      /\ \/ PromotionLive(p, stands.rows) /\ Writes(stands)
         \/ PromotionLive(p, reached.rows) /\ Writes(reached)
  BY DEF AddsPromotion
<1>2. LinesFit(wanted) /\ DOMAIN wanted = DOMAIN line
  <2>1. DOMAIN wanted = DOMAIN line /\ DOMAIN line \subseteq Lines
    BY DEF TypeOK, LinesFit
  <2>2. ASSUME NEW i \in DOMAIN line PROVE wanted[i] \in LineRow
    <3>1. line[i] \in LineRow
      BY LinesAre DEF TypeOK
    <3>2. CASE i \in asked
      <4>1. wanted[i] = [line[i] EXCEPT !.quantity = n] /\ n \in Nat \ {0}
        BY <3>2
      <4> HIDE DEF wanted
      <4> QED
        BY <3>1, <4>1 DEF LineRow
    <3>3. CASE i \notin asked
      BY <3>1, <3>3
    <3> QED
      BY <3>2, <3>3
  <2>3. wanted \in [DOMAIN line -> LineRow]
    <3>1. wanted = [i \in DOMAIN line |-> wanted[i]]
      OBVIOUS
    <3> HIDE DEF wanted
    <3> QED
      BY <2>2, <3>1
  <2> HIDE DEF wanted
  <2> QED
    BY <2>1, <2>3 DEF LinesFit
<1> HIDE DEF wanted
<1>3. RowsFit(discount, wanted) /\ rule \in RuleTables
  BY <1>2, RowsStillFit DEF TypeOK
<1>4. Sound(swept) /\ swept.line = wanted /\ Keeps(discount, swept.rows) /\ RowsFit(swept.rows, wanted)
  BY <1>2, <1>3, SettleIsSound, SettleKeeps, SettledFits
<1> HIDE DEF swept
(* What is neither deleted nor taken off of p stands. *)
<1> DEFINE Others(W) == \A d \in Decisions(discount) :
                          (EngineOwned(d) /\ d.promotion = p) \/ \E e \in W : SameDecision(d, e)
<1>5. Sound(stands) /\ stands.line = wanted /\ Others(stands.rows)
  <2>1. CASE PromotionLive(p, swept.rows)
    BY <1>4, <2>1 DEF Keeps
  <2>2. CASE ~PromotionLive(p, swept.rows)
    <3> DEFINE back == Restored(swept.rows, p)
               s == Settle(back, wanted)
    <3>1. /\ RowsFit(back, wanted)
          /\ \A d \in swept.rows : ~(EngineOwned(d) /\ d.promotion = p) => d \in back
      BY <1>4, RestoredFit
    <3>2. stands = s
      BY <2>2
    <3> HIDE DEF back, stands
    <3>3. Sound(s) /\ s.line = wanted /\ Keeps(back, s.rows)
      BY <1>2, <1>3, <3>1, SettleIsSound, SettleKeeps
    <3> HIDE DEF s
    <3>4. ASSUME NEW d \in Decisions(discount), ~(EngineOwned(d) /\ d.promotion = p)
          PROVE  \E e \in s.rows : SameDecision(d, e)
      <4>1. PICK e \in swept.rows : SameDecision(d, e)
        BY <1>4 DEF Keeps
      <4>2. e \in back
        BY <3>1, <3>4, <4>1 DEF SameDecision
      <4>3. e \in Decisions(back)
        BY <4>1, <4>2 DEF Decisions, Manual, Suppressed, SameDecision, Live
      <4>4. PICK f \in s.rows : SameDecision(e, f)
        BY <3>3, <4>3 DEF Keeps
      <4>5. SameDecision(d, f)
        BY <4>1, <4>4 DEF SameDecision
      <4> QED
        BY <4>5
    <3> QED
      BY <3>2, <3>3, <3>4
  <2> QED
    BY <2>1, <2>2
<1> HIDE DEF stands
<1>6. RowsFit(stands.rows, wanted)
  BY <1>5 DEF Sound
<1>7. LinesFit(raised) /\ DOMAIN raised = DOMAIN line
  <2> DEFINE items == DOMAIN line \ asked
  <2>1. items \in SUBSET DOMAIN wanted
    BY <1>2
  <2> HIDE DEF items
  <2>2. /\ LinesFit(PlanReach(stands.rows, wanted, p, items))
        /\ DOMAIN PlanReach(stands.rows, wanted, p, items) = DOMAIN wanted
    BY <1>2, <1>3, <2>1, PlanReachIs
  <2> QED
    BY <1>2, <2>2 DEF items
<1> HIDE DEF raised
<1>8. Sound(reached) /\ reached.line = raised /\ Keeps(stands.rows, reached.rows)
  <2> DEFINE s == Settle(stands.rows, raised)
  <2>1. RowsFit(stands.rows, raised)
    BY <1>2, <1>6, <1>7, RowsStillFit
  <2>2. Sound(s) /\ s.line = raised /\ Keeps(stands.rows, s.rows)
    BY <1>3, <1>7, <2>1, SettleIsSound, SettleKeeps
  <2>3. reached = Adapted(stands, s)
    OBVIOUS
  <2> HIDE DEF s, reached
  <2>4. Sound(reached) /\ reached.line = s.line /\ Keeps(s.rows, reached.rows)
    BY <1>3, <2>2, <2>3, AdaptedIsSound
  <2> QED
    BY <2>2, <2>4, KeepsOn
<1> HIDE DEF reached
<1>9. Others(reached.rows)
  <2> SUFFICES ASSUME NEW d \in Decisions(discount), ~(EngineOwned(d) /\ d.promotion = p)
               PROVE  \E e \in reached.rows : SameDecision(d, e)
    OBVIOUS
  <2>1. PICK e \in stands.rows : SameDecision(d, e)
    BY <1>5
  <2>2. e \in Decisions(stands.rows)
    BY <2>1 DEF Decisions, Manual, Suppressed, SameDecision, Live
  <2>3. PICK f \in reached.rows : SameDecision(e, f)
    BY <1>8, <2>2 DEF Keeps
  <2>4. SameDecision(d, f)
    BY <2>1, <2>3 DEF SameDecision
  <2> QED
    BY <2>4
<1>10. PICK s : /\ Sound(s) /\ DOMAIN s.line = DOMAIN line /\ Others(s.rows)
                /\ PromotionLive(p, s.rows) /\ Writes(s)
  <2>1. CASE PromotionLive(p, stands.rows) /\ Writes(stands)
    BY <1>2, <1>5, <2>1
  <2>2. CASE PromotionLive(p, reached.rows) /\ Writes(reached)
    BY <1>7, <1>8, <1>9, <2>2
  <2> QED
    BY <1>1, <2>1, <2>2
<1>11. line' = s.line /\ discount' = s.rows /\ total' = s.total
  BY <1>10 DEF Writes
<1>12. Wrote
  BY <1>1, <1>10, <1>11 DEF Wrote
<1>13. ASSUME NEW d \in Decisions(discount) PROVE StandsIn(d, discount', line') \/ AskedFor(d)
  <2>1. CASE EngineOwned(d) /\ d.promotion = p
    BY <1>1, <1>10, <1>11, <2>1 DEF AskedFor, PromotionLive
  <2>2. CASE ~(EngineOwned(d) /\ d.promotion = p)
    <3>1. PICK e \in discount' : SameDecision(d, e)
      BY <1>10, <1>11, <2>2
    <3> QED
      BY <1>10, <1>11, <3>1, StandsWhereItWas DEF TypeOK
  <2> QED
    BY <2>1, <2>2
<1> QED
  BY <1>1, <1>12, <1>13 DEF StepIs, Stand, Statuses

LEMMA AdaptStep ==
  ASSUME TypeOK, NEW named \in SUBSET DOMAIN line, AdaptToLowerTotal(named)
  PROVE  StepIs
<1> DEFINE baseline == Settle(discount, line)
           raised == PlanLowerTotal(baseline.rows, line, named)
           reached == Adapted(baseline, Settle(baseline.rows, raised))
<1>1. Writes(reached) /\ rule' = rule /\ status' = status
  BY DEF AdaptToLowerTotal
<1>2. LinesFit(line) /\ RowsFit(discount, line) /\ rule \in RuleTables
  BY DEF TypeOK
<1>3. RowsFit(baseline.rows, line) /\ Keeps(discount, baseline.rows)
  BY <1>2, SettleKeeps, SettledFits
<1> HIDE DEF baseline
<1>4. LinesFit(raised) /\ DOMAIN raised = DOMAIN line
  BY <1>2, PlanLowerTotalIs
<1> HIDE DEF raised
<1>5. Sound(reached) /\ reached.line = raised /\ Keeps(discount, reached.rows)
  <2> DEFINE s == Settle(baseline.rows, raised)
  <2>1. RowsFit(baseline.rows, raised)
    BY <1>3, <1>4, RowsStillFit
  <2>2. Sound(s) /\ s.line = raised /\ Keeps(baseline.rows, s.rows)
    BY <1>2, <1>4, <2>1, SettleIsSound, SettleKeeps
  <2>3. reached = Adapted(baseline, s)
    OBVIOUS
  <2> HIDE DEF s, reached
  <2>4. Sound(reached) /\ reached.line = s.line /\ Keeps(s.rows, reached.rows)
    BY <1>2, <2>2, <2>3, AdaptedIsSound
  <2>5. Keeps(discount, s.rows)
    BY <1>3, <2>2, KeepsOn
  <2> QED
    BY <2>2, <2>4, <2>5, KeepsOn
<1> HIDE DEF reached
<1>6. line' = reached.line /\ discount' = reached.rows /\ total' = reached.total
  BY <1>1 DEF Writes
<1>7. Wrote
  BY <1>1, <1>5, <1>6 DEF Wrote
<1>8. Stand
  BY <1>4, <1>5, <1>6, KeptStand
<1> QED
  BY <1>1, <1>7, <1>8 DEF StepIs, TypeOK, Statuses

LEMMA RunRecipeStep ==
  ASSUME TypeOK, NEW kind \in DOMAIN Alternatives, NEW named \in SUBSET DOMAIN line,
         RunRecipe(kind, named)
  PROVE  StepIs
<1> DEFINE baseline == Settle(discount, line)
           swapped == [i \in DOMAIN line |->
                         IF i \in named THEN Cheapest(kind, line[i]) ELSE line[i]]
           after == Settle(baseline.rows, swapped)
<1>1. Writes(after) /\ rule' = rule /\ status' = status
  BY DEF RunRecipe
<1>2. LinesFit(line) /\ RowsFit(discount, line) /\ rule \in RuleTables
  BY DEF TypeOK
<1>3. RowsFit(baseline.rows, line) /\ Keeps(discount, baseline.rows)
  BY <1>2, SettleKeeps, SettledFits
<1> HIDE DEF baseline
<1>4. LinesFit(swapped) /\ DOMAIN swapped = DOMAIN line
  <2>1. \A i \in DOMAIN line : line[i] \in LineRow /\ Cheapest(kind, line[i]) \in LineRow
    BY <1>2, LinesAre, CheapestIs
  <2>2. DOMAIN line \subseteq Lines
    BY <1>2 DEF LinesFit
  <2> QED
    BY <2>1, <2>2 DEF LinesFit
<1> HIDE DEF swapped
<1>5. RowsFit(baseline.rows, swapped)
  BY <1>3, <1>4, RowsStillFit
<1>6. Wrote /\ line' = swapped /\ Keeps(baseline.rows, discount')
  BY <1>1, <1>2, <1>4, <1>5, SettleSteps
<1>7. Keeps(discount, discount')
  BY <1>3, <1>6, KeepsOn
<1>8. Stand
  BY <1>4, <1>6, <1>7, KeptStand
<1> QED
  BY <1>1, <1>6, <1>8 DEF StepIs, TypeOK, Statuses

-----------------------------------------------------------------------------
(* Every step *)

(* The steps that move a quote and write no row: frozen, sent, taken up, reactivated. *)
LEMMA MovingStep ==
  ASSUME TypeOK, UNCHANGED <<rule, line, discount, total>>, status' \in Statuses
  PROVE  StepIs
<1>1. Keeps(discount, discount')
  <2>1. \A d \in Decisions(discount) : d \in discount /\ SameDecision(d, d)
    BY DEF Decisions, Manual, Suppressed, SameDecision
  <2> QED
    BY <2>1 DEF Keeps
<1>2. Stand
  BY <1>1, KeptStand
<1> QED
  BY <1>2 DEF StepIs, TypeOK

LEMMA ReplaceRuleStep ==
  ASSUME TypeOK, NEW p \in Promotions, NEW r \in Offers[p], ReplaceRule(p, r)
  PROVE  StepIs
<1>1. rule' = [rule EXCEPT ![p] = r] /\ UNCHANGED <<status, line, discount, total>>
  BY DEF ReplaceRule
<1>2. rule' \in RuleTables
  <2>1. rule \in [Promotions -> UNION {Offers[q] : q \in Promotions}]
        /\ \A q \in Promotions : rule[q] \in Offers[q]
    BY DEF TypeOK, RuleTables
  <2>2. r \in UNION {Offers[q] : q \in Promotions}
    OBVIOUS
  <2> QED
    BY <1>1, <2>1, <2>2 DEF RuleTables
<1> QED
  BY <1>1, <1>2 DEF StepIs, TypeOK, Statuses

LEMMA EveryStep ==
  ASSUME TypeOK, FrozenIsSent, [Next]_vars
  PROVE  StepIs
<1>1. ASSUME NEW i \in Lines \ DOMAIN line, NEW p \in Asked[i].products,
             NEW n \in Asked[i].quantities, AddItem(i, p, n)
      PROVE  StepIs
  BY <1>1, AddItemStep
<1>2. ASSUME NEW i \in DOMAIN line, DeleteItem(i) PROVE StepIs
  BY <1>2, DeleteItemStep
<1>3. ASSUME NEW i \in DOMAIN line, NEW patch \in Patches(i), UpdateItem(i, patch) PROVE StepIs
  BY <1>3, UpdateItemStep
<1>4. CASE AcceptMaterials
  BY <1>4, AcceptMaterialsStep
<1>5. CASE Freeze \/ Publish \/ ReactivateForResend \/ TakeUpDraft
  BY <1>5, MovingStep DEF Freeze, Publish, ReactivateForResend, TakeUpDraft, TypeOK, Statuses
<1>6. ASSUME NEW t \in Typed, NEW items \in Covers(t.scope), NEW s \in Slots,
             AddDiscount(s, t, items)
      PROVE  StepIs
  BY <1>6, AddDiscountStep
<1>7. ASSUME NEW t \in Typed, NEW items \in Covers(t.scope), NEW d \in discount,
             EditDiscount(d, t, items)
      PROVE  StepIs
  BY <1>7, EditDiscountStep
<1>8. ASSUME NEW d \in discount, DeleteDiscount(d) PROVE StepIs
  BY <1>8, DeleteDiscountStep
<1>9. ASSUME NEW d \in discount, NEW flag \in BOOLEAN, SetSuppressed(d, flag) PROVE StepIs
  BY <1>9, SetSuppressedStep
<1>10. CASE SellerNext
  BY <1>1, <1>2, <1>3, <1>4, <1>5, <1>6, <1>7, <1>8, <1>9, <1>10, DiscardStep DEF SellerNext
<1>11. ASSUME NEW i \in DOMAIN line, NEW p \in Asked[i].products, NEW n \in Asked[i].quantities,
              ReplaceItem(i, p, n)
       PROVE  StepIs
  BY <1>11, ReplaceItemStep
<1>12. ASSUME NEW p \in Promotions, AddsPromotion(p, {}, None) PROVE StepIs
  BY <1>12, AddsPromotionStep
<1>13. ASSUME NEW p \in Promotions, NEW i \in DOMAIN line,
              NEW n \in Asked[i].quantities \ {line[i].quantity}, AddsPromotion(p, {i}, n)
       PROVE  StepIs
  <2>1. n \in Nat \ {0}
    BY DiscountsAssumption DEF TypeOK, LinesFit
  <2>2. {i} \in SUBSET DOMAIN line
    OBVIOUS
  <2> QED
    BY <1>13, <2>1, <2>2, AddsPromotionStep
<1>14. ASSUME NEW named \in Named \cap SUBSET DOMAIN line, AdaptToLowerTotal(named) PROVE StepIs
  BY <1>14, AdaptStep
<1>15. ASSUME NEW named \in Named \cap SUBSET DOMAIN line, NEW kind \in DOMAIN Alternatives,
              RunRecipe(kind, named)
       PROVE  StepIs
  BY <1>15, RunRecipeStep
<1>16. CASE HandlerNext
  BY <1>11, <1>12, <1>13, <1>14, <1>15, <1>16 DEF HandlerNext
<1>17. CASE Reopen \/ FoldVersion
  BY <1>17, ReopenStep, FoldVersionStep
<1>18. ASSUME NEW p \in Promotions, NEW r \in Offers[p], ReplaceRule(p, r) PROVE StepIs
  BY <1>18, ReplaceRuleStep
<1>19. CASE UNCHANGED vars
  BY <1>19 DEF vars, StepIs, TypeOK, Statuses
<1> QED
  BY <1>5, <1>10, <1>16, <1>17, <1>18, <1>19 DEF Next

-----------------------------------------------------------------------------
(* The invariant *)

LEMMA FloorsAre ==
  /\ EarnedStaysApart <=> StayApart(discount)
  /\ FloorBindsTheEngine <=> FloorsHold(discount, line)
  BY DEF EarnedStaysApart, StayApart, FloorBindsTheEngine, FloorsHold, Taken

LEMMA InvariantInit == Init => IInv
<1> SUFFICES ASSUME Init PROVE IInv
  OBVIOUS
<1>1. /\ rule \in RuleTables /\ status = "DRAFT" /\ frozen = FALSE /\ sent = None
      /\ line = <<>> /\ discount = {} /\ total = 0
  BY DEF Init
<1>2. DOMAIN line = {} /\ LinesFit(line)
  BY <1>1 DEF LinesFit
<1>3. RowsFit(discount, line)
  BY <1>1, FS_EmptySet DEF RowsFit, Manual
<1>4. TypeOK
  BY <1>1, <1>2, <1>3 DEF TypeOK
<1>5. Earning(discount) = {}
  BY <1>1 DEF Earning
<1>6. StayApart(discount)
  BY <1>5 DEF StayApart
<1>7. SumHeadroom(line, PricedLines(line)) \in Nat
  <2>1. PricedLines(line) \in SUBSET DOMAIN line
    BY DEF PricedLines
  <2> QED
    BY <1>2, <2>1, LinesAre, SumsAre
<1>8. FloorsHold(discount, line)
  BY <1>5, <1>7, NoAmounts DEF FloorsHold
<1>9. FrozenIsSent
  BY <1>1 DEF FrozenIsSent
<1> QED
  BY <1>4, <1>6, <1>8, <1>9, FloorsAre DEF IInv

(* The frozen version is written by no step, and only Freeze makes one. *)
LEMMA SentStep ==
  ASSUME TypeOK, FrozenIsSent, [Next]_vars
  PROVE  /\ FrozenIsSent' /\ frozen' \in BOOLEAN
         /\ sent' # None => LinesFit(sent'.line) /\ RowsFit(sent'.rows, sent'.line)
<1> DEFINE SentFits == sent' # None => LinesFit(sent'.line) /\ RowsFit(sent'.rows, sent'.line)
<1>1. CASE Freeze
  <2>1. /\ frozen' = TRUE /\ status' = status /\ status = "QUOTED"
        /\ line' = line /\ discount' = discount
        /\ sent' = [line |-> line, rows |-> Decisions(discount)]
    BY <1>1 DEF Freeze
  <2>2. Decisions(discount) \in SUBSET discount
    BY DEF Decisions, Manual, Suppressed
  <2>3. LinesFit(line) /\ RowsFit(Decisions(discount), line)
    BY <2>2, FewerFit DEF TypeOK
  <2>4. Decisions(discount)' = Decisions(discount)
    BY <2>1 DEF Decisions, Manual, Suppressed, EngineOwned, Live
  <2> QED
    BY <2>1, <2>3, <2>4 DEF FrozenIsSent
<1>2. ASSUME sent' = sent, frozen' = FALSE PROVE FrozenIsSent' /\ frozen' \in BOOLEAN /\ SentFits
  BY <1>2 DEF FrozenIsSent, TypeOK
<1>3. ASSUME UNCHANGED <<frozen, line, discount, sent>>, status' = "CHANGE_REQUESTED" => ~frozen
      PROVE  FrozenIsSent' /\ frozen' \in BOOLEAN /\ SentFits
  BY <1>3 DEF FrozenIsSent, TypeOK, Decisions, Manual, Suppressed, EngineOwned, Live
<1>4. ASSUME UNCHANGED <<frozen, sent>>, ~frozen PROVE frozen' = FALSE /\ sent' = sent
  BY <1>4 DEF TypeOK
<1>5. CASE SellerNext /\ ~Freeze
  <2>1. ASSUME NEW i, NEW p, NEW n, AddItem(i, p, n) PROVE sent' = sent /\ frozen' = FALSE
    BY <1>4, <2>1 DEF AddItem, Editable
  <2>2. ASSUME NEW i, DeleteItem(i) PROVE sent' = sent /\ frozen' = FALSE
    BY <1>4, <2>2 DEF DeleteItem, Editable
  <2>3. ASSUME NEW i, NEW patch, UpdateItem(i, patch) PROVE sent' = sent /\ frozen' = FALSE
    BY <1>4, <2>3 DEF UpdateItem, Editable
  <2>4. CASE AcceptMaterials \/ DiscardAIChanges
    BY <1>2, <1>4, <2>4 DEF AcceptMaterials, DiscardAIChanges
  <2>5. CASE Publish \/ ReactivateForResend
    BY <1>3, <2>5 DEF Publish, ReactivateForResend
  <2>6. ASSUME NEW t, NEW items, NEW z, AddDiscount(z, t, items) PROVE sent' = sent /\ frozen' = FALSE
    BY <1>4, <2>6 DEF AddDiscount, Editable
  <2>7. ASSUME NEW t, NEW items, NEW d, EditDiscount(d, t, items) PROVE sent' = sent /\ frozen' = FALSE
    BY <1>4, <2>7 DEF EditDiscount, Editable
  <2>8. ASSUME NEW d, DeleteDiscount(d) PROVE sent' = sent /\ frozen' = FALSE
    BY <1>4, <2>8 DEF DeleteDiscount, Editable
  <2>9. ASSUME NEW d, NEW flag, SetSuppressed(d, flag) PROVE sent' = sent /\ frozen' = FALSE
    BY <1>4, <2>9 DEF SetSuppressed, Editable
  <2> QED
    BY <1>2, <1>5, <2>1, <2>2, <2>3, <2>4, <2>5, <2>6, <2>7, <2>8, <2>9 DEF SellerNext
<1>6. CASE HandlerNext
  <2>1. ASSUME NEW i, NEW p, NEW n, ReplaceItem(i, p, n) PROVE UNCHANGED <<frozen, sent>> /\ ~frozen
    BY <2>1 DEF ReplaceItem, FrozenIsSent
  <2>2. ASSUME NEW p, NEW asked, NEW n, AddsPromotion(p, asked, n)
        PROVE  UNCHANGED <<frozen, sent>> /\ ~frozen
    BY <2>2 DEF AddsPromotion, FrozenIsSent
  <2>3. ASSUME NEW named, AdaptToLowerTotal(named) PROVE UNCHANGED <<frozen, sent>> /\ ~frozen
    BY <2>3 DEF AdaptToLowerTotal, FrozenIsSent
  <2>4. ASSUME NEW named, NEW kind, RunRecipe(kind, named) PROVE UNCHANGED <<frozen, sent>> /\ ~frozen
    BY <2>4 DEF RunRecipe, FrozenIsSent
  <2>5. UNCHANGED <<frozen, sent>> /\ ~frozen
    BY <1>6, <2>1, <2>2, <2>3, <2>4 DEF HandlerNext
  <2> QED
    BY <1>2, <1>4, <2>5
<1>7. CASE Reopen \/ FoldVersion
  BY <1>2, <1>7 DEF Reopen, FoldVersion
<1>8. CASE TakeUpDraft
  BY <1>3, <1>8 DEF TakeUpDraft
<1>9. ASSUME NEW p, NEW r, ReplaceRule(p, r) PROVE FrozenIsSent' /\ frozen' \in BOOLEAN /\ SentFits
  <2>1. UNCHANGED <<status, frozen, line, discount, sent>>
    BY <1>9 DEF ReplaceRule
  <2> QED
    BY <1>3, <2>1 DEF FrozenIsSent
<1>10. CASE UNCHANGED vars
  BY <1>3, <1>10 DEF vars, FrozenIsSent
<1> QED
  BY <1>1, <1>5, <1>6, <1>7, <1>8, <1>9, <1>10 DEF Next

(* What a sweep left is typed, apart and above the floors; any other step leaves the rows. *)
LEMMA InvariantStep == IInv /\ [Next]_vars => IInv'
<1> SUFFICES ASSUME IInv, [Next]_vars PROVE IInv'
  OBVIOUS
<1>1. TypeOK /\ FrozenIsSent /\ StayApart(discount) /\ FloorsHold(discount, line)
  BY FloorsAre DEF IInv
<1>2. StepIs
  BY <1>1, EveryStep
<1>3. /\ rule' \in RuleTables /\ LinesFit(line') /\ RowsFit(discount', line') /\ total' \in Nat
      /\ StayApart(discount') /\ FloorsHold(discount', line')
  <2>1. CASE Wrote
    <3>1. PICK s : /\ Sound(s) /\ rule' = rule
                   /\ line' = s.line /\ discount' = s.rows /\ total' = s.total
      BY <2>1 DEF Wrote
    <3>2. /\ LinesFit(s.line) /\ RowsFit(s.rows, s.line) /\ s.total \in Nat
          /\ StayApart(s.rows) /\ FloorsHold(s.rows, s.line)
      BY <1>1, <3>1, SoundIs DEF TypeOK
    <3> QED
      BY <1>1, <3>1, <3>2 DEF TypeOK
  <2>2. CASE rule' \in RuleTables /\ UNCHANGED <<line, discount, total>>
    BY <1>1, <2>2 DEF TypeOK
  <2> QED
    BY <1>2, <2>1, <2>2 DEF StepIs
<1>4. /\ FrozenIsSent' /\ frozen' \in BOOLEAN
      /\ sent' # None => LinesFit(sent'.line) /\ RowsFit(sent'.rows, sent'.line)
  BY <1>1, SentStep
<1>5. TypeOK'
  BY <1>2, <1>3, <1>4 DEF TypeOK, StepIs, Statuses
<1>6. EarnedStaysApart' /\ FloorBindsTheEngine'
  BY <1>3 DEF EarnedStaysApart, StayApart, FloorBindsTheEngine, FloorsHold, Taken
<1> QED
  BY <1>4, <1>5, <1>6 DEF IInv

-----------------------------------------------------------------------------
(* The theorems *)

(* What Settle persists keeps the types, the applications apart and every floor, whatever *)
(* rule is replaced between two sweeps.                                                   *)
THEOREM Invariant == Spec => []IInv
<1> QED
  BY InvariantInit, InvariantStep, PTL DEF Spec

(* A quote's lines, rows and total have their type in every reachable state: no figure is *)
(* negative, no row names a line of another version, no typed discount shares its slot.   *)
THEOREM TypeCorrect == Spec => []TypeOK
<1>1. IInv => TypeOK
  BY DEF IInv
<1> QED
  BY <1>1, Invariant, PTL

(* resolveConflicts, over every order of candidates and through persist's updates in *)
(* place: what the engine earns takes no line below its floor beside what the seller *)
(* took of it, nor the quote below the sum of its floors.                            *)
THEOREM FloorsBindTheEngine == Spec => []FloorBindsTheEngine
<1>1. IInv => FloorBindsTheEngine
  BY DEF IInv
<1> QED
  BY <1>1, Invariant, PTL

(* Swept rows show what the engine earns on them. *)
LEMMA SweptShows ==
  ASSUME TypeOK, Swept
  PROVE  Shows(discount, line)
  BY SettledShows DEF TypeOK, Swept

(* acceptLines and acceptTotal: no line is under two promotions, at most one is on the *)
(* total, and on swept rows an exclusive one there is alone.                           *)
THEOREM PromotionsStayApart == Spec => []PromotionsDoNotStack
<1>1. IInv => PromotionsDoNotStack
  <2> SUFFICES ASSUME IInv, NEW d \in Earning(discount), NEW e \in Earning(discount), d # e
               PROVE  /\ d.items \cap e.items = {} /\ (d.items # {} \/ e.items # {})
                      /\ Swept /\ d.items = {} => ~rule[d.promotion].exclusive
    BY DEF PromotionsDoNotStack
  <2>1. TypeOK /\ d.items \cap e.items = {} /\ (d.items # {} \/ e.items # {})
    BY DEF IInv, EarnedStaysApart
  <2>2. ASSUME Swept, d.items = {}, rule[d.promotion].exclusive PROVE FALSE
    <3> DEFINE in == Reading(discount, line)
               E == Earned(discount, line)
    <3>1. Shows(discount, line)
      BY <2>1, <2>2, SweptShows
    <3>2. LinesFit(line) /\ RowsFit(discount, line) /\ rule \in RuleTables
      BY <2>1 DEF TypeOK
    <3>3. PICK a \in E : SaysOf(d, a)
      BY <3>1, <3>2, SaysOneThing
    <3>4. PICK b \in E : SaysOf(e, b)
      BY <3>1, <3>2, SaysOneThing
    <3>5. IsResolution(in, Standing(in), E) /\ in.rule = rule
      BY <3>2, EarnedAre
    <3> HIDE DEF in, E
    <3>6. a.items = {} /\ Exclusive(in, a)
      BY <2>2, <3>3, <3>5 DEF SaysOf, Exclusive
    <3>7. E = {a}
      BY <3>5, <3>6 DEF IsResolution
    <3>8. Key(d) = Key(e)
      BY <3>3, <3>4, <3>7 DEF SaysOf
    <3> QED
      BY <3>1, <3>2, <3>8, SaysOneThing
  <2> QED
    BY <2>1, <2>2
<1> QED
  BY <1>1, Invariant, PTL

(* compareCandidates and the order resolveConflicts takes: a line or set application that *)
(* could be made and is not lost a line it needs to one that ranks above it, or the total *)
(* went to an exclusive one.                                                              *)
THEOREM FirstRankedIsServed == Spec => []FirstRankedClaims
<1>1. IInv => FirstRankedClaims
  <2> DEFINE in == Reading(discount, line)
             E == Earned(discount, line)
  <2> SUFFICES ASSUME IInv, Swept, NEW c \in Candidates(in), c.scope # "TOTAL",
                      Free(c, in.suppressed, Holding(in))
               PROVE  \E d \in Earning(discount) :
                        \/ Key(d) = Key(c)
                        \/ d.items \cap c.items # {} /\ Outranks(in, d, c)
                        \/ d.items = {} /\ rule[d.promotion].exclusive
    BY DEF FirstRankedClaims
  <2>1. LinesFit(line) /\ RowsFit(discount, line) /\ rule \in RuleTables /\ Shows(discount, line)
    BY SweptShows DEF IInv, TypeOK
  <2>2. IsResolution(in, Standing(in), E) /\ in.rule = rule
    BY <2>1, EarnedAre
  <2>3. c \in Standing(in)
    BY DEF Standing
  <2>4. \A a \in E : \E d \in Earning(discount) : SaysOf(d, a)
    BY <2>1, SaysOneThing
  <2> HIDE DEF in, E
  <2>5. CASE c \in E
    <3>1. PICK d \in Earning(discount) : SaysOf(d, c)
      BY <2>4, <2>5
    <3> QED
      BY <3>1 DEF SaysOf
  <2>6. CASE LostTo(in, c, E)
    <3>1. PICK a \in E : a.items \cap c.items # {} /\ Outranks(in, a, c)
      BY <2>6 DEF LostTo
    <3>2. PICK d \in Earning(discount) : SaysOf(d, a)
      BY <2>4
    <3>3. Outranks(in, d, c)
      BY <3>1, <3>2 DEF SaysOf, Outranks, FirstLine
    <3> QED
      BY <3>1, <3>2, <3>3 DEF SaysOf
  <2>7. CASE \E a \in E : a.items = {} /\ Exclusive(in, a)
    <3>1. PICK a \in E : a.items = {} /\ Exclusive(in, a)
      BY <2>7
    <3>2. PICK d \in Earning(discount) : SaysOf(d, a)
      BY <2>4
    <3>3. d.items = {} /\ rule[d.promotion].exclusive
      BY <2>2, <3>1, <3>2 DEF SaysOf, Exclusive
    <3> QED
      BY <3>3
  <2> QED
    BY <2>2, <2>3, <2>5, <2>6, <2>7 DEF IsResolution
<1> QED
  BY <1>1, Invariant, PTL

(* Every handler that writes lines or rows ends in Settle or in a marking of what it left: *)
(* no edit forgets to sweep, and a sweep of what a sweep left changes nothing.             *)
THEOREM SweepsSettle == Spec => SweepIsSettled
<1> DEFINE Settled ==
      <<line, discount, total>>' # <<line, discount, total>>
        => rule' = rule /\ Settle(discount', line') = [line |-> line', rows |-> discount',
                                                      total |-> total']
<1>1. IInv /\ [Next]_vars => [Settled]_vars
  <2> SUFFICES ASSUME IInv, [Next]_vars, <<line, discount, total>>' # <<line, discount, total>>
               PROVE  /\ rule' = rule
                      /\ Settle(discount', line') = [line |-> line', rows |-> discount', total |-> total']
    OBVIOUS
  <2>1. TypeOK /\ FrozenIsSent
    BY DEF IInv
  <2>2. Wrote
    BY <2>1, EveryStep DEF StepIs
  <2>3. PICK s : /\ Sound(s) /\ rule' = rule
                 /\ line' = s.line /\ discount' = s.rows /\ total' = s.total
    BY <2>2 DEF Wrote
  <2>4. Settle(s.rows, s.line) = [line |-> s.line, rows |-> s.rows, total |-> s.total]
    BY <2>1, <2>3, SoundIs DEF TypeOK
  <2> QED
    BY <2>3, <2>4
<1> QED
  BY <1>1, Invariant, PTL DEF Spec, SweepIsSettled

(* CopySellerDecisions and settle: what a seller typed or took off stands through every    *)
(* edit of the lines, every request of the customer and every version copied from another; *)
(* restorePromotions alone undoes a suppression.  DiscardAIChanges gives back the          *)
(* decisions of the version frozen last, in place of the draft's own; persistDraftVersion  *)
(* opens a version with none.                                                              *)
THEOREM DecisionsStand == Spec => SellerDecisionsStand
<1> DEFINE Stands ==
      /\ <<line, status>>' # <<line, status>> =>
           \A d \in Decisions(discount) :
             StandsIn(d, discount', line') \/ AskedFor(d) \/ DiscardAIChanges \/ FoldVersion
      /\ sent # None =>
           \A d \in Decisions(sent.rows) : StandsIn(d, discount', line') \/ ~DiscardAIChanges
<1>1. IInv /\ [Next]_vars => [Stands]_vars
  <2> SUFFICES ASSUME IInv, [Next]_vars PROVE Stands
    OBVIOUS
  <2>1. TypeOK /\ FrozenIsSent
    BY DEF IInv
  <2>2. <<line, status>>' # <<line, status>> => Stand \/ DiscardAIChanges \/ FoldVersion
    BY <2>1, EveryStep DEF StepIs
  <2>3. DiscardAIChanges => \A d \in Decisions(sent.rows) : StandsIn(d, discount', line')
    BY <2>1, DiscardStep
  <2> QED
    BY <2>2, <2>3 DEF Stand
<1> QED
  BY <1>1, Invariant, PTL DEF Spec, SellerDecisionsStand

=============================================================================
