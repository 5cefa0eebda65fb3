----------------------------- MODULE MCDiscounts -----------------------------
(* A small instance of Discounts for TLC. *)
EXTENDS Discounts

Off ==
  [inForce |-> FALSE, condition |-> "ON_TOTAL", action |-> "FIXED_AMOUNT", value |-> 1,
   priority |-> 0, exclusive |-> FALSE, minTotal |-> None, targets |-> {}, tiers |-> {}]

On(condition, action, value, products) ==
  [Off EXCEPT !.inForce = TRUE, !.condition = condition, !.action = action, !.value = value,
              !.targets = {[products |-> {p}, min |-> None] : p \in products}]

Prices ==
  [p \in {"brick", "lime", "sand"} |->
     [price |-> IF p = "brick" THEN 10 ELSE 7, floor |-> IF p = "brick" THEN 4 ELSE None]]

Swaps ==
  [kind \in {"ECONOMY", "PREMIUM"} |->
     [p \in {"brick", "lime", "sand"} |->
        CASE kind = "ECONOMY" /\ p = "brick" -> {"lime"}
          [] kind = "PREMIUM" /\ p = "lime" -> {"brick"}
          [] OTHER -> {}]]

Asks == <<[products |-> {"brick"}, quantities |-> {1, 2}],
          [products |-> {"sand"}, quantities |-> {1}]>>

TypedRules == {[scope |-> "ITEM", action |-> "FIXED_AMOUNT", value |-> 3]}

(* A line rule with a threshold, a set, and one on the total. *)
Rules ==
  << {[On("QUANTITY_TIERED", "FIXED_AMOUNT", 1, {"brick"}) EXCEPT !.priority = 2, !.exclusive = TRUE,
         !.tiers = {[from |-> 2, to |-> None, value |-> 6]}]},
     {[On("ITEM_SET", "PERCENTAGE", 20, {"brick", "sand"}) EXCEPT !.priority = 1]},
     {[On("ON_TOTAL", "PERCENTAGE", 10, {}) EXCEPT !.minTotal = 15],
      [On("ON_TOTAL", "FIXED_AMOUNT", 4, {}) EXCEPT !.exclusive = TRUE, !.priority = 1]} >>

(* Once a version was frozen the run goes on only where the frozen one asks for *)
(* two bricks and the sand, and it and the draft carry a decision each at most. *)
OneDecisionEach ==
  sent # None =>
    /\ DOMAIN sent.line = Lines /\ sent.line[1].product = "brick" /\ sent.line[1].quantity = 2
    /\ Cardinality(sent.rows) <= 1 /\ Cardinality(Decisions(discount)) <= 1
=============================================================================
