---------------------------- MODULE CustomerInbox ----------------------------
(***************************************************************************)
(* What the conversation queue promises for every message of a customer,   *)
(* without windows, claims or workers: a message that arrived is answered  *)
(* by a run of the handler before it counts as handled, what is handled    *)
(* stays so, and what was given up may only come back to the queue.        *)
(***************************************************************************)
CONSTANT Messages

VARIABLE state

States == {"unsent", "waiting", "answered", "handled", "given up"}

Init == state = [m \in Messages |-> "unsent"]

(* Messages of one batch move together. *)
Move(S, from, to) ==
  /\ S # {} /\ \A m \in S : state[m] \in from
  /\ state' = [m \in Messages |-> IF m \in S THEN to ELSE state[m]]

Arrive(m) == Move({m}, {"unsent"}, "waiting")
Answer(S) == Move(S, {"waiting"}, "answered")
Handled(S) == Move(S, {"answered"}, "handled")
GiveUp(S) == Move(S, {"waiting", "answered"}, "given up")
Retry(S) == Move(S, {"given up"}, "waiting")

Next ==
  \/ \E m \in Messages : Arrive(m)
  \/ \E S \in SUBSET Messages : Answer(S) \/ Handled(S) \/ GiveUp(S) \/ Retry(S)

Spec == Init /\ [][Next]_state

=============================================================================
