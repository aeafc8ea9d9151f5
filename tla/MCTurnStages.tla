---------------------------- MODULE MCTurnStages ----------------------------
(* Small instances of TurnStages. *)
EXTENDS TurnStages, TLC

CONSTANTS h1, h2, p1, p2, ann, card

\* A card number in the first turn, Ann from the second turn on.
CardFirst == [t \in Turns |-> IF t = 0 THEN {card} ELSE {ann}]

\* What is left of a call that has ended.
Ended(c) == [NoCall EXCEPT !.by = c.by, !.stage = c.stage, !.turn = c.turn, !.pc = c.pc]

Over(s) == call[s].pc \in {"ok", "bad"}

\* The sessions that the cache or a call still holds: the others stay as they are.
InUse == {cached} \cup {call[s].ses : s \in {r \in Slots : ~Over(r)}}

\* A state without what no later step reads: the sessions that nobody holds any
\* more, which the invariants have seen, and the insides of calls that are over.
View ==
  <<gatewayVars, redisVars, cache, cached, seenVars, boundVars,
    [s \in Slots |-> IF Over(s) THEN Ended(call[s]) ELSE call[s]],
    [i \in SessionIds |-> IF i \in InUse THEN sess[i] ELSE NoSession]>>

Symmetry == Permutations(Threads) \cup Permutations(Processes)

=============================================================================
