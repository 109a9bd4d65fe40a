---------------------------- MODULE StateSwitch ----------------------------
(***************************************************************************)
(* The state-machine library that drives clusters and hosts                *)
(* (vendor/github.com/filanov/stateswitch).  A machine is an ordered table  *)
(* of rules per transition type; Run takes the first rule whose source      *)
(* states contain the object's state and whose condition holds, and fails   *)
(* when there is none.                                                      *)
(*                                                                         *)
(* A table is a set of rules, each carrying its place in the table.  It is  *)
(* built for one evaluation of the conditions: a rule whose condition when   *)
(* fails starts from no state.                                              *)
(***************************************************************************)
EXTENDS Naturals

Rule(ord, from, when, to, post) ==
  [ord |-> ord, from |-> IF when THEN from ELSE {}, to |-> to, post |-> post]

Matching(rules, state) == {r \in rules : state \in r.from}

\* What Run picks: the rule that matches and precedes every other that does.
\* Empty when none matches: Run then returns an error ("no condition passed to
\* run transition").
Runs(rules, state) ==
  UNION {{r \in m : \A q \in m : r.ord <= q.ord} : m \in {Matching(rules, state)}}
=============================================================================
