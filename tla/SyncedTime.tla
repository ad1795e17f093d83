----------------------------- MODULE SyncedTime -----------------------------
(***************************************************************************)
(* What the client of crates/clock-sync-client/src/lib.rs promises to the  *)
(* task that asks it for the time, whatever happens inside: on each path   *)
(* it becomes ready once and for all, a question asked when it is ready is *)
(* answered, and every answer is late by at most MaxLate and never ahead.  *)
(***************************************************************************)
EXTENDS Naturals

CONSTANTS
  Paths,     \* the queries
  MaxLate,   \* the greatest error of an answer
  None       \* no question, or the refusal of one

VARIABLES
  now,       \* real time
  ready,     \* the paths on which the client is ready
  query      \* the question asked, or its answer

vars == <<now, ready, query>>

Question == [path : Paths, at : Nat, owed : BOOLEAN]
Reply    == [path : Paths, at : Nat, late : 0..MaxLate \cup {None}]

Init == now = 0 /\ ready = {} /\ query = None

Tick ==
  /\ now' = now + 1
  /\ UNCHANGED <<ready, query>>

\* A question under way may profit.
BecomeReady ==
  /\ ready' \in SUBSET Paths
  /\ ready \subseteq ready'
  /\ \/ UNCHANGED query
     \/ /\ query \in Question
        /\ query.path \in ready'
        /\ query' = [query EXCEPT !.owed = TRUE]
  /\ UNCHANGED now

\* What the time was at "at".
Ask ==
  /\ query = None
  /\ \E p \in Paths, t \in 0..now : query' = [path |-> p, at |-> t, owed |-> p \in ready]
  /\ UNCHANGED <<now, ready>>

Answer ==
  /\ query \in Question
  /\ \E late \in 0..MaxLate \cup (IF query.owed THEN {} ELSE {None}) :
       query' = [path |-> query.path, at |-> query.at, late |-> late]
  /\ UNCHANGED <<now, ready>>

Forget ==
  /\ query \in Reply
  /\ query' = None
  /\ UNCHANGED <<now, ready>>

Next == Tick \/ BecomeReady \/ Ask \/ Answer \/ Forget

Spec == Init /\ [][Next]_vars

=============================================================================
