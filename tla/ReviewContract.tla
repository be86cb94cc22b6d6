--------------------------- MODULE ReviewContract ---------------------------
(***************************************************************************)
(* What a review promises, however its agents are interleaved: each unit   *)
(* gets one answer, and a review that is done has kept every acceptable    *)
(* finding of every answer, under a number that depends on the order of    *)
(* the units alone.  A review that fails has kept none of them or, when it *)
(* was given up with its answers complete, possibly all, and never some.   *)
(***************************************************************************)
EXTENDS Naturals, Sequences, FiniteSets

CONSTANTS NUnits,     \* the units are 1..NUnits
          Found,      \* findings an agent may report
          Accepted,   \* those that satisfy the finding schema
          NoAnswer    \* a unit that has none yet

VARIABLES pool,     \* the units under review
          strict,   \* whether unacceptable findings are dropped
          answer,   \* the findings reported for a unit, or NoAnswer
          outcome,  \* "idle", "open", "done" or "failed"
          kept      \* what a review that is over has kept

vars == <<pool, strict, answer, outcome, kept>>

Units == 1..NUnits

Init ==
  /\ pool = {} /\ strict \in BOOLEAN
  /\ answer = [u \in Units |-> NoAnswer]
  /\ outcome = "idle" /\ kept = {}

Forget == pool' = {} /\ answer' = [u \in Units |-> NoAnswer]

Open ==
  /\ outcome = "idle" /\ outcome' = "open"
  /\ pool' \in SUBSET Units
  /\ UNCHANGED <<strict, answer, kept>>

Answer(u) ==
  /\ outcome = "open" /\ u \in pool /\ answer[u] = NoAnswer
  /\ answer' = [answer EXCEPT ![u] = answer'[u]]
  /\ answer'[u] \in Seq(Found)
  /\ UNCHANGED <<pool, strict, outcome, kept>>

\* Where findings were reported, by unit and position.
Places == UNION {{u} \X DOMAIN answer[u] : u \in pool}

\* The number of the i-th finding of unit u: how many come up to it.
Number(u, i) == Cardinality({p \in Places : p[1] < u \/ (p[1] = u /\ p[2] <= i)})

Findings ==
  {[id |-> Number(p[1], p[2]), unit |-> p[1], finding |-> answer[p[1]][p[2]]] : p \in Places}

KeepAll ==
  /\ outcome = "open" /\ \A u \in pool : answer[u] # NoAnswer
  /\ kept' = {k \in Findings : strict => k.finding \in Accepted}

Done ==
  /\ KeepAll
  /\ outcome' = "done"
  /\ UNCHANGED strict /\ Forget

\* A review may be left out altogether: no provider is configured.
Skip ==
  /\ outcome = "idle" /\ outcome' = "done"
  /\ UNCHANGED <<pool, strict, answer, kept>>

Fail ==
  /\ outcome \in {"idle", "open"} /\ outcome' = "failed"
  /\ UNCHANGED kept \/ KeepAll
  /\ UNCHANGED strict /\ Forget

\* A driver of several samples goes on to the next.
Again ==
  /\ outcome = "done" /\ outcome' = "idle"
  /\ kept' = {}
  /\ UNCHANGED <<pool, strict, answer>>

Next ==
  \/ Open \/ Done \/ Skip \/ Fail \/ Again
  \/ \E u \in Units : Answer(u)

Spec == Init /\ [][Next]_vars
=============================================================================
