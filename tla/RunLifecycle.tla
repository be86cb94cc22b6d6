---------------------------- MODULE RunLifecycle ----------------------------
(***************************************************************************)
(* What a reader of the gateway may rely on about analysis runs, whatever  *)
(* workers, manual requests, crashes and redeliveries do:                  *)
(*   - a run is announced as succeeded only with a score and a report;     *)
(*   - a score or a report, once there, stays until the run is deleted;    *)
(*   - a deleted run never comes back, and nothing is recorded for it.     *)
(* A settled run is not final: it may be worked on again.                  *)
(***************************************************************************)
CONSTANT Runs

VARIABLES phase,     \* what the status amounts to
          scored,    \* whether the run has a score
          reported   \* whether the run has a report

vars == <<phase, scored, reported>>

Live == {"open", "succeeded", "failed"}

Init ==
  /\ phase = [r \in Runs |-> "none"]
  /\ scored = [r \in Runs |-> FALSE]
  /\ reported = [r \in Runs |-> FALSE]

Become(r, p) == phase' = [phase EXCEPT ![r] = p]

Open(r) ==
  /\ phase[r] = "none"
  /\ Become(r, "open")
  /\ UNCHANGED <<scored, reported>>

Work(r) ==
  /\ phase[r] \in Live
  /\ Become(r, "open")
  /\ UNCHANGED <<scored, reported>>

RecordScore(r) ==
  /\ phase[r] \in Live
  /\ ~scored[r]
  /\ scored' = [scored EXCEPT ![r] = TRUE]
  /\ Become(r, "open")
  /\ UNCHANGED reported

RecordReport(r) ==
  /\ phase[r] \in Live
  /\ ~reported[r]
  /\ reported' = [reported EXCEPT ![r] = TRUE]
  /\ UNCHANGED <<phase, scored>>

Succeed(r) ==
  /\ phase[r] \in Live
  /\ scored[r] /\ reported[r]
  /\ Become(r, "succeeded")
  /\ UNCHANGED <<scored, reported>>

Fail(r) ==
  /\ phase[r] \in Live
  /\ Become(r, "failed")
  /\ UNCHANGED <<scored, reported>>

Delete(r) ==
  /\ phase[r] \in Live
  /\ Become(r, "gone")
  /\ scored' = [scored EXCEPT ![r] = FALSE]
  /\ reported' = [reported EXCEPT ![r] = FALSE]

Next ==
  \E r \in Runs :
    \/ Open(r) \/ Work(r) \/ RecordScore(r) \/ RecordReport(r)
    \/ Succeed(r) \/ Fail(r) \/ Delete(r)

Spec == Init /\ [][Next]_vars
=============================================================================
