----------------------------- MODULE MCTeamOps -----------------------------
(* Instances of TeamOps for TLC; see the cfg files. *)
EXTENDS TeamOps

CONSTANTS p1, p2, g1, g2, it1, none

MCLogin  == [u \in {g1, g2} |-> "login"]
MCLength == [it \in {it1} |-> 20]

Issue(status, hours, recent, iteration) ==
  [status |-> status, hours |-> hours, recent |-> recent, iteration |-> iteration]
MCIssueStates == {Issue("todo", 30, FALSE, it1), Issue("done", 50, TRUE, none)}

Edit(language, lines) == [owner |-> "login", language |-> language, lines |-> lines]
MCEdits == {Edit("python", 3), Edit("go", 5)}

MCBudget == [table \in Tasks |-> CASE table = "familiarity" -> 3 [] table = "capacity" -> 2 [] OTHER -> 1]
============================================================================
