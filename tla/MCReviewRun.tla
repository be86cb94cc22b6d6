---------------------------- MODULE MCReviewRun ----------------------------
(* Instances of ReviewRun for TLC; see the cfg files. *)
EXTENDS ReviewRun

Finding(cat, sev, conf, at) == [cat |-> cat, sev |-> sev, conf |-> conf, at |-> at]

Grave   == Finding("security", "critical", "over", 1)
Light   == Finding("security", "low", "half", 1)
NoShape == Finding("absent", "absent", "absent", 1)
NoNumber == Finding("absent", "high", "text", 2)

MCAnswers == {<<>>, <<Grave>>, <<NoShape>>, <<NoNumber, Light>>}
MCCategories == {"security"}
============================================================================
