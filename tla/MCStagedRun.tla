---------------------------- MODULE MCStagedRun ----------------------------
(* Instances of StagedRun for TLC. *)
EXTENDS StagedRun

Outcome(fi, sri, full, slow, gci) ==
    [fi |-> fi, sri |-> sri, full |-> full, slow |-> slow, gci |-> gci]

AllWork == Outcome(TRUE, TRUE, TRUE, TRUE, TRUE)
FullFails == Outcome(FALSE, TRUE, FALSE, TRUE, TRUE)
BothFail == Outcome(FALSE, FALSE, FALSE, FALSE, FALSE)

\* Two points that differ in what the solvers make of them.  No definition tells one
\* point from the other, so each pair is needed once
MixedAnswers ==
    LET first == CHOOSE p \in Points : TRUE
        Pair(a, b) == [p \in Points |-> IF p = first THEN a ELSE b]
    IN  {Pair(AllWork, FullFails), Pair(AllWork, BothFail), Pair(FullFails, BothFail)}

Config(targets, stop, scalars) == [targets |-> targets, stop |-> stop, scalars |-> scalars]

\* What a user may mix from one run to the next
MixedConfigs ==
    {Config(Targets, "nowhere", FALSE), Config({"homogeneous"}, "nowhere", FALSE),
     Config(Targets, "full-instanton", FALSE), Config({"homogeneous"}, "slow-roll-instanton", FALSE),
     Config({"gradient"}, "nowhere", FALSE), Config({}, "nowhere", FALSE),
     Config(Targets, "inflaton-trajectory", FALSE),
     Config(Targets, "full-instanton", TRUE), Config({"homogeneous"}, "nowhere", TRUE)}
=============================================================================
