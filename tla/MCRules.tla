------------------------------- MODULE MCRules -------------------------------
(* Model values and clock behaviours for the runs of the rules engine.     *)
EXTENDS RulesHistory, TLC

CONSTANTS k1, k2, k3

MCAttempts == {k1, k2, k3}
MCForward == {1, 2}
MCSymmetry == Permutations(MCAttempts)
=============================================================================
