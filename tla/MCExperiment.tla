---------------------------- MODULE MCExperiment ----------------------------
(* Values of the constants of Experiment for TLC. *)
EXTENDS Experiment

CONSTANTS vn, lb

KindOfEach == [t \in Templates |-> t]
OneOrTwo == [t \in Templates |-> IF t = vn THEN 2 ELSE 1]
OneForeign == {<<vn, 9>>}
=============================================================================
