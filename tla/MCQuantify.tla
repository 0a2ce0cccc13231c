----------------------------- MODULE MCQuantify -----------------------------
(* Values of the constants of Quantify for TLC. *)
EXTENDS Quantify

CONSTANTS vn, lb

KindOfEach == [t \in Templates |-> t]
OneOrTwo == [t \in Templates |-> IF t = vn THEN 2 ELSE 1]
OneForeign == {<<vn, 9>>}
=============================================================================
