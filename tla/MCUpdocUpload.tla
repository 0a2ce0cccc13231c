---------------------------- MODULE MCUpdocUpload ----------------------------
(* Values of the constants of UpdocUpload for TLC. *)
EXTENDS UpdocUpload

CONSTANTS p1, p2, i1, guide, logo

OneIndex == [p \in Publishers |-> i1]
Exts2 == [f \in Paths |-> IF f = logo THEN ".png" ELSE ".md"]

Checkout(g, l, listed) == [docs |-> [f \in Paths |-> IF f = logo THEN l ELSE g],
                           index |-> listed]

(* Two releases; index.json that is up to date or stale: it lists a        *)
(* document that was removed, or lacks one that was added.                 *)
Releases ==
    {Checkout("old", "old", {guide}), Checkout("new", "old", {guide}),
     Checkout("new", "new", {}), Checkout(NoFile, "new", {guide}),
     Checkout("new", NoFile, {guide})}
=============================================================================
