---------------------------- MODULE MCBuildTagger ----------------------------
(* Values of the constants of BuildTagger for TLC. *)
EXTENDS BuildTagger

(* All files of up to four lines with at most one tag, in the first line. *)
UpToFourLines ==
    {c \in UNION {[1..n -> Lines] : n \in 1..4} : \A i \in 2..Len(c) : c[i] \notin Tags}
=============================================================================
