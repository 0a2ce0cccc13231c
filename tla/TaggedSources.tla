---------------------------- MODULE TaggedSources ----------------------------
(***************************************************************************)
(* What buildtagger promises of the Go files it is run on: a file is its   *)
(* source and at most one build tag, and the tag can be set, replaced and  *)
(* removed any number of times without a change of the source.  Only a run *)
(* that stops while it writes a file may lose the end of that one file.    *)
(***************************************************************************)
EXTENDS Naturals, Sequences

CONSTANTS
    Files,
    Tags,
    NoTag,       \* the file has no build tag
    Sources      \* what a file may hold under its build tag: lines

VARIABLES
    tag,     \* the build tag of each file
    source   \* the rest of each file

Init ==
    /\ tag \in [Files -> Tags \cup {NoTag}]
    /\ source \in [Files -> Sources]

SetTag(f) ==
    /\ \E t \in Tags \cup {NoTag} : tag' = [tag EXCEPT ![f] = t]
    /\ UNCHANGED source

(* The first lines of a source; the last one of them may be cut. *)
Beginning(s, t) == Len(s) <= Len(t) /\ \A i \in 1..(Len(s) - 1) : s[i] = t[i]

Lose(f) ==
    /\ \E t \in Tags \cup {NoTag} : tag' = [tag EXCEPT ![f] = t]
    /\ Beginning(source'[f], source[f])
    /\ source' = [source EXCEPT ![f] = source'[f]]

Next == \E f \in Files : SetTag(f) \/ Lose(f)

Spec == Init /\ [][Next]_<<tag, source>>
=============================================================================
