----------------------------- MODULE CRDVersions -----------------------------
(***************************************************************************)
(* The order in which SelfDiff compares the versions of a CRD: sortVersions*)
(* of pkg/crdschema/crd.go and semver.Sort, which it is built on.  A name  *)
(* like v1beta2 is a record of its major version, its stage, "" for v1,    *)
(* and the digits of its number.                                           *)
(***************************************************************************)
EXTENDS Naturals, Sequences, FiniteSets

(* The names of versions: the stage is 0 for none, 1 for alpha, 2 for beta. *)
Names == [major : 1..9, stage : 0..2, n : 0..99]

Digits(n) == IF n < 10 THEN <<n>> ELSE <<n \div 10, n % 10>>

(* Strings compare by their first difference, and a prefix is less. *)
LexLess(s, t) ==
    \E k \in 1..Len(t) :
        /\ \A i \in 1..(k - 1) : i <= Len(s) /\ s[i] = t[i]
        /\ k > Len(s) \/ (k <= Len(s) /\ s[k] < t[k])

(* Only v1, v2, ... are semantic versions; v1beta2 is not. *)
Valid(v) == v.stage = 0

(* As strings, v2 < v2alpha1 < v2beta1 < v2beta10 < v2beta2.               *)
NameLess(v, w) ==
    \/ v.major < w.major
    \/ v.major = w.major /\ v.stage < w.stage
    \/ v.major = w.major /\ v.stage = w.stage /\ LexLess(Digits(v.n), Digits(w.n))

(* semver.Sort: an invalid name is less than a valid one, invalid names    *)
(* are equal to each other, and equal names are compared as strings.       *)
SemverLess(v, w) ==
    \/ ~Valid(v) /\ Valid(w)
    \/ Valid(v) = Valid(w) /\ NameLess(v, w)

(* The names in the order of semver.Sort. *)
SortedNames(docs) ==
    LET names == {docs[i].version : i \in DOMAIN docs}
        Rank(v) == Cardinality({w \in names : SemverLess(w, v)}) + 1
    IN  [k \in DOMAIN docs |-> CHOOSE v \in names : Rank(v) = k]

Swap(docs, i, j) == [docs EXCEPT ![i] = docs[j], ![j] = docs[i]]

(* The inner loop: exchange place i with the first document named v. *)
Place(docs, i, v) ==
    Swap(docs, i, CHOOSE j \in DOMAIN docs :
                      /\ docs[j].version = v
                      /\ \A k \in 1..(j - 1) : docs[k].version # v)

(* Mutant: the names are sorted, the documents are not. *)
namesOnly(docs) == docs

(* The outer loop, over the sorted names. *)
sortVersions(docs) ==
    LET names == SortedNames(docs)
        after[i \in 0..Len(docs)] ==
            IF i = 0 THEN docs ELSE Place(after[i - 1], i, names[i])
    IN  after[Len(docs)]
=============================================================================
