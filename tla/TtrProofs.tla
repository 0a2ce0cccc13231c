------------------------------ MODULE TtrProofs ------------------------------
(***************************************************************************)
(* Proofs about Ttr for any APIs, names and filters, and resources that    *)
(* change in any way.                                                      *)
(***************************************************************************)
EXTENDS Ttr, SequenceTheorems, TLAPS

LEMMA TypeNext ==
  ASSUME TypeOK, [Next]_vars
  PROVE  TypeOK'
<1> USE DEF TypeOK
<1>1. Len(APIs) \in Nat /\ DOMAIN APIs = 1..Len(APIs)
  BY LenProperties, APIsAssumption
<1>2. CASE Discover
  BY <1>2 DEF Discover, Parsed
<1>3. CASE DiscoverFails \/ ListFails \/ Finish
  BY <1>3 DEF DiscoverFails, ListFails, Finish, Looking, Parsed
<1>4. ASSUME Looking, next' = next + 1 PROVE next' \in 1..Len(APIs) + 1
  BY <1>1, <1>4 DEF Looking
<1>5. CASE PassOver
  BY <1>1, <1>4, <1>5 DEF PassOver, Looking, Parsed
<1>6. CASE List
  <2>1. /\ next \in 1..Len(APIs) /\ next' = next + 1
        /\ APIs[next].managed
    BY <1>1, <1>6 DEF List, Looking, ToList, ClusterScoped
  <2>2. ASSUME NEW line \in reported'
        PROVE  line \in reported \/ (line[1] = next /\ line[2] \in Names)
    <3>1. line \in reported \/ \E n \in Names : line = <<next, n>>
      BY <1>6 DEF List
    <3> QED
      BY <3>1
  <2>3. \A line \in reported' :
          /\ line[1] \in 1..next' - 1 /\ line[2] \in Names
          /\ APIs[line[1]].managed
    BY <2>1, <2>2
  <2> QED
    BY <1>4, <1>6, <2>3 DEF List, Looking, Parsed
<1>7. ASSUME NEW o \in Objects, Change(o) PROVE TypeOK'
  BY <1>7 DEF Change, Parsed
<1>8. CASE Done \/ UNCHANGED vars
  BY <1>8 DEF Done, vars, Parsed
<1> QED
  BY <1>2, <1>3, <1>5, <1>6, <1>7, <1>8 DEF Next

LEMMA TypeInit == Init => TypeOK
BY LenProperties, APIsAssumption DEF Init, TypeOK

(***************************************************************************)
(* Only managed resources are ever reported, and of APIs that have been    *)
(* looked at.                                                              *)
(***************************************************************************)
THEOREM TypeCorrect == Spec => []TypeOK
<1>1. Init => TypeOK
  BY TypeInit
<1>2. TypeOK /\ [Next]_vars => TypeOK'
  BY TypeNext
<1> QED
  BY <1>1, <1>2, PTL DEF Spec

-----------------------------------------------------------------------------
(* The code and the properties agree on what is selected, and the first    *)
(* filter, of the API alone, refuses nothing that the second one accepts.  *)
LEMMA MatchIsSelected ==
  ASSUME NEW a, NEW n \in Names
  PROVE  /\ match(a, n) <=> Selected(a, n)
         /\ match(a, n) => match(a, Any)
<1>1. n # Any
  BY NamesAssumption
<1>2. ASSUME NEW i \in DOMAIN filters
      PROVE  matchGVK(filters[i], a) <=>
               \A part \in {"group", "version", "kind"} : filters[i][part] \in {Any, a[part]}
  BY DEF matchGVK
<1> QED
  BY <1>1, <1>2 DEF match, Selected

(* Of the APIs that have been looked at, no resource is missed. *)
SoFar ==
    \A i \in DOMAIN APIs, n \in Names :
        /\ i < next
        /\ APIs[i].managed /\ ~APIs[i].namespaced
        /\ Selected(APIs[i], n)
        /\ Object(APIs[i], n) \in steady
        => <<i, n>> \in reported

(* What has been ready since the discovery is. *)
SteadyReady ==
    /\ \A o \in steady : state[o] = "Ready"
    /\ status \in {"walk", "ok"} => \A o \in Objects : state[o] = "Ready" => o \in ever
    /\ status = "idle" => reported = {}
    /\ status = "ok" => next \notin DOMAIN APIs

LEMMA ObjectOfAPI ==
  ASSUME NEW i \in DOMAIN APIs, NEW n \in Names
  PROVE  Object(APIs[i], n) \in Objects
BY DEF Object, Objects

LEMMA SteadyNext ==
  ASSUME TypeOK, SteadyReady, [Next]_vars
  PROVE  SteadyReady'
<1> USE DEF TypeOK, SteadyReady
<1>1. CASE Discover
  BY <1>1 DEF Discover
<1>2. CASE DiscoverFails \/ PassOver \/ List \/ ListFails \/ Finish
  BY <1>2 DEF DiscoverFails, PassOver, List, ListFails, Finish, Looking
<1>3. ASSUME NEW o \in Objects, Change(o) PROVE SteadyReady'
  BY <1>3 DEF Change
<1>4. CASE Done \/ UNCHANGED vars
  BY <1>4 DEF Done, vars
<1> QED
  BY <1>1, <1>2, <1>3, <1>4 DEF Next

LEMMA SoFarNext ==
  ASSUME TypeOK, SteadyReady, SoFar, [Next]_vars
  PROVE  SoFar'
<1>1. Len(APIs) \in Nat /\ DOMAIN APIs = 1..Len(APIs)
  BY LenProperties, APIsAssumption
<1> SUFFICES ASSUME NEW i \in DOMAIN APIs, NEW n \in Names, i < next',
                    APIs[i].managed, ~APIs[i].namespaced,
                    Selected(APIs[i], n)', Object(APIs[i], n) \in steady'
             PROVE  <<i, n>> \in reported'
  BY DEF SoFar, Object
<1>2. filters' = filters
  BY DEF Next, Discover, DiscoverFails, PassOver, List, ListFails, Finish, Change,
     Done, vars
<1>3. Selected(APIs[i], n) /\ match(APIs[i], n) /\ match(APIs[i], Any)
  BY <1>2, MatchIsSelected DEF Selected
<1>4. CASE Discover
  BY <1>1, <1>4 DEF Discover, TypeOK
<1>5. CASE PassOver
  <2>1. i # next
    BY <1>3, <1>5 DEF PassOver, ToList, ClusterScoped
  <2>2. i < next
    BY <1>1, <1>5, <2>1 DEF PassOver, TypeOK
  <2> QED
    BY <1>3, <1>5, <2>2 DEF PassOver, SoFar
<1>6. CASE List
  <2>1. CASE i = next
    <3>1. state[Object(APIs[i], n)] = "Ready"
      BY <1>6 DEF List, SteadyReady
    <3> QED
      BY <1>3, <1>6, <2>1, <3>1 DEF List, IsReady
  <2>2. CASE i # next
    <3>1. i < next
      BY <1>1, <1>6, <2>2 DEF List, TypeOK
    <3> QED
      BY <1>3, <1>6, <3>1 DEF List, SoFar
  <2> QED
    BY <2>1, <2>2
<1>7. CASE DiscoverFails \/ ListFails \/ Finish \/ Done \/ UNCHANGED vars
  BY <1>3, <1>7 DEF DiscoverFails, ListFails, Finish, Done, vars, SoFar
<1>8. ASSUME NEW o \in Objects, Change(o) PROVE <<i, n>> \in reported'
  BY <1>3, <1>8 DEF Change, SoFar
<1> QED
  BY <1>4, <1>5, <1>6, <1>7, <1>8 DEF Next

(***************************************************************************)
(* A successful command reports every selected resource of the cluster-    *)
(* scoped APIs that was ready all the time, under each version: the filter *)
(* that spares the list of an API never loses one, for any filters         *)
(* (main.go:90-139, filter.go:33-51).                                      *)
(***************************************************************************)
THEOREM ReportsAll == Spec => []NoneMissed
<1>1. Init => SteadyReady /\ SoFar
  BY DEF Init, SteadyReady, SoFar
<1>2. TypeOK /\ SteadyReady /\ [Next]_vars => SteadyReady'
  BY SteadyNext
<1>3. TypeOK /\ SteadyReady /\ SoFar /\ [Next]_vars => SoFar'
  BY SoFarNext
<1>4. TypeOK /\ SteadyReady /\ SoFar => NoneMissed
  <2> SUFFICES ASSUME TypeOK, SteadyReady, SoFar, status = "ok", NEW i \in DOMAIN APIs
               PROVE  i < next
    BY DEF NoneMissed, SoFar
  <2>1. Len(APIs) \in Nat /\ DOMAIN APIs = 1..Len(APIs)
    BY LenProperties, APIsAssumption
  <2> QED
    BY <2>1 DEF TypeOK, SteadyReady
<1> QED
  BY <1>1, <1>2, <1>3, <1>4, TypeCorrect, PTL DEF Spec

-----------------------------------------------------------------------------
LEMMA OnlySelectedNext ==
  ASSUME TypeOK, SteadyReady, OnlySelected, [Next]_vars
  PROVE  OnlySelected'
<1>1. filters' = filters
  BY DEF Next, Discover, DiscoverFails, PassOver, List, ListFails, Finish, Change,
     Done, vars
<1> SUFFICES ASSUME NEW line \in reported'
             PROVE  /\ Selected(APIs[line[1]], line[2])
                    /\ Object(APIs[line[1]], line[2]) \in ever'
  BY <1>1 DEF OnlySelected, Selected, Object
<1>2. CASE List
  <2>1. CASE line \in reported
    BY <1>2, <2>1 DEF List, OnlySelected
  <2>2. CASE line \notin reported
    <3>1. PICK n \in Names : /\ line = <<next, n>> /\ match(APIs[next], n)
                             /\ IsReady(Object(APIs[next], n))
      BY <1>2, <2>2 DEF List
    <3>2. Selected(APIs[next], n)
      BY <3>1, MatchIsSelected
    <3>3. Object(APIs[next], n) \in ever'
      BY <1>2, <3>1, ObjectOfAPI DEF List, Looking, IsReady, SteadyReady
    <3> QED
      BY <3>1, <3>2, <3>3
  <2> QED
    BY <2>1, <2>2
<1>3. CASE Discover
  BY <1>3 DEF Discover, SteadyReady
<1>4. CASE reported' = reported /\ ever \subseteq ever'
  BY <1>4 DEF OnlySelected
<1> QED
  BY <1>2, <1>3, <1>4 DEF Next, DiscoverFails, PassOver, ListFails, Finish, Change,
     Done, vars

(***************************************************************************)
(* Nothing is reported that was not selected or was never ready during the *)
(* run, whether it succeeds or fails.                                      *)
(***************************************************************************)
THEOREM ReportsOnlySelected == Spec => []OnlySelected
<1>1. Init => SteadyReady /\ OnlySelected
  BY DEF Init, SteadyReady, OnlySelected
<1>2. TypeOK /\ SteadyReady /\ [Next]_vars => SteadyReady'
  BY SteadyNext
<1>3. TypeOK /\ SteadyReady /\ OnlySelected /\ [Next]_vars => OnlySelected'
  BY OnlySelectedNext
<1> QED
  BY <1>1, <1>2, <1>3, TypeCorrect, PTL DEF Spec
=============================================================================
