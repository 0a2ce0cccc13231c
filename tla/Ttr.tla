-------------------------------- MODULE Ttr --------------------------------
(***************************************************************************)
(* The ttr command (cmd/ttr): discover the APIs of a cluster, list the     *)
(* managed resources of each, one API after the other, and report the time *)
(* to readiness of those that are ready and that a filter selects.  The    *)
(* resources change while they are listed.                                 *)
(***************************************************************************)
EXTENDS Naturals, Sequences

CONSTANTS
    APIs,         \* as discovered: [group, version, kind, namespaced, managed]
    Names,        \* names of resources
    FilterLists,  \* the filters to consider, sequences
    Bad           \* a filter that cannot be parsed

Any == ""  \* a missing entry of a filter, and the name that matches any

(* Without an expression for the name, a filter matches all of them. *)
AllNames == Names \cup {Any}

(* A filter has the names that its expression matches. *)
IsFilter(e) ==
    /\ DOMAIN e = {"group", "version", "kind", "name"}
    /\ e.name \subseteq AllNames

ASSUME APIsAssumption ==
    APIs \in Seq([group : STRING, version : STRING, kind : STRING,
                  namespaced : BOOLEAN, managed : BOOLEAN])

ASSUME NamesAssumption == Any \notin Names

ASSUME FiltersAssumption ==
    \A fs \in FilterLists : \A i \in DOMAIN fs : fs[i] = Bad \/ IsFilter(fs[i])

(* An object is served in every version of its API. *)
Objects == {<<APIs[i].group, APIs[i].kind, n>> : i \in DOMAIN APIs, n \in Names}

Object(a, n) == <<a.group, a.kind, n>>

VARIABLES
    filters,   \* the values of --filters
    state,     \* each object: "Absent", "Unready" or "Ready"
    status,    \* "idle", "walk", or how the command ended
    next,      \* the index of the API to look at
    reported,  \* the lines that were printed: API and name
    steady,    \* objects that have been ready ever since the discovery
    ever       \* objects that have been ready at any time since

vars == <<filters, state, status, next, reported, steady, ever>>

Init ==
    /\ filters \in FilterLists
    /\ state \in [Objects -> {"Absent", "Unready", "Ready"}]
    /\ status = "idle"
    /\ next = 1
    /\ reported = {} /\ steady = {} /\ ever = {}

-----------------------------------------------------------------------------
(* filter.go *)

(* Mutant: the version of a filter is not looked at. *)
matchGroupKind(e, a) == e.group \in {Any, a.group} /\ e.kind \in {Any, a.kind}

matchGVK(e, a) ==
    /\ e.group \in {Any, a.group}
    /\ e.version \in {Any, a.version}
    /\ e.kind \in {Any, a.kind}

(* Mutant: the empty name is one like any other. *)
matchAnyName(a, name) ==
    \/ filters = <<>>
    \/ \E i \in DOMAIN filters : matchGVK(filters[i], a) /\ name \in filters[i].name

(* For the empty name: whether some name may match. *)
match(a, name) ==
    \/ filters = <<>>
    \/ \E i \in DOMAIN filters :
         /\ matchGVK(filters[i], a)
         /\ name = Any \/ name \in filters[i].name

(* getFilters *)
Parsed == \A i \in DOMAIN filters : filters[i] # Bad

-----------------------------------------------------------------------------
(* report and reportOnAPIs *)

Discover ==
    /\ status = "idle" /\ Parsed
    /\ status' = "walk"
    /\ steady' = {o \in Objects : state[o] = "Ready"}
    /\ ever' = steady'
    /\ UNCHANGED <<filters, state, next, reported>>

(* No client, no discovery, or a filter that is wrong. *)
DiscoverFails ==
    /\ status = "idle"
    /\ status' = "failed"
    /\ UNCHANGED <<filters, state, next, reported, steady, ever>>

Looking == status = "walk" /\ next \in DOMAIN APIs

(* Mutant: the categories of an API are not looked at. *)
AnyCategory(a) == ~a.namespaced

(* Managed resources in namespaces are passed over (93), although the      *)
(* command is said to report on all managed resources (15-16, 38).         *)
ClusterScoped(a) == ~a.namespaced /\ a.managed

ToList(a) == ClusterScoped(a) /\ match(a, Any)

PassOver ==
    /\ Looking /\ ~ToList(APIs[next])
    /\ next' = next + 1
    /\ UNCHANGED <<filters, state, status, reported, steady, ever>>

(* Mutant: whatever has a status is reported. *)
PresentItem(o) == state[o] # "Absent"

(* reportTTR; a status that cannot be read has no Ready condition. *)
IsReady(o) == state[o] = "Ready"

(* The list is a snapshot, and all of it is reported. *)
List ==
    /\ Looking /\ ToList(APIs[next])
    /\ reported' = reported \cup
         {<<next, n>> : n \in {n \in Names : /\ match(APIs[next], n)
                                             /\ IsReady(Object(APIs[next], n))}}
    /\ next' = next + 1
    /\ UNCHANGED <<filters, state, status, steady, ever>>

(* The API is not served any more, or the request fails: the rest of the   *)
(* APIs is not reported.                                                   *)
ListFails ==
    /\ Looking /\ ToList(APIs[next])
    /\ status' = "failed"
    /\ UNCHANGED <<filters, state, next, reported, steady, ever>>

Finish ==
    /\ status = "walk" /\ next \notin DOMAIN APIs
    /\ status' = "ok"
    /\ UNCHANGED <<filters, state, next, reported, steady, ever>>

(* A resource is created, deleted, or changes its readiness. *)
Change(o) ==
    /\ status = "walk"
    /\ \E s \in {"Absent", "Unready", "Ready"} \ {state[o]} :
         /\ state' = [state EXCEPT ![o] = s]
         /\ ever' = IF s = "Ready" THEN ever \cup {o} ELSE ever
    /\ steady' = steady \ {o}
    /\ UNCHANGED <<filters, status, next, reported>>

Done == status \in {"ok", "failed"} /\ UNCHANGED vars

Next ==
    \/ Discover \/ DiscoverFails \/ PassOver \/ List \/ ListFails \/ Finish
    \/ \E o \in Objects : Change(o)
    \/ Done

Spec == Init /\ [][Next]_vars

-----------------------------------------------------------------------------
(* Properties. *)

TypeOK ==
    /\ filters \in FilterLists
    /\ state \in [Objects -> {"Absent", "Unready", "Ready"}]
    /\ status \in {"idle", "walk", "ok", "failed"}
    /\ next \in 1..Len(APIs) + 1
    /\ status = "idle" => next = 1
    /\ status = "walk" => Parsed
    /\ \A line \in reported :
         /\ line[1] \in 1..next - 1 /\ line[2] \in Names
         /\ APIs[line[1]].managed
    /\ steady \subseteq ever /\ ever \subseteq Objects

(* What --filters asks for: "[group]/[version]/[kind]/[name regex]". *)
Selected(a, n) ==
    filters # <<>> => \E i \in DOMAIN filters :
        /\ \A part \in {"group", "version", "kind"} : filters[i][part] \in {Any, a[part]}
        /\ n \in filters[i].name

(***************************************************************************)
(* A command that succeeds has missed no managed resource of the cluster-  *)
(* scoped APIs, under none of the versions that serve it, that was ready   *)
(* all the time and is selected: no API is skipped for which only the name *)
(* was to decide (main.go:90-139, filter.go:33-51).  Resources in          *)
(* namespaces are never listed (93) and are not promised here, whatever    *)
(* lines 15-16 and 38 say of all managed resources.                        *)
(***************************************************************************)
NoneMissed ==
    status = "ok" =>
        \A i \in DOMAIN APIs, n \in Names :
            /\ APIs[i].managed /\ ~APIs[i].namespaced
            /\ Selected(APIs[i], n)
            /\ Object(APIs[i], n) \in steady
            => <<i, n>> \in reported

(***************************************************************************)
(* What is printed, by a command that fails, too, was selected and was     *)
(* ready at some time of the run, however the resources change between the *)
(* lists (main.go:121-157).                                                *)
(***************************************************************************)
OnlySelected ==
    \A line \in reported :
        LET a == APIs[line[1]]
        IN  Selected(a, line[2]) /\ Object(a, line[2]) \in ever
=============================================================================
