------------------------------ MODULE Experiment ------------------------------
(***************************************************************************)
(* RunExperiment of cmd/perf/internal/managed/managed.go: deploy managed   *)
(* resources (MRs) from templates with kubectl, poll until they are ready, *)
(* measure their time to readiness, and delete them.  The Kubernetes API   *)
(* server, the provider that reconciles the MRs and the other users of the *)
(* cluster are the environment.                                            *)
(***************************************************************************)
EXTENDS Naturals, Sequences, FiniteSets

CONSTANTS
    Templates,  \* paths of the templates (the keys of --mrs)
    KindOf,     \* the kind of the MR in each template
    Count,      \* how many MRs of each template to deploy (the values of --mrs)
    Clean,      \* --clean: delete what was deployed
    Intervals,  \* whether --apply-interval is not 0: the values to consider
    Foreign,    \* MRs of the same kinds that other users create and delete
    Statuses,   \* what the Ready condition of an MR may look like
    Stable,     \* whether an MR that became ready stays ready
    Faults      \* whether reads, lists and kubectl may fail: the values to consider

Kinds == {KindOf[t] : t \in Templates}

(* An MR is identified by its kind and its name, "testperfrun<i>". *)
MR(t, i) == <<KindOf[t], i>>

Own(t) == {MR(t, i) : i \in 1..Count[t]}

Owned == UNION {Own(t) : t \in Templates}

MRs == Owned \cup Foreign

ASSUME TemplatesAssumption ==
    /\ Templates # {}
    /\ IsFiniteSet(Templates)
    /\ Count \in [Templates -> Nat \ {0}]

ASSUME ForeignAssumption ==
    /\ Foreign \subseteq Kinds \X Nat
    /\ Foreign \cap Owned = {}

ASSUME StatusesAssumption ==
    /\ Statuses \subseteq
         {"NoStatus", "NoConditions", "NoReady", "False", "Unknown", "True"}
    /\ {"NoStatus", "True"} \subseteq Statuses

ASSUME FlagsAssumption ==
    /\ {Clean, Stable} \subseteq BOOLEAN
    /\ Intervals \subseteq BOOLEAN
    /\ Faults \subseteq BOOLEAN

VARIABLES
    interval,  \* whether --apply-interval is not 0
    faults,    \* whether reads, lists and kubectl may fail in this run
    pc,        \* the phase of RunExperiment
    todo,      \* templates that the loop of this phase still has to process
    applied,   \* MRs of each template applied so far (--apply-interval only)
    tmpFiles,  \* the temporary manifest files, each a set of MRs
    measured,  \* MRs that contributed a time to readiness, per template
    cluster    \* the Ready condition of every MR, or "Absent"

run == <<interval, faults, pc, todo, applied, tmpFiles, measured>>
vars == <<interval, faults, pc, todo, applied, tmpFiles, measured, cluster>>

Ended == pc \in {"returned", "failed", "panicked", "died"}

TypeOK ==
    /\ interval \in Intervals
    /\ faults \in Faults
    /\ pc \in {"apply", "check", "calculate", "clean",
               "returned", "failed", "panicked", "died"}
    /\ todo \subseteq Templates
    /\ applied \in [Templates -> Nat]
    /\ tmpFiles \in Seq(SUBSET Owned)
    /\ measured \in [Templates -> SUBSET MRs]
    /\ cluster \in [MRs -> Statuses \cup {"Absent"}]

(* An earlier run may have left MRs behind: see failed and Quantify. *)
Init ==
    /\ interval \in Intervals
    /\ faults \in Faults
    /\ pc = "apply"
    /\ todo = Templates
    /\ applied = [t \in Templates |-> 0]
    /\ tmpFiles = <<>>
    /\ measured = [t \in Templates |-> {}]
    /\ cluster \in [MRs -> Statuses \cup {"Absent"}]

-----------------------------------------------------------------------------
(* The API server, as kubectl and the dynamic client use it. *)

(* kubectl apply -f: create what is missing, reconfigure the rest. *)
KubectlApply(ms) ==
    cluster' = [m \in MRs |-> IF m \in ms /\ cluster[m] = "Absent"
                              THEN "NoStatus" ELSE cluster[m]]

(* kubectl delete -f: waits until the finalizers are done. *)
KubectlDelete(ms) ==
    cluster' = [m \in MRs |-> IF m \in ms THEN "Absent" ELSE cluster[m]]

Present(m) == cluster[m] # "Absent"

(* The client lists every MR of the kind, whoever created it. *)
List(t) == {m \in MRs : m[1] = KindOf[t] /\ Present(m)}

-----------------------------------------------------------------------------
(* applyResources *)

Goto(phase) ==
    /\ pc' = phase
    /\ todo' = Templates
    /\ UNCHANGED <<interval, faults, applied, tmpFiles, measured, cluster>>

Stop(outcome) ==
    /\ pc' = outcome
    /\ UNCHANGED <<interval, faults, todo, applied, tmpFiles, measured>>

(* createDynamicClient ends the process if there is no cluster to talk to, *)
(* before anything is applied.                                             *)
NoClient ==
    /\ faults
    /\ pc = "apply" /\ todo = Templates /\ tmpFiles = <<>>
    /\ Stop("died")
    /\ UNCHANGED cluster

(* Mutant: the file of --apply-interval is created outside the loop too. *)
AnyFileClosed == tmpFiles # <<>>

(* One file for all templates; runApplyCommand closes it before kubectl. *)
BatchFileClosed == ~interval /\ tmpFiles # <<>>

(* --apply-interval 0: all MRs of a template in one kubectl apply. *)
ApplyBatch(t) ==
    /\ pc = "apply" /\ ~interval /\ t \in todo
    /\ ~BatchFileClosed
    /\ KubectlApply(Own(t))
    /\ tmpFiles' = <<Own(t)>>
    /\ todo' = todo \ {t}
    /\ UNCHANGED <<interval, faults, pc, applied, measured>>

(* The manifests of the next template go to the file that was closed. *)
WriteAfterClose(t) ==
    /\ pc = "apply" /\ t \in todo
    /\ BatchFileClosed
    /\ Stop("failed")
    /\ UNCHANGED cluster

(* The loop finishes a template before it starts another one. *)
Current(t) == t \in todo /\ \A u \in todo \ {t} : applied[u] = 0

(* Mutant: one MR too many. *)
LastPlusOne(t, i) == i > Count[t]

Last(t, i) == i >= Count[t]

(* Mutant: the append sits in the "if" that guards the sleep. *)
RecordAllButLast(t, i) ==
    IF Last(t, i) THEN tmpFiles ELSE Append(tmpFiles, {MR(t, i)})

(* The file name is appended after the sleep that the last MR skips. *)
Record(t, i) == Append(tmpFiles, {MR(t, i)})

(* --apply-interval d: a file and a kubectl apply for every MR. *)
ApplyOne(t) ==
    /\ pc = "apply" /\ interval /\ Current(t)
    /\ LET i == applied[t] + 1 IN
         /\ KubectlApply({MR(t, i)})
         /\ tmpFiles' = Record(t, i)
         /\ applied' = [applied EXCEPT ![t] = i]
         /\ todo' = IF Last(t, i) THEN todo \ {t} ELSE todo
    /\ UNCHANGED <<interval, faults, pc, measured>>

ApplyDone == pc = "apply" /\ todo = {} /\ Goto("check")

-----------------------------------------------------------------------------
(* checkReadiness: poll each template's kind until isReady. *)

(* Mutant: an MR without a status is skipped. *)
isReadyIfNoStatus(items) ==
    \A m \in items : cluster[m] \notin {"NoConditions", "NoReady", "False"}

(* Mutant: an MR without a Ready condition is skipped. *)
isReadyIfNoReady(items) ==
    \A m \in items : cluster[m] \notin {"NoStatus", "NoConditions", "False"}

(* Mutant: only Ready=True counts. *)
isReadyIfTrue(items) == \A m \in items : cluster[m] = "True"

(* isReady: only a missing status, no Ready condition and "False" count. *)
isReady(items) ==
    \A m \in items :
        cluster[m] \notin {"NoStatus", "NoConditions", "NoReady", "False"}

CheckReadiness(t) ==
    /\ pc = "check" /\ t \in todo
    /\ isReady(List(t))
    /\ todo' = todo \ {t}
    /\ UNCHANGED <<interval, faults, pc, applied, tmpFiles, measured, cluster>>

(* Not ready: sleep for ten seconds and poll again. *)
Sleep(t) ==
    /\ pc = "check" /\ t \in todo
    /\ \E m \in List(t) : cluster[m] \in {"NoStatus", "NoReady", "False"}
    /\ UNCHANGED vars

CheckDone == pc = "check" /\ todo = {} /\ Goto("calculate")

(* A type assertion on an absent status or on absent conditions panics. *)
Panic(t) ==
    /\ t \in todo
    /\ \E m \in List(t) :
         \/ pc \in {"check", "calculate"} /\ cluster[m] = "NoConditions"
         \/ pc = "calculate" /\ cluster[m] = "NoStatus"
    /\ Stop("panicked")
    /\ UNCHANGED cluster

-----------------------------------------------------------------------------
(* calculateReadinessDuration: list again, measure what is Ready=True. *)

CalculateReadiness(t) ==
    /\ pc = "calculate" /\ t \in todo
    /\ \A m \in List(t) : cluster[m] \notin {"NoStatus", "NoConditions"}
    /\ measured' = [measured EXCEPT
                      ![t] = {m \in List(t) : cluster[m] = "True"}]
    /\ todo' = todo \ {t}
    /\ UNCHANGED <<interval, faults, pc, applied, tmpFiles, cluster>>

CalculateDone ==
    /\ pc = "calculate" /\ todo = {}
    /\ Goto(IF Clean THEN "clean" ELSE "returned")

-----------------------------------------------------------------------------
(* deleteResources for each file, in the order of tmpFiles. *)

DeleteFile ==
    /\ pc = "clean" /\ tmpFiles # <<>>
    /\ \A m \in Head(tmpFiles) : Present(m)
    /\ KubectlDelete(Head(tmpFiles))
    /\ tmpFiles' = Tail(tmpFiles)
    /\ UNCHANGED <<interval, faults, pc, todo, applied, measured>>

DeleteDone == pc = "clean" /\ tmpFiles = <<>> /\ Goto("returned")

-----------------------------------------------------------------------------
(* Failing calls: each one makes RunExperiment return its error. *)

(* A template cannot be read, a file created, or a kind listed. *)
CallFails ==
    /\ faults
    /\ pc \in {"apply", "check", "calculate"} /\ todo # {}
    /\ Stop("failed")
    /\ UNCHANGED cluster

(* kubectl exits with an error after it applied part of a file. *)
ApplyFails(t) ==
    /\ faults
    /\ pc = "apply" /\ Current(t) /\ ~BatchFileClosed
    /\ \E ms \in SUBSET (IF interval THEN {MR(t, applied[t] + 1)} ELSE Own(t)) :
         KubectlApply(ms)
    /\ Stop("failed")

(* kubectl exits with an error after it deleted part of a file.  Without a *)
(* fault it deletes what it finds, and reports NotFound for the rest.      *)
DeleteFails ==
    /\ pc = "clean" /\ tmpFiles # <<>>
    /\ \E ms \in SUBSET Head(tmpFiles) :
         /\ ~faults => ms = Head(tmpFiles) /\ \E m \in ms : ~Present(m)
         /\ KubectlDelete(ms)
    /\ Stop("failed")

RunExperiment ==
    \/ \E t \in Templates :
         \/ ApplyBatch(t) \/ WriteAfterClose(t) \/ ApplyOne(t) \/ ApplyFails(t)
         \/ CheckReadiness(t) \/ Sleep(t) \/ CalculateReadiness(t) \/ Panic(t)
    \/ ApplyDone \/ CheckDone \/ CalculateDone
    \/ DeleteFile \/ DeleteFails \/ DeleteDone
    \/ NoClient \/ CallFails

-----------------------------------------------------------------------------
(* The environment. *)

(* The provider writes a status.  It never takes back the conditions.  No *)
(* one but the experiment deletes its MRs.                                *)
Reconcile(m) ==
    /\ Present(m)
    /\ Stable => cluster[m] # "True"
    /\ \E s \in Statuses \ {"NoStatus"} :
         /\ s = "NoConditions" => cluster[m] = "NoStatus"
         /\ cluster' = [cluster EXCEPT ![m] = s]
    /\ UNCHANGED run

ForeignCreate(m) == ~Present(m) /\ KubectlApply({m}) /\ UNCHANGED run

ForeignDelete(m) == Present(m) /\ KubectlDelete({m}) /\ UNCHANGED run

Environment ==
    \/ \E m \in MRs : Reconcile(m)
    \/ \E m \in Foreign : ForeignCreate(m) \/ ForeignDelete(m)

Done == Ended /\ UNCHANGED vars

Next == RunExperiment \/ Environment \/ Done

(* The goroutine keeps running.  Nothing is assumed of the environment. *)
Spec == Init /\ [][Next]_vars /\ WF_vars(RunExperiment)

-----------------------------------------------------------------------------
(* Properties. *)

(***************************************************************************)
(* A run with --clean that returns results leaves none of its MRs behind,  *)
(* leftovers of an earlier run with the same names included (71-79).       *)
(***************************************************************************)
DeletedWhenReturned ==
    pc = "returned" /\ Clean => \A m \in Owned : ~Present(m)

(***************************************************************************)
(* The results cover every deployed MR: what isReady waited for is what    *)
(* calculateReadinessDuration finds when it lists again (184-205, 227-247; *)
(* the comment of lines 50-51).  Readiness is checked per kind and listed  *)
(* anew: an MR that stops being ready in between is not measured, and one  *)
(* whose Ready is Unknown counts as ready but is not measured, so it takes *)
(* MRs that stay ready (Stable) and no Unknown.                            *)
(***************************************************************************)
EveryMRMeasured ==
    pc = "returned" => \A t \in Templates : Own(t) \subseteq measured[t]

(***************************************************************************)
(* The type assertions of lines 195 and 230 find what they assert in every *)
(* MR of the experiment whose status has conditions.  What panics the      *)
(* process is a status without conditions, or an MR of these kinds that    *)
(* someone else creates after the check and that has no status yet when    *)
(* the kind is listed again.                                               *)
(***************************************************************************)
PanicHasReason ==
    [][pc # "panicked" /\ pc' = "panicked" =>
         \E m \in MRs : \/ cluster[m] = "NoConditions"
                        \/ m \in Foreign /\ cluster[m] = "NoStatus"]_vars

(***************************************************************************)
(* Without a failing call the experiment fails in one place only: without  *)
(* --apply-interval, when a template after the first is written to the     *)
(* file that runApplyCommand has closed (84-104).  The example of          *)
(* quantify.go:59-60, two templates and the default interval of 0, fails   *)
(* there.  Everywhere else each file is open when it is written, and holds *)
(* MRs that still exist when it is deleted (73-77, 105-130).               *)
(***************************************************************************)
FaultFreeReturns ==
    ~faults /\ pc = "failed" => ~interval /\ todo \notin {{}, Templates}

(***************************************************************************)
(* The polling loop has no timeout of its own (175-185), but it ends, and  *)
(* RunExperiment with it, once every MR of the kinds is and stays ready    *)
(* or of unknown readiness.                                                *)
(***************************************************************************)
EndsIfReady ==
    <>[](\A m \in MRs : cluster[m] \in {"Absent", "Unknown", "True"}) => <>Ended
=============================================================================
