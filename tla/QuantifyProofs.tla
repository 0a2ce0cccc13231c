--------------------------- MODULE QuantifyProofs ---------------------------
(***************************************************************************)
(* Proofs about Experiment and about Quantify, the command around it, for  *)
(* any templates, counts and flags, and any provider and users of the      *)
(* cluster: first what holds of the experiment by itself, then that Run's  *)
(* two receives fit together, and what it reports is complete.             *)
(***************************************************************************)
EXTENDS Quantify, SequenceTheorems, TLAPS

LEMMA OwnIsOwned ==
  ASSUME NEW t \in Templates
  PROVE  Own(t) \subseteq Owned /\ Own(t) \subseteq MRs /\ Owned \subseteq MRs
BY DEF Owned, MRs

LEMMA MRIsOwn ==
  ASSUME NEW t \in Templates, NEW i \in 1..Count[t]
  PROVE  MR(t, i) \in Own(t) /\ MR(t, i) \in Owned
BY OwnIsOwned DEF Own

(* A template that is not done has an MR left to apply. *)
AppliedBound ==
    \A t \in Templates : applied[t] <= Count[t] /\ (t \in todo /\ pc = "apply" => applied[t] < Count[t])

LEMMA ClusterType ==
  ASSUME TypeOK, NEW ms
  PROVE  /\ KubectlApply(ms) => cluster' \in [MRs -> Statuses \cup {"Absent"}]
         /\ KubectlDelete(ms) => cluster' \in [MRs -> Statuses \cup {"Absent"}]
BY StatusesAssumption DEF TypeOK, KubectlApply, KubectlDelete

LEMMA TypeStep ==
  ASSUME TypeOK, AppliedBound, [Next]_vars
  PROVE  TypeOK' /\ AppliedBound'
<1> USE TemplatesAssumption
<1>1. ASSUME NEW t \in Templates, ApplyBatch(t) PROVE TypeOK' /\ AppliedBound'
  <2>1. <<Own(t)>> \in Seq(SUBSET Owned)
    BY OwnIsOwned
  <2> QED
    BY <1>1, <2>1, ClusterType DEF ApplyBatch, TypeOK, AppliedBound
<1>2. ASSUME NEW t \in Templates, ApplyOne(t) PROVE TypeOK' /\ AppliedBound'
  <2> DEFINE i == applied[t] + 1
  <2>1. i \in 1..Count[t] /\ Count[t] \in Nat
    BY <1>2 DEF ApplyOne, Current, AppliedBound, TypeOK
  <2>2. tmpFiles' = Append(tmpFiles, {MR(t, i)}) /\ {MR(t, i)} \in SUBSET Owned
    BY <1>2, <2>1, MRIsOwn DEF ApplyOne, Record
  <2>3. tmpFiles' \in Seq(SUBSET Owned)
    BY <2>2, AppendProperties DEF TypeOK
  <2>4. applied' \in [Templates -> Nat] /\ applied' = [applied EXCEPT ![t] = i]
    BY <1>2, <2>1 DEF ApplyOne, TypeOK
  <2>5. todo' \subseteq Templates /\ todo' \subseteq todo /\ (t \in todo' => i < Count[t])
    BY <1>2, <2>1 DEF ApplyOne, Last, TypeOK
  <2>6. TypeOK'
    BY <1>2, <2>3, <2>4, <2>5, ClusterType DEF ApplyOne, TypeOK
  <2>7. AppliedBound'
    BY <1>2, <2>1, <2>4, <2>5 DEF ApplyOne, TypeOK, AppliedBound
  <2> QED
    BY <2>6, <2>7
<1>3. ASSUME NEW t \in Templates,
             WriteAfterClose(t) \/ ApplyFails(t) \/ Panic(t)
      PROVE  TypeOK' /\ AppliedBound'
  BY <1>3, ClusterType DEF WriteAfterClose, ApplyFails, Panic, Stop, TypeOK, AppliedBound
<1>4. ASSUME NEW t \in Templates, CheckReadiness(t) \/ Sleep(t)
      PROVE  TypeOK' /\ AppliedBound'
  BY <1>4 DEF CheckReadiness, Sleep, TypeOK, AppliedBound, vars
<1>5. ASSUME NEW t \in Templates, CalculateReadiness(t) PROVE TypeOK' /\ AppliedBound'
  BY <1>5 DEF CalculateReadiness, TypeOK, AppliedBound, List
<1>6. CASE ApplyDone \/ CheckDone \/ CalculateDone \/ DeleteDone
  BY <1>6 DEF ApplyDone, CheckDone, CalculateDone, DeleteDone, Goto, TypeOK, AppliedBound
<1>7. CASE DeleteFile
  <2>1. tmpFiles' \in Seq(SUBSET Owned)
    BY <1>7, HeadTailProperties DEF DeleteFile, TypeOK
  <2> QED
    BY <1>7, <2>1, ClusterType DEF DeleteFile, TypeOK, AppliedBound
<1>8. CASE DeleteFails \/ NoClient \/ CallFails
  BY <1>8, ClusterType DEF DeleteFails, NoClient, CallFails, Stop, TypeOK, AppliedBound
<1>9. CASE Environment
  BY <1>9, ClusterType DEF Environment, Reconcile, ForeignCreate, ForeignDelete,
     run, TypeOK, AppliedBound
<1>10. CASE UNCHANGED vars
  BY <1>10 DEF vars, TypeOK, AppliedBound
<1> QED
  BY <1>1, <1>2, <1>3, <1>4, <1>5, <1>6, <1>7, <1>8, <1>9, <1>10
     DEF Next, RunExperiment, Done

(***************************************************************************)
(* TypeOK is an invariant: in particular the loop over the MRs of a        *)
(* template (112-127) never names an MR beyond its count.                  *)
(***************************************************************************)
THEOREM TypeCorrect == Spec => []TypeOK
<1>1. Init => TypeOK /\ AppliedBound
  BY TemplatesAssumption DEF Init, TypeOK, AppliedBound
<1>2. TypeOK /\ AppliedBound /\ [Next]_vars => TypeOK' /\ AppliedBound'
  BY TypeStep
<1> QED
  BY <1>1, <1>2, PTL DEF Spec

-----------------------------------------------------------------------------
(* The MRs that the temporary files name. *)
Filed == {m \in Owned : \E k \in 1..Len(tmpFiles) : m \in tmpFiles[k]}

LEMMA FiledAppend ==
  ASSUME TypeOK, NEW s \in SUBSET Owned, tmpFiles' = Append(tmpFiles, s)
  PROVE  Filed' = Filed \cup s
<1>1. /\ Len(tmpFiles') = Len(tmpFiles) + 1 /\ Len(tmpFiles) \in Nat
      /\ \A k \in 1..Len(tmpFiles) : tmpFiles'[k] = tmpFiles[k]
      /\ tmpFiles'[Len(tmpFiles) + 1] = s
  BY AppendProperties DEF TypeOK
<1> QED
  BY <1>1 DEF Filed

LEMMA FiledTail ==
  ASSUME TypeOK, tmpFiles # <<>>, tmpFiles' = Tail(tmpFiles)
  PROVE  Filed \subseteq Head(tmpFiles) \cup Filed'
<1>1. /\ Len(tmpFiles') = Len(tmpFiles) - 1 /\ Len(tmpFiles) \in Nat
      /\ \A k \in 1..Len(tmpFiles') : tmpFiles'[k] = tmpFiles[k + 1]
      /\ Head(tmpFiles) = tmpFiles[1]
  BY HeadTailProperties DEF TypeOK
<1>2. ASSUME NEW m \in Filed, m \notin Head(tmpFiles) PROVE m \in Filed'
  <2>1. PICK k \in 1..Len(tmpFiles) : m \in tmpFiles[k]
    BY <1>2 DEF Filed
  <2>2. k # 1 /\ k - 1 \in 1..Len(tmpFiles') /\ tmpFiles'[k - 1] = tmpFiles[k]
    BY <1>1, <1>2, <2>1
  <2> QED
    BY <1>2, <2>1, <2>2 DEF Filed
<1> QED
  BY <1>2

LEMMA FiledEmpty == tmpFiles = <<>> => Filed = {}
BY DEF Filed

(***************************************************************************)
(* How far each phase has got: what is applied is in a file and exists,    *)
(* what is not yet deleted is still in a file.                             *)
(***************************************************************************)
Applying ==
    pc = "apply" =>
        /\ \A t \in Templates \ todo : Own(t) \subseteq Filed
        /\ interval => \A t \in Templates : \A i \in 1..applied[t] : MR(t, i) \in Filed
        /\ \A m \in Filed : Present(m)

Deployed ==
    pc \in {"check", "calculate"} =>
        Owned \subseteq Filed /\ \A m \in Owned : Present(m)

Deleting == pc = "clean" => \A m \in Owned : Present(m) => m \in Filed

CInv == TypeOK /\ AppliedBound /\ Applying /\ Deployed /\ Deleting /\ DeletedWhenReturned

(* What the environment does leaves the experiment's MRs where they are. *)
LEMMA EnvironmentKeeps ==
  ASSUME TypeOK, Environment, NEW m \in Owned
  PROVE  /\ Present(m)' <=> Present(m)
         /\ Stable /\ cluster[m] = "True" => cluster'[m] = "True"
BY ForeignAssumption, StatusesAssumption
   DEF Environment, Reconcile, ForeignCreate, ForeignDelete, KubectlApply,
       KubectlDelete, Present, MRs, TypeOK

LEMMA ApplyKeeps ==
  ASSUME TypeOK, NEW ms, KubectlApply(ms), NEW m \in MRs
  PROVE  /\ Present(m) \/ m \in ms => Present(m)'
         /\ Present(m) => cluster'[m] = cluster[m]
BY DEF KubectlApply, Present, TypeOK

LEMMA ApplyingStep ==
  ASSUME TypeOK, AppliedBound, Applying, [Next]_vars
  PROVE  Applying'
<1> USE TemplatesAssumption
<1>1. ASSUME NEW t \in Templates, ApplyBatch(t) PROVE Applying'
  <2>1. tmpFiles = <<>> /\ tmpFiles' = <<Own(t)>> /\ ~interval'
    BY <1>1 DEF ApplyBatch, BatchFileClosed
  <2>2. Filed = {} /\ Filed' = Own(t)
    <3>1. Len(<<Own(t)>>) = 1 /\ <<Own(t)>>[1] = Own(t)
      OBVIOUS
    <3> QED
      BY <2>1, <3>1, FiledEmpty, OwnIsOwned DEF Filed
  <2>3. \A m \in Own(t) : Present(m)'
    BY <1>1, OwnIsOwned, ApplyKeeps DEF ApplyBatch
  <2>4. \A u \in Templates \ todo' : Own(u) \subseteq Filed'
    BY <1>1, <2>2 DEF ApplyBatch, Applying
  <2> QED
    BY <2>1, <2>2, <2>3, <2>4 DEF Applying
<1>2. ASSUME NEW t \in Templates, ApplyOne(t) PROVE Applying'
  <2> DEFINE i == applied[t] + 1
  <2>1. i \in 1..Count[t] /\ Count[t] \in Nat /\ applied[t] \in Nat
    BY <1>2 DEF ApplyOne, Current, AppliedBound, TypeOK
  <2>2. Filed' = Filed \cup {MR(t, i)}
    <3>1. {MR(t, i)} \in SUBSET Owned
      BY <2>1, MRIsOwn
    <3>2. tmpFiles' = Append(tmpFiles, {MR(t, i)})
      BY <1>2 DEF ApplyOne, Record
    <3> HIDE DEF i
    <3> QED
      BY <3>1, <3>2, FiledAppend
  <2>3. \A m \in Filed' : Present(m)'
    BY <1>2, <2>1, <2>2, MRIsOwn, OwnIsOwned, ApplyKeeps
       DEF ApplyOne, Applying, Filed
  <2>4. ASSUME NEW u \in Templates, NEW j \in 1..applied'[u]
        PROVE  MR(u, j) \in Filed'
    <3>1. CASE u = t /\ j = i
      BY <2>2, <3>1
    <3>2. CASE ~(u = t /\ j = i)
      <4>1. j \in 1..applied[u]
        BY <1>2, <2>1, <2>4, <3>2 DEF ApplyOne, TypeOK
      <4> QED
        BY <1>2, <2>2, <4>1 DEF ApplyOne, Applying
    <3> QED
      BY <3>1, <3>2
  <2>5. ASSUME NEW u \in Templates \ todo' PROVE Own(u) \subseteq Filed'
    <3>1. CASE u \in todo
      <4>1. u = t /\ i = Count[t] /\ applied'[t] = i
        BY <1>2, <2>1, <2>5, <3>1 DEF ApplyOne, Last, TypeOK
      <4> QED
        BY <2>4, <4>1 DEF Own
    <3>2. CASE u \notin todo
      BY <1>2, <2>2, <2>5, <3>2 DEF ApplyOne, Applying
    <3> QED
      BY <3>1, <3>2
  <2> QED
    BY <2>3, <2>4, <2>5 DEF Applying
<1>3. CASE pc' # "apply"
  BY <1>3 DEF Applying
<1>4. CASE Environment
  <2>1. UNCHANGED run /\ Filed' = Filed
    BY <1>4 DEF Environment, Reconcile, ForeignCreate, ForeignDelete, run, Filed
  <2> QED
    BY <1>4, <2>1, EnvironmentKeeps DEF Applying, run, Filed
<1>5. CASE UNCHANGED vars
  BY <1>5 DEF vars, Applying, Filed, Present
<1> QED
  BY <1>1, <1>2, <1>3, <1>4, <1>5
     DEF Next, RunExperiment, Done, WriteAfterClose, ApplyFails, Panic,
         CheckReadiness, Sleep, CalculateReadiness, ApplyDone, CheckDone,
         CalculateDone, DeleteDone, DeleteFile, DeleteFails,
         NoClient, CallFails, Stop, Goto

LEMMA DeployedStep ==
  ASSUME TypeOK, Applying, Deployed, [Next]_vars
  PROVE  Deployed'
<1>1. CASE ApplyDone
  <2>1. todo = {} /\ pc = "apply" /\ UNCHANGED <<tmpFiles, cluster>>
    BY <1>1 DEF ApplyDone, Goto
  <2>2. Owned \subseteq Filed
    BY <2>1 DEF Applying, Owned
  <2> QED
    BY <2>1, <2>2 DEF Applying, Deployed, Filed, Present
<1>2. ASSUME pc' = pc, UNCHANGED <<tmpFiles, cluster>> PROVE Deployed'
  BY <1>2 DEF Deployed, Filed, Present
<1>3. CASE CheckDone
  BY <1>3 DEF CheckDone, Goto, Deployed, Filed, Present
<1>4. CASE pc' \notin {"check", "calculate"}
  BY <1>4 DEF Deployed
<1>5. CASE Environment
  <2>1. UNCHANGED run /\ Filed' = Filed
    BY <1>5 DEF Environment, Reconcile, ForeignCreate, ForeignDelete, run, Filed
  <2> QED
    BY <1>5, <2>1, EnvironmentKeeps DEF Deployed, run
<1>6. ASSUME NEW t \in Templates,
             \/ ApplyBatch(t) \/ ApplyOne(t) \/ WriteAfterClose(t) \/ ApplyFails(t)
             \/ CheckReadiness(t) \/ Sleep(t) \/ CalculateReadiness(t) \/ Panic(t)
      PROVE  pc' \notin {"check", "calculate"} \/ (pc' = pc /\ UNCHANGED <<tmpFiles, cluster>>)
  BY <1>6 DEF ApplyBatch, ApplyOne, WriteAfterClose, ApplyFails, CheckReadiness,
     Sleep, CalculateReadiness, Panic, Stop, vars
<1>7. ASSUME \/ CalculateDone \/ DeleteFile
             \/ DeleteFails \/ DeleteDone \/ NoClient \/ CallFails
      PROVE  pc' \notin {"check", "calculate"}
  BY <1>7 DEF CalculateDone, DeleteFile, DeleteFails, DeleteDone,
     NoClient, CallFails, Goto, Stop
<1> QED
  BY <1>1, <1>2, <1>3, <1>4, <1>5, <1>6, <1>7 DEF Next, RunExperiment, Done, vars

LEMMA DeletingStep ==
  ASSUME TypeOK, Deployed, Deleting, DeletedWhenReturned, [Next]_vars
  PROVE  Deleting' /\ DeletedWhenReturned'
<1>1. CASE CalculateDone
  BY <1>1 DEF CalculateDone, Goto, Deployed, Deleting, DeletedWhenReturned, Filed, Present
<1>2. CASE DeleteFile
  <2>1. /\ tmpFiles # <<>> /\ tmpFiles' = Tail(tmpFiles) /\ pc = "clean" /\ pc' = "clean"
        /\ \A m \in MRs : Present(m)' => Present(m) /\ m \notin Head(tmpFiles)
    BY <1>2 DEF DeleteFile, KubectlDelete, Present
  <2>2. Filed \subseteq Head(tmpFiles) \cup Filed'
    BY <2>1, FiledTail
  <2> QED
    BY <2>1, <2>2, StatusesAssumption DEF Deleting, DeletedWhenReturned, MRs
<1>3. CASE DeleteDone
  <2>1. Filed = {} /\ pc = "clean" /\ pc' = "returned" /\ cluster' = cluster
    BY <1>3, FiledEmpty DEF DeleteDone, Goto
  <2> QED
    BY <2>1 DEF Deleting, DeletedWhenReturned, Present
<1>4. CASE Environment
  <2>1. UNCHANGED run /\ Filed' = Filed
    BY <1>4 DEF Environment, Reconcile, ForeignCreate, ForeignDelete, run, Filed
  <2> QED
    BY <1>4, <2>1, EnvironmentKeeps DEF Deleting, DeletedWhenReturned, run
<1>5. CASE pc' \notin {"clean", "returned"}
  BY <1>5 DEF Deleting, DeletedWhenReturned
<1>6. CASE UNCHANGED vars
  BY <1>6 DEF vars, Deleting, DeletedWhenReturned, Filed, Present
<1>7. ASSUME NEW t \in Templates,
             \/ ApplyBatch(t) \/ ApplyOne(t) \/ WriteAfterClose(t) \/ ApplyFails(t)
             \/ CheckReadiness(t) \/ CalculateReadiness(t) \/ Panic(t)
      PROVE  pc' \notin {"clean", "returned"}
  BY <1>7 DEF ApplyBatch, ApplyOne, WriteAfterClose, ApplyFails, CheckReadiness,
     CalculateReadiness, Panic, Stop
<1>8. ASSUME ApplyDone \/ CheckDone \/ DeleteFails \/ NoClient \/ CallFails
      PROVE  pc' \notin {"clean", "returned"}
  BY <1>8 DEF ApplyDone, CheckDone, DeleteFails, NoClient, CallFails, Goto, Stop
<1> QED
  BY <1>1, <1>2, <1>3, <1>4, <1>5, <1>6, <1>7, <1>8 DEF Next, RunExperiment, Done, Sleep

LEMMA CInvInit == Init => CInv
BY TemplatesAssumption, FiledEmpty
   DEF Init, CInv, TypeOK, AppliedBound, Applying, Deployed, Deleting, DeletedWhenReturned

LEMMA CInvStep == CInv /\ [Next]_vars => CInv'
BY TypeStep, ApplyingStep, DeployedStep, DeletingStep DEF CInv

(***************************************************************************)
(* An experiment with --clean that returns results has deleted every one   *)
(* of its MRs, for any templates, even of one kind, and any failures.      *)
(***************************************************************************)
THEOREM CleanDeletes == Spec => []DeletedWhenReturned
<1>1. CInv => DeletedWhenReturned
  BY DEF CInv
<1> QED
  BY <1>1, CInvInit, CInvStep, PTL DEF Spec

-----------------------------------------------------------------------------
(***************************************************************************)
(* With MRs that stay ready and no Unknown: what was checked is ready, and *)
(* what was calculated covers it.                                          *)
(***************************************************************************)
Ready(m) == cluster[m] = "True"

Measuring ==
    /\ pc = "check" => \A t \in Templates \ todo : \A m \in Own(t) : Ready(m)
    /\ pc = "calculate" =>
         /\ \A m \in Owned : Ready(m)
         /\ \A t \in Templates \ todo : Own(t) \subseteq measured[t]
    /\ pc \in {"clean", "returned"} =>
         \A t \in Templates : Own(t) \subseteq measured[t]

LEMMA OwnListed ==
  ASSUME NEW t \in Templates, \A m \in Owned : Present(m)
  PROVE  Own(t) \subseteq List(t)
BY OwnIsOwned DEF Own, MR, List

(* The premises are about the environment: see the comment of EveryMRMeasured. *)
LEMMA MeasuringStep ==
  ASSUME Stable, "Unknown" \notin Statuses,
         TypeOK, Deployed, Measuring, [Next]_vars
  PROVE  Measuring'
<1>1. ASSUME NEW t \in Templates, CheckReadiness(t) PROVE Measuring'
  <2>1. pc = "check" /\ pc' = "check" /\ todo' = todo \ {t} /\ cluster' = cluster
    BY <1>1 DEF CheckReadiness
  <2>2. \A m \in Own(t) : Ready(m)
    <3>1. Own(t) \subseteq List(t)
      BY <2>1, OwnListed DEF Deployed
    <3>2. \A m \in List(t) : cluster[m] \notin {"NoStatus", "NoConditions", "NoReady", "False", "Absent"}
      BY <1>1 DEF CheckReadiness, isReady, List, Present
    <3>3. \A m \in MRs : cluster[m] \in Statuses \cup {"Absent"}
      BY DEF TypeOK
    <3> QED
      BY <3>1, <3>2, <3>3, OwnIsOwned, StatusesAssumption DEF Ready
  <2> QED
    BY <2>1, <2>2 DEF Measuring, Ready
<1>2. CASE CheckDone
  <2>1. pc = "check" /\ todo = {} /\ pc' = "calculate" /\ todo' = Templates /\ cluster' = cluster
    BY <1>2 DEF CheckDone, Goto
  <2> QED
    BY <2>1 DEF Measuring, Ready, Owned
<1>3. ASSUME NEW t \in Templates, CalculateReadiness(t) PROVE Measuring'
  <2>1. /\ pc = "calculate" /\ pc' = "calculate" /\ todo' = todo \ {t} /\ cluster' = cluster
        /\ measured' = [measured EXCEPT ![t] = {m \in List(t) : cluster[m] = "True"}]
    BY <1>3 DEF CalculateReadiness
  <2>2. Own(t) \subseteq measured'[t]
    BY <2>1, OwnListed, OwnIsOwned DEF Deployed, Measuring, Ready, TypeOK
  <2>3. \A u \in Templates \ {t} : measured'[u] = measured[u]
    BY <2>1 DEF TypeOK
  <2> QED
    BY <2>1, <2>2, <2>3 DEF Measuring, Ready
<1>4. CASE CalculateDone
  BY <1>4 DEF CalculateDone, Goto, Measuring
<1>5. CASE DeleteFile \/ DeleteDone
  BY <1>5 DEF DeleteFile, DeleteDone, Goto, Measuring
<1>6. CASE ApplyDone
  BY <1>6 DEF ApplyDone, Goto, Measuring
<1>7. CASE Environment
  BY <1>7, EnvironmentKeeps, OwnIsOwned
     DEF Measuring, Ready, run, Environment, Reconcile, ForeignCreate, ForeignDelete
<1>8. CASE UNCHANGED vars
  BY <1>8 DEF vars, Measuring, Ready
<1>9. CASE pc' \in {"apply", "failed", "panicked", "died"}
  BY <1>9 DEF Measuring
<1>10. ASSUME NEW t \in Templates,
              ApplyBatch(t) \/ ApplyOne(t) \/ WriteAfterClose(t) \/ ApplyFails(t) \/ Panic(t)
       PROVE  pc' \in {"apply", "failed", "panicked", "died"}
  BY <1>10 DEF ApplyBatch, ApplyOne, WriteAfterClose, ApplyFails, Panic, Stop
<1>11. ASSUME DeleteFails \/ NoClient \/ CallFails
       PROVE  pc' \in {"apply", "failed", "panicked", "died"}
  BY <1>11 DEF DeleteFails, NoClient, CallFails, Stop
<1> QED
  BY <1>1, <1>2, <1>3, <1>4, <1>5, <1>6, <1>7, <1>8, <1>9, <1>10, <1>11
     DEF Next, RunExperiment, Done, Sleep

(***************************************************************************)
(* Every deployed MR has its time to readiness in the results, if MRs stay *)
(* ready and none is Ready=Unknown.                                        *)
(***************************************************************************)
THEOREM ResultsComplete ==
  ASSUME Stable, "Unknown" \notin Statuses
  PROVE  Spec => []EveryMRMeasured
<1>1. Init => Measuring
  BY DEF Init, Measuring
<1>2. CInv /\ Measuring /\ [Next]_vars => Measuring'
  BY MeasuringStep DEF CInv
<1>3. Measuring => EveryMRMeasured
  BY DEF Measuring, EveryMRMeasured
<1> QED
  BY <1>1, <1>2, <1>3, CInvInit, CInvStep, PTL DEF Spec

-----------------------------------------------------------------------------
(***************************************************************************)
(* The experiment sees one of its own MRs without a status only until it   *)
(* has polled its kind, where that is no reason to panic.                  *)
(***************************************************************************)
Seen ==
    /\ pc = "check" =>
         \A t \in Templates \ todo : \A m \in Own(t) : cluster[m] # "NoStatus"
    /\ pc = "calculate" => \A m \in Owned : cluster[m] # "NoStatus"

LEMMA SeenStep ==
  ASSUME TypeOK, Deployed, Seen, [Next]_vars
  PROVE  Seen'
<1>1. ASSUME NEW t \in Templates, CheckReadiness(t) PROVE Seen'
  <2>1. pc = "check" /\ pc' = "check" /\ todo' = todo \ {t} /\ cluster' = cluster
    BY <1>1 DEF CheckReadiness
  <2>2. Own(t) \subseteq List(t)
    BY <2>1, OwnListed DEF Deployed
  <2>3. \A m \in Own(t) : cluster[m] # "NoStatus"
    BY <1>1, <2>2 DEF CheckReadiness, isReady
  <2> QED
    BY <2>1, <2>3 DEF Seen
<1>2. CASE CheckDone
  <2>1. pc = "check" /\ todo = {} /\ pc' = "calculate" /\ cluster' = cluster
    BY <1>2 DEF CheckDone, Goto
  <2> QED
    BY <2>1 DEF Seen, Owned
<1>3. ASSUME NEW t \in Templates, CalculateReadiness(t) PROVE Seen'
  BY <1>3 DEF CalculateReadiness, Seen
<1>4. CASE ApplyDone
  BY <1>4 DEF ApplyDone, Goto, Seen
<1>5. CASE Environment
  <2>1. UNCHANGED run
    BY <1>5 DEF Environment, Reconcile, ForeignCreate, ForeignDelete
  <2>2. \A m \in Owned : cluster[m] # "NoStatus" /\ Present(m) => cluster'[m] # "NoStatus"
    BY <1>5, ForeignAssumption
       DEF Environment, Reconcile, ForeignCreate, ForeignDelete, KubectlApply,
           KubectlDelete, MRs, TypeOK
  <2> QED
    BY <2>1, <2>2, OwnIsOwned DEF Seen, Deployed, run
<1>6. CASE UNCHANGED vars
  BY <1>6 DEF vars, Seen
<1>7. CASE pc' \notin {"check", "calculate"}
  BY <1>7 DEF Seen
<1>8. ASSUME NEW t \in Templates,
             ApplyBatch(t) \/ ApplyOne(t) \/ WriteAfterClose(t) \/ ApplyFails(t) \/ Panic(t)
      PROVE  pc' \notin {"check", "calculate"}
  BY <1>8 DEF ApplyBatch, ApplyOne, WriteAfterClose, ApplyFails, Panic, Stop
<1>9. ASSUME CalculateDone \/ DeleteFile \/ DeleteFails \/ DeleteDone \/ NoClient \/ CallFails
      PROVE  pc' \notin {"check", "calculate"}
  BY <1>9 DEF CalculateDone, DeleteFile, DeleteFails, DeleteDone, NoClient, CallFails, Goto, Stop
<1> QED
  BY <1>1, <1>2, <1>3, <1>4, <1>5, <1>6, <1>7, <1>8, <1>9
     DEF Next, RunExperiment, Done, Sleep

PanicStep ==
    pc # "panicked" /\ pc' = "panicked" =>
        \E m \in MRs : \/ cluster[m] = "NoConditions"
                       \/ m \in Foreign /\ cluster[m] = "NoStatus"

LEMMA OnlyPanicPanics ==
  ASSUME Seen, [Next]_vars
  PROVE  PanicStep
<1>1. ASSUME NEW t \in Templates, Panic(t) PROVE PanicStep
  <2>1. PICK m \in List(t) :
          \/ pc \in {"check", "calculate"} /\ cluster[m] = "NoConditions"
          \/ pc = "calculate" /\ cluster[m] = "NoStatus"
    BY <1>1 DEF Panic
  <2>2. m \in MRs
    BY DEF List
  <2> QED
    BY <2>1, <2>2 DEF Seen, MRs, PanicStep
<1>2. ASSUME NEW t \in Templates,
             \/ ApplyBatch(t) \/ ApplyOne(t) \/ WriteAfterClose(t) \/ ApplyFails(t)
             \/ CheckReadiness(t) \/ Sleep(t) \/ CalculateReadiness(t)
      PROVE  PanicStep
  BY <1>2 DEF ApplyBatch, ApplyOne, WriteAfterClose, ApplyFails, CheckReadiness,
     Sleep, CalculateReadiness, Stop, vars, PanicStep
<1>3. ASSUME \/ ApplyDone \/ CheckDone \/ CalculateDone \/ DeleteFile
             \/ DeleteFails \/ DeleteDone \/ NoClient \/ CallFails
      PROVE  PanicStep
  BY <1>3 DEF ApplyDone, CheckDone, CalculateDone, DeleteFile, DeleteFails,
     DeleteDone, NoClient, CallFails, Goto, Stop, PanicStep
<1>4. CASE Environment \/ UNCHANGED vars
  BY <1>4 DEF Environment, Reconcile, ForeignCreate, ForeignDelete, run, vars, PanicStep
<1> QED
  BY <1>1, <1>2, <1>3, <1>4 DEF Next, RunExperiment, Done

(***************************************************************************)
(* A type assertion (195, 230) panics only over a status without           *)
(* conditions or over an MR of someone else that has no status: however    *)
(* the provider reconciles, whatever call fails, whatever was left there.  *)
(***************************************************************************)
THEOREM PanicsAreExplained == Spec => PanicHasReason
<1>1. Init => Seen
  BY DEF Init, Seen
<1>2. CInv /\ Seen /\ [Next]_vars => Seen'
  BY SeenStep DEF CInv
<1>3. Seen /\ [Next]_vars => PanicStep
  BY OnlyPanicPanics
<1> QED
  BY <1>1, <1>2, <1>3, CInvInit, CInvStep, PTL DEF Spec, PanicHasReason, PanicStep

-----------------------------------------------------------------------------
(***************************************************************************)
(* Without a fault: a batch file is open for the first template, and no MR *)
(* is in two files, so that each one is still there to be deleted.         *)
(***************************************************************************)
Open ==
    pc = "apply" /\ ~interval =>
        Len(tmpFiles) <= 1 /\ (tmpFiles # <<>> => todo # Templates)

Disjoint ==
    \A j, k \in 1..Len(tmpFiles) : j # k => tmpFiles[j] \cap tmpFiles[k] = {}

(* Only what was applied is in a file. *)
FiledIsApplied ==
    pc = "apply" /\ interval =>
        \A m \in Filed : \E t \in Templates : \E i \in 1..applied[t] : m = MR(t, i)

FiledIsPresent == pc \in {"check", "calculate", "clean"} => \A m \in Filed : Present(m)

FInv == Open /\ Disjoint /\ FiledIsApplied /\ FiledIsPresent /\ FaultFreeReturns

LEMMA DisjointApplyOne ==
  ASSUME \A t, u \in Templates : KindOf[t] = KindOf[u] => t = u,
         TypeOK, AppliedBound, Disjoint, FiledIsApplied,
         NEW t \in Templates, ApplyOne(t)
  PROVE  Disjoint' /\ FiledIsApplied'
<1> DEFINE i == applied[t] + 1
<1>1. i \in 1..Count[t] /\ applied[t] \in Nat
  <2>1. t \in todo /\ pc = "apply" /\ applied[t] \in Nat
    BY DEF ApplyOne, Current, TypeOK
  <2>2. applied[t] < Count[t] /\ Count[t] \in Nat
    BY <2>1, TemplatesAssumption DEF AppliedBound
  <2> QED
    BY <2>1, <2>2
<1>2. /\ pc = "apply" /\ interval /\ pc' = "apply" /\ interval'
      /\ tmpFiles' = Append(tmpFiles, {MR(t, i)})
      /\ applied' = [applied EXCEPT ![t] = i]
  BY DEF ApplyOne, Record
<1>3. {MR(t, i)} \in SUBSET Owned
  BY <1>1, MRIsOwn
<1>4. Filed' = Filed \cup {MR(t, i)}
  <2> HIDE DEF i
  <2> QED
    BY <1>2, <1>3, FiledAppend
<1>5. MR(t, i) \notin Filed
  <2> SUFFICES ASSUME NEW u \in Templates, NEW j \in 1..applied[u], MR(t, i) = MR(u, j)
               PROVE  FALSE
    BY <1>2 DEF FiledIsApplied
  <2> QED
    BY <1>1 DEF MR
<1>6. /\ Len(tmpFiles') = Len(tmpFiles) + 1 /\ Len(tmpFiles) \in Nat
      /\ \A k \in 1..Len(tmpFiles) : tmpFiles'[k] = tmpFiles[k]
      /\ tmpFiles'[Len(tmpFiles) + 1] = {MR(t, i)}
  <2> HIDE DEF i
  <2> QED
    BY <1>2, <1>3, AppendProperties DEF TypeOK
<1>7. \A k \in 1..Len(tmpFiles) : MR(t, i) \notin tmpFiles[k]
  BY <1>3, <1>5 DEF Filed
<1>8. Disjoint'
  <2> HIDE DEF i
  <2> QED
    BY <1>6, <1>7 DEF Disjoint
<1>9. ASSUME NEW m \in Filed'
      PROVE  \E u \in Templates : \E j \in 1..applied'[u] : m = MR(u, j)
  <2>1. CASE m = MR(t, i)
    BY <1>1, <1>2, <2>1 DEF TypeOK
  <2>2. CASE m \in Filed
    <3>1. PICK u \in Templates : \E j \in 1..applied[u] : m = MR(u, j)
      BY <1>2, <2>2 DEF FiledIsApplied
    <3>2. PICK j \in 1..applied[u] : m = MR(u, j)
      BY <3>1
    <3>3. j \in 1..applied'[u]
      BY <1>1, <1>2, <3>2 DEF TypeOK
    <3> QED
      BY <3>2, <3>3
  <2> QED
    BY <1>4, <1>9, <2>1, <2>2
<1> QED
  BY <1>8, <1>9 DEF FiledIsApplied

(* The first file is deleted; what is in the others is not in it. *)
LEMMA DeleteFileKeeps ==
  ASSUME TypeOK, Disjoint, FiledIsPresent, DeleteFile
  PROVE  Disjoint' /\ FiledIsPresent'
<1>1. /\ tmpFiles # <<>> /\ tmpFiles' = Tail(tmpFiles) /\ pc = "clean" /\ pc' = "clean"
      /\ KubectlDelete(Head(tmpFiles))
  BY DEF DeleteFile
<1>2. /\ Len(tmpFiles') = Len(tmpFiles) - 1 /\ Len(tmpFiles) \in Nat \ {0}
      /\ \A k \in 1..Len(tmpFiles') : tmpFiles'[k] = tmpFiles[k + 1]
      /\ Head(tmpFiles) = tmpFiles[1]
  BY <1>1, HeadTailProperties, EmptySeq DEF TypeOK
<1>3. Disjoint'
  BY <1>2 DEF Disjoint
<1>4. ASSUME NEW m \in Filed' PROVE Present(m)'
  <2>1. PICK k \in 1..Len(tmpFiles') : m \in tmpFiles'[k]
    BY DEF Filed
  <2>2. m \in Owned /\ k + 1 \in 1..Len(tmpFiles) /\ 1 \in 1..Len(tmpFiles)
           /\ m \in tmpFiles[k + 1] /\ k + 1 # 1
    BY <1>2, <2>1 DEF Filed
  <2>3. m \notin Head(tmpFiles)
    BY <1>2, <2>2 DEF Disjoint
  <2>4. m \in Filed
    BY <2>2 DEF Filed
  <2>5. cluster'[m] = cluster[m]
    BY <1>1, <2>2, <2>3 DEF KubectlDelete, MRs
  <2> QED
    BY <1>1, <2>4, <2>5 DEF FiledIsPresent, Present
<1> QED
  BY <1>3, <1>4 DEF FiledIsPresent

LEMMA FInvStep ==
  ASSUME \A t, u \in Templates : KindOf[t] = KindOf[u] => t = u,
         TypeOK, AppliedBound, Applying, FInv, [Next]_vars
  PROVE  FInv'
<1>1. ASSUME NEW t \in Templates, ApplyBatch(t) PROVE FInv'
  <2>1. /\ tmpFiles' = <<Own(t)>> /\ ~interval' /\ pc' = "apply"
        /\ ~interval /\ todo' = todo \ {t}
    BY <1>1 DEF ApplyBatch
  <2>2. todo' # Templates
    BY <2>1
  <2>3. Len(tmpFiles') = 1
    BY <2>1
  <2> QED
    BY <2>1, <2>2, <2>3 DEF FInv, Open, Disjoint, FiledIsApplied, FiledIsPresent,
       FaultFreeReturns
<1>2. ASSUME NEW t \in Templates, ApplyOne(t) PROVE FInv'
  <2>1. Disjoint' /\ FiledIsApplied'
    BY <1>2, DisjointApplyOne DEF FInv
  <2>2. pc' = "apply" /\ interval'
    BY <1>2 DEF ApplyOne
  <2> QED
    BY <2>1, <2>2 DEF FInv, Open, FiledIsPresent, FaultFreeReturns
<1>3. ASSUME NEW t \in Templates, WriteAfterClose(t) PROVE FInv'
  BY <1>3 DEF WriteAfterClose, BatchFileClosed, Stop, FInv, Open, Disjoint,
     FiledIsApplied, FiledIsPresent, FaultFreeReturns
<1>4. ASSUME faults, UNCHANGED <<faults, tmpFiles>>, pc' \in {"failed", "panicked", "died"} PROVE FInv'
  BY <1>4 DEF FInv, Open, Disjoint, FiledIsApplied, FiledIsPresent, FaultFreeReturns
<1>5. ASSUME NEW t \in Templates, ApplyFails(t) PROVE FInv'
  BY <1>4, <1>5 DEF ApplyFails, Stop
<1>6. CASE NoClient \/ CallFails
  BY <1>4, <1>6 DEF NoClient, CallFails, Stop
<1>7. ASSUME NEW t \in Templates, Panic(t) PROVE FInv'
  BY <1>7 DEF Panic, Stop, FInv, Open, Disjoint, FiledIsApplied, FiledIsPresent,
     FaultFreeReturns
<1>8. CASE DeleteFails
  <2>1. CASE faults
    BY <1>4, <1>8, <2>1 DEF DeleteFails, Stop
  <2>2. CASE ~faults
    <3>1. tmpFiles # <<>> /\ \E m \in Head(tmpFiles) : ~Present(m)
      BY <1>8, <2>2 DEF DeleteFails
    <3>2. Head(tmpFiles) = tmpFiles[1] /\ 1 \in 1..Len(tmpFiles) /\ tmpFiles[1] \subseteq Owned
      BY <3>1, HeadTailProperties, EmptySeq DEF TypeOK
    <3>3. Head(tmpFiles) \subseteq Filed
      BY <3>2 DEF Filed
    <3> QED
      BY <1>8, <3>1, <3>3 DEF DeleteFails, FInv, FiledIsPresent
  <2> QED
    BY <2>1, <2>2
<1>9. CASE DeleteFile
  <2>1. Disjoint' /\ FiledIsPresent'
    BY <1>9, DeleteFileKeeps DEF FInv
  <2>2. pc' = "clean"
    BY <1>9 DEF DeleteFile
  <2> QED
    BY <2>1, <2>2 DEF FInv, Open, FiledIsApplied, FaultFreeReturns
<1>10. CASE ApplyDone
  BY <1>10 DEF ApplyDone, Goto, FInv, Open, Disjoint, FiledIsApplied, FiledIsPresent,
     FaultFreeReturns, Applying, Filed, Present
<1>11. CASE CheckDone \/ CalculateDone \/ DeleteDone
  BY <1>11 DEF CheckDone, CalculateDone, DeleteDone, Goto, FInv, Open, Disjoint,
     FiledIsApplied, FiledIsPresent, FaultFreeReturns, Filed, Present
<1>12. ASSUME NEW t \in Templates, CheckReadiness(t) \/ CalculateReadiness(t) PROVE FInv'
  BY <1>12 DEF CheckReadiness, CalculateReadiness, FInv, Open, Disjoint,
     FiledIsApplied, FiledIsPresent, FaultFreeReturns, Filed, Present
<1>13. CASE Environment
  <2>1. UNCHANGED run /\ Filed' = Filed
    BY <1>13 DEF Environment, Reconcile, ForeignCreate, ForeignDelete, run, Filed
  <2>2. \A m \in Filed : Present(m)' <=> Present(m)
    BY <1>13, EnvironmentKeeps DEF Filed
  <2> QED
    BY <2>1, <2>2 DEF run, FInv, Open, Disjoint, FiledIsApplied, FiledIsPresent,
       FaultFreeReturns
<1>14. CASE UNCHANGED vars
  BY <1>14 DEF vars, FInv, Open, Disjoint, FiledIsApplied, FiledIsPresent,
     FaultFreeReturns, Filed, Present
<1> QED
  BY <1>1, <1>2, <1>3, <1>5, <1>6, <1>7, <1>8, <1>9, <1>10, <1>11, <1>12, <1>13, <1>14
     DEF Next, RunExperiment, Done, Sleep

(***************************************************************************)
(* If no call fails, the experiment fails at most at the second template   *)
(* of a batch, which is written to a closed file (84-104), whatever was    *)
(* left of earlier runs: for templates of different kinds, any counts and  *)
(* either value of --apply-interval (72-80, 82-130).                       *)
(***************************************************************************)
THEOREM FaultFree ==
  ASSUME \A t, u \in Templates : KindOf[t] = KindOf[u] => t = u
  PROVE  Spec => []FaultFreeReturns
<1>1. Init => FInv
  BY FiledEmpty DEF Init, FInv, Open, Disjoint, FiledIsApplied, FiledIsPresent,
     FaultFreeReturns
<1>2. CInv /\ FInv /\ [Next]_vars => FInv'
  BY FInvStep DEF CInv
<1>3. FInv => FaultFreeReturns
  BY DEF FInv
<1> QED
  BY <1>1, <1>2, <1>3, CInvInit, CInvStep, PTL DEF Spec

-----------------------------------------------------------------------------
(* The command.                                                            *)

(* A step of the command is a step of the experiment, or leaves it alone. *)
LEMMA StepOfExperiment == [QNext]_qvars => [Next]_vars
<1>1. ASSUME Goroutine PROVE [Next]_vars
  BY <1>1 DEF Goroutine, Experiment, SendError, SendNil, SendResults, Next
<1>2. ASSUME Run PROVE [Next]_vars
  BY <1>2 DEF Run, ReceiveResults, ReceiveErr, Timeout, ReportPod, ReportFails, Return
<1>3. ASSUME Cluster PROVE [Next]_vars
  BY <1>3 DEF Cluster, Next
<1> QED
  BY <1>1, <1>2, <1>3 DEF QNext, QDone, qvars

(* An ended experiment stays as it is, but for what others do. *)
LEMMA ReturnedStays ==
  ASSUME pc = "returned", [Next]_vars
  PROVE  pc' = "returned" /\ measured' = measured
<1>1. ASSUME NEW t \in Templates
      PROVE  ~(\/ ApplyBatch(t) \/ WriteAfterClose(t) \/ ApplyOne(t) \/ ApplyFails(t)
               \/ CheckReadiness(t) \/ CalculateReadiness(t) \/ Panic(t))
  BY DEF ApplyBatch, WriteAfterClose, ApplyOne, ApplyFails, CheckReadiness,
     CalculateReadiness, Panic
<1>2. ~(\/ ApplyDone \/ CheckDone \/ CalculateDone \/ DeleteFile
        \/ DeleteFails \/ DeleteDone \/ NoClient \/ CallFails)
  BY DEF ApplyDone, CheckDone, CalculateDone, DeleteFile,
     DeleteFails, DeleteDone, NoClient, CallFails
<1>3. Environment => UNCHANGED run
  BY DEF Environment, Reconcile, ForeignCreate, ForeignDelete
<1> QED
  BY <1>1, <1>2, <1>3 DEF Next, RunExperiment, Done, Sleep, run, vars

(***************************************************************************)
(* QTypeOK is an invariant, of the experiment and of the command over it.  *)
(* Both channels only ever hold what their receiver expects (92-110).      *)
(***************************************************************************)
THEOREM QTypeCorrect == QSpec => []QTypeOK
<1> DEFINE TInv == QTypeOK /\ AppliedBound
<1>1. QInit => TInv
  BY TemplatesAssumption DEF QInit, Init, QTypeOK, TypeOK, AppliedBound
<1>2. TInv /\ [QNext]_qvars => TInv'
  <2> SUFFICES ASSUME TInv, [QNext]_qvars PROVE TInv'
    OBVIOUS
  <2>1. TypeOK' /\ AppliedBound'
    BY StepOfExperiment, TypeStep DEF QTypeOK
  <2>2. measured \in [Templates -> SUBSET MRs]
    BY DEF QTypeOK, TypeOK
  <2>3. CASE Experiment \/ Cluster
    BY <2>1, <2>3 DEF Experiment, Cluster, QTypeOK
  <2>4. CASE SendError \/ SendNil
    BY <2>1, <2>4, AppendProperties DEF SendError, SendNil, QTypeOK
  <2>5. CASE SendResults
    BY <2>1, <2>2, <2>5, AppendProperties DEF SendResults, QTypeOK
  <2>6. CASE ReceiveResults
    BY <2>1, <2>6, HeadTailProperties DEF ReceiveResults, QTypeOK
  <2>7. CASE ReceiveErr
    BY <2>1, <2>7, HeadTailProperties DEF ReceiveErr, QTypeOK
  <2>8. CASE Timeout \/ (\E p \in Pods : ReportPod(p)) \/ ReportFails \/ Return
    BY <2>1, <2>8 DEF Timeout, ReportPod, ReportFails, Return, QTypeOK
  <2>9. CASE UNCHANGED qvars
    BY <2>1, <2>9 DEF qvars, QTypeOK
  <2> QED
    BY <2>3, <2>4, <2>5, <2>6, <2>7, <2>8, <2>9 DEF QNext, Goroutine, Run, QDone
<1> QED
  BY <1>1, <1>2, PTL DEF QSpec, QTypeOK

(***************************************************************************)
(* The two channels, by where the goroutine and Run are.  Both are empty   *)
(* until the experiment ends.                                              *)
(***************************************************************************)
Channels ==
    /\ goroutine = "run" => errChan = <<>> /\ results = <<>>
    /\ goroutine = "results" =>
         /\ pc = "returned"
         /\ errChan = <<"nil">> /\ results = <<>>
    /\ results # <<>> =>
         /\ pc = "returned" /\ goroutine = "end"
         /\ errChan = <<"nil">> /\ results = <<measured>>
    /\ main = "select" => reported = NoResults
    /\ main = "recvErr" => errChan = <<"nil">> /\ results = <<>> /\ goroutine = "end"
    /\ reported # NoResults =>
         results = <<>> /\ pc = "returned" /\ reported = measured /\ goroutine = "end"

LEMMA ChannelsInit == QInit => Channels
BY DEF QInit, Channels

LEMMA ChannelsStep == Channels /\ [QNext]_qvars => Channels'
<1> SUFFICES ASSUME Channels, [QNext]_qvars PROVE Channels'
  OBVIOUS
<1>1. pc = "returned" => pc' = "returned" /\ measured' = measured
  BY StepOfExperiment, ReturnedStays
<1>2. CASE Experiment
  <2>1. goroutine = "run" /\ UNCHANGED <<goroutine, errChan, results, reported>>
        /\ main' \in {main, "crashed"}
    BY <1>2 DEF Experiment
  <2> QED
    BY <1>1, <2>1 DEF Channels
<1>3. CASE SendError
  BY <1>3 DEF SendError, Channels, vars
<1>4. CASE SendNil
  BY <1>4 DEF SendNil, Channels, vars
<1>5. CASE SendResults
  <2>1. Append(<<>>, measured) = <<measured>>
    OBVIOUS
  <2> QED
    BY <1>5, <2>1 DEF SendResults, MaySendResults, Channels, vars
<1>6. CASE ReceiveResults
  <2>1. Head(<<measured>>) = measured /\ Tail(<<measured>>) = <<>>
    OBVIOUS
  <2> QED
    BY <1>6, <2>1 DEF ReceiveResults, Channels, vars
<1>7. CASE ReceiveErr
  BY <1>7 DEF ReceiveErr, Channels, vars
<1>8. CASE Timeout
  BY <1>8 DEF Timeout, Timer, Channels, vars
<1>9. CASE (\E p \in Pods : ReportPod(p)) \/ ReportFails \/ Return
  BY <1>9 DEF ReportPod, ReportFails, Return, Channels, vars
<1>10. CASE Cluster
  BY <1>1, <1>10 DEF Cluster, Channels, Environment, Reconcile, ForeignCreate,
     ForeignDelete, run
<1>11. CASE UNCHANGED qvars
  BY <1>11 DEF qvars, vars, Channels
<1> QED
  BY <1>2, <1>3, <1>4, <1>5, <1>6, <1>7, <1>8, <1>9, <1>10, <1>11
     DEF QNext, Goroutine, Run, QDone

(***************************************************************************)
(* When Run receives from errChan, a nil is waiting: the receive cannot    *)
(* block and the error branch of lines 107-109 is never taken.             *)
(***************************************************************************)
THEOREM ErrorBranchIsDead == QSpec => []ReceiveErrFindsNil
<1>1. Channels => ReceiveErrFindsNil
  BY DEF Channels, ReceiveErrFindsNil
<1> QED
  BY <1>1, ChannelsInit, ChannelsStep, PTL DEF QSpec

(***************************************************************************)
(* Results are reported only of an experiment that ran to its end, with    *)
(* its MRs deleted under --clean and, when MRs stay ready, all of them     *)
(* measured.                                                               *)
(***************************************************************************)
THEOREM ReportsAreComplete == QSpec => []ReportedIsComplete
<1> DEFINE Steady == Stable /\ "Unknown" \notin Statuses
           QInv == CInv /\ Channels /\ (Steady => Measuring)
<1>1. QInit => QInv
  BY ChannelsInit, CInvInit DEF QInit, Init, Measuring
<1>2. QInv /\ [QNext]_qvars => QInv'
  <2> SUFFICES ASSUME QInv, [QNext]_qvars PROVE QInv'
    OBVIOUS
  <2>1. [Next]_vars
    BY StepOfExperiment
  <2>2. CInv' /\ Channels'
    BY <2>1, CInvStep, ChannelsStep
  <2>3. Steady => Measuring'
    BY <2>1, MeasuringStep DEF CInv
  <2> QED
    BY <2>2, <2>3
<1>3. QInv => ReportedIsComplete
  BY DEF CInv, Channels, Measuring, DeletedWhenReturned, ReportedIsComplete
<1> QED
  BY <1>1, <1>2, <1>3, PTL DEF QSpec
=============================================================================
