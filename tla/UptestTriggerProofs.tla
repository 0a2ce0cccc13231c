------------------------ MODULE UptestTriggerProofs ------------------------
(***************************************************************************)
(* Theorems about UptestTrigger, for any number of runs, contexts and      *)
(* pushes.                                                                 *)
(***************************************************************************)
EXTENDS UptestTrigger, TLAPS

-----------------------------------------------------------------------------
(* Types, and that the second job never sees an older commit than the      *)
(* first.                                                                  *)

TInv ==
    /\ TypeOK
    /\ \A r \in Runs : listed[r] # NoCommit => listed[r] <= head

LEMMA TInvInit == Init => TInv
  BY BoundAssumption DEF Init, TInv, TypeOK, Commits

(* A status that is set is one. *)
LEMMA SetStatusType ==
  ASSUME TypeOK, NEW c \in Commits, NEW r \in Runs,
         NEW state \in {"pending", "success", "failure"}, SetStatus(c, r, state)
  PROVE  status' \in [Commits -> [Contexts -> {"none", "pending", "success", "failure"}]]
<1>1. context[r] \in Contexts
  BY DEF TypeOK
<1>2. [status[c] EXCEPT ![context[r]] = state]
        \in [Contexts -> {"none", "pending", "success", "failure"}]
  BY <1>1 DEF TypeOK
<1>3. status' = [status EXCEPT ![c] = [status[c] EXCEPT ![context[r]] = state]]
  BY DEF SetStatus, TypeOK
<1> QED
  BY <1>2, <1>3 DEF TypeOK

LEMMA TInvNext == TInv /\ [Next]_vars => TInv'
<1> SUFFICES ASSUME TInv, [Next]_vars PROVE TInv'  OBVIOUS
<1> USE BoundAssumption DEF TInv, TypeOK, Commits
<1>1. ASSUME NEW r \in Runs, Trigger(r) PROVE TInv'
  BY <1>1 DEF Trigger, Goto
<1>2. ASSUME NEW r \in Runs, ListExamples(r) PROVE TInv'
  BY <1>2 DEF ListExamples, Goto
<1>3. ASSUME NEW r \in Runs, CreatePendingStatus(r) PROVE TInv'
  BY <1>3, SetStatusType DEF CreatePendingStatus, Goto
<1>4. ASSUME NEW r \in Runs, ListFails(r) PROVE TInv'
  BY <1>4 DEF ListFails, SkipUptest, Goto
<1>5. ASSUME NEW r \in Runs, Checkout(r) PROVE TInv'
  BY <1>5 DEF Checkout, Goto
<1>6. ASSUME NEW r \in Runs, SetupFails(r) PROVE TInv'
  BY <1>6 DEF SetupFails, Goto, Conclude
<1>7. ASSUME NEW r \in Runs, TestPasses(r) PROVE TInv'
  BY <1>7 DEF TestPasses, Goto
<1>8. ASSUME NEW r \in Runs, TestFails(r) PROVE TInv'
  BY <1>8 DEF TestFails, Goto, Conclude
<1>9. ASSUME NEW r \in Runs, CreateSuccessfulStatus(r) PROVE TInv'
  <2>1. status' \in [Commits -> [Contexts -> {"none", "pending", "success", "failure"}]]
    BY <1>9, SetStatusType DEF CreateSuccessfulStatus, VerdictCommit
  <2>2. job' \in [Runs -> {"ok", "failed", "skipped", "cancelled", "lost", "unreported"}]
    BY <1>9 DEF CreateSuccessfulStatus, Conclude
  <2>3. QED  BY <1>9, <2>1, <2>2 DEF CreateSuccessfulStatus, Goto
<1>10. ASSUME NEW r \in Runs, Dump(r) PROVE TInv'
  BY <1>10 DEF Dump, Goto, Conclude
<1>11. ASSUME NEW r \in Runs, Cleanup(r) PROVE TInv'
  <2>1. cloud' = [cloud EXCEPT ![r] = FALSE]
    BY <1>11, Zenon DEF Cleanup, Always
  <2>2. cloud' \in [Runs -> BOOLEAN]
    BY <2>1
  <2>3. QED  BY <1>11, <2>2 DEF Cleanup, Goto
<1>12. ASSUME NEW r \in Runs, CreateUnsuccessfulStatus(r) PROVE TInv'
  BY <1>12, SetStatusType DEF CreateUnsuccessfulStatus, Goto, VerdictCommit
<1>13. ASSUME NEW r \in Runs, NoUnsuccessfulStatus(r) PROVE TInv'
  BY <1>13 DEF NoUnsuccessfulStatus, Goto, Conclude
<1>14. ASSUME NEW r \in Runs, Cancel(r) PROVE TInv'
  BY <1>14 DEF Cancel, Goto, Conclude
<1>15. ASSUME NEW r \in Runs, Lose(r) PROVE TInv'
  BY <1>15 DEF Lose, Goto, Conclude
<1>16. ASSUME NEW r \in Runs, SkipJob(r) PROVE TInv'
  BY <1>16 DEF SkipJob, Goto, Conclude
<1>17. CASE Push
  BY <1>17 DEF Push
<1>18. CASE Done \/ UNCHANGED vars
  BY <1>18 DEF Done, vars
<1>19. QED
  BY <1>1, <1>2, <1>3, <1>4, <1>5, <1>6, <1>7, <1>8, <1>9, <1>10, <1>11, <1>12,
     <1>13, <1>14, <1>15, <1>16, <1>17,
     <1>18 DEF Next, Step

(***************************************************************************)
(* Type correctness; a test runs on the commit that was listed or a later  *)
(* one (pr-comment-trigger.yml:79-272).                                    *)
(***************************************************************************)
THEOREM TypeCorrect == Spec => []TypeOK
<1>1. TInv => TypeOK  BY DEF TInv
<1>2. QED  BY <1>1, TInvInit, TInvNext, PTL DEF Spec

-----------------------------------------------------------------------------
(* What a run is about to report as a success has passed. *)

SInv ==
    /\ SuccessWasTested
    /\ \A r \in Runs : stage[r] = "success" => <<tested[r], context[r]>> \in passed

LEMMA SInvInit == Init => SInv
  BY DEF Init, SInv, SuccessWasTested

(* A status that is set, to another state than success, adds no success. *)
LEMMA NoSuccessSet ==
  ASSUME TypeOK, NEW d, NEW r \in Runs,
         NEW state \in {"pending", "failure"}, SetStatus(d, r, state)
  PROVE  \A c \in Commits, x \in Contexts :
           status'[c][x] = "success" => status[c][x] = "success"
<1> SUFFICES ASSUME NEW c \in Commits, NEW x \in Contexts, status'[c][x] = "success"
             PROVE  status[c][x] = "success"
  OBVIOUS
<1>1. CASE c = d /\ x = context[r]
  BY <1>1 DEF SetStatus, TypeOK
<1>2. CASE c = d /\ x # context[r]
  BY <1>2 DEF SetStatus, TypeOK
<1>3. CASE c # d
  BY <1>3 DEF SetStatus, TypeOK
<1> QED  BY <1>1, <1>2, <1>3

LEMMA SInvNext == TInv /\ SInv /\ [Next]_vars => SInv'
<1> SUFFICES ASSUME TInv, SInv, [Next]_vars PROVE SInv'  OBVIOUS
<1> USE DEF SInv, SuccessWasTested, TInv, TypeOK
<1>1. ASSUME NEW r \in Runs, CreateSuccessfulStatus(r) PROVE SInv'
  <2>1. \A c \in Commits, x \in Contexts :
          status'[c][x] # status[c][x] => c = tested[r] /\ x = context[r]
    BY <1>1 DEF CreateSuccessfulStatus, SetStatus, VerdictCommit
  <2>2. <<tested[r], context[r]>> \in passed
    BY <1>1 DEF CreateSuccessfulStatus
  <2>3. QED  BY <1>1, <2>1, <2>2 DEF CreateSuccessfulStatus, Goto
<1>2. ASSUME NEW r \in Runs, CreatePendingStatus(r) \/ CreateUnsuccessfulStatus(r)
      PROVE  SInv'
  <2>1. \A c \in Commits, x \in Contexts :
          status'[c][x] = "success" => status[c][x] = "success"
    <3>1. CASE CreatePendingStatus(r)
      BY <3>1, NoSuccessSet DEF CreatePendingStatus
    <3>2. CASE CreateUnsuccessfulStatus(r)
      BY <3>2, NoSuccessSet DEF CreateUnsuccessfulStatus
    <3> QED  BY <1>2, <3>1, <3>2
  <2>2. \A q \in Runs : stage'[q] = "success" => stage[q] = "success"
    BY <1>2 DEF CreatePendingStatus, CreateUnsuccessfulStatus, Goto
  <2>3. UNCHANGED <<tested, context, passed>>
    BY <1>2 DEF CreatePendingStatus, CreateUnsuccessfulStatus
  <2>4. QED  BY <2>1, <2>2, <2>3
<1>3. ASSUME NEW r \in Runs, TestPasses(r) PROVE SInv'
  BY <1>3 DEF TestPasses, Goto
<1>4. ASSUME NEW r \in Runs, Trigger(r) \/ ListExamples(r) \/ ListFails(r)
                               \/ SkipJob(r) \/ Checkout(r)
      PROVE  SInv'
  BY <1>4 DEF Trigger, ListExamples, ListFails, SkipUptest, SkipJob, Checkout, Goto
<1>5. ASSUME NEW r \in Runs, SetupFails(r) \/ TestFails(r) \/ Dump(r) \/ Cleanup(r)
      PROVE  SInv'
  BY <1>5 DEF SetupFails, TestFails, Dump, Cleanup, Goto
<1>6. ASSUME NEW r \in Runs, NoUnsuccessfulStatus(r) \/ Cancel(r) \/ Lose(r) PROVE SInv'
  BY <1>6 DEF NoUnsuccessfulStatus, Cancel, Lose, Goto
<1>7. CASE Push \/ Done \/ UNCHANGED vars
  BY <1>7 DEF Push, Done, vars
<1>8. QED
  BY <1>1, <1>2, <1>3, <1>4, <1>5, <1>6, <1>7 DEF Next, Step

(***************************************************************************)
(* A successful status is on a commit on which these examples have passed, *)
(* whatever is pushed, cancelled, lost or run side by side (173-239).      *)
(***************************************************************************)
THEOREM SuccessesTested == Spec => []SuccessWasTested
<1>1. SInv => SuccessWasTested  BY DEF SInv
<1>2. QED  BY <1>1, TInvInit, TInvNext, SInvInit, SInvNext, PTL DEF Spec

-----------------------------------------------------------------------------
(* Between a test and the cleanup, the run goes through the other steps.   *)

CInv ==
    \A r \in Runs : cloud[r] => stage[r] \in {"dump", "cleanup"} \/ job[r] = "lost"

(* A run that was lost has ended. *)
LostEnded == \A r \in Runs : job[r] = "lost" => stage[r] = "ended"

LEMMA CInvNext == TInv /\ LostEnded /\ CInv /\ [Next]_vars => LostEnded' /\ CInv'
<1> SUFFICES ASSUME TInv, LostEnded, CInv, [Next]_vars PROVE LostEnded' /\ CInv'
  OBVIOUS
<1> USE DEF CInv, LostEnded, TInv, TypeOK
<1>1. ASSUME NEW r \in Runs, Trigger(r) \/ ListExamples(r) \/ CreatePendingStatus(r)
                               \/ ListFails(r) \/ Checkout(r) \/ TestPasses(r)
      PROVE  LostEnded' /\ CInv'
  BY <1>1 DEF Trigger, ListExamples, CreatePendingStatus, ListFails, SkipUptest,
              Checkout, TestPasses, Goto
<1>2. ASSUME NEW r \in Runs, SkipJob(r) \/ SetupFails(r) \/ TestFails(r) \/ CreateSuccessfulStatus(r)
                               \/ Dump(r)
      PROVE  LostEnded' /\ CInv'
  BY <1>2 DEF SkipJob, SetupFails, TestFails, CreateSuccessfulStatus, Dump, Goto, Conclude
<1>3. ASSUME NEW r \in Runs, Cleanup(r) PROVE LostEnded' /\ CInv'
  <2>1. cloud' = [cloud EXCEPT ![r] = FALSE]
    BY <1>3, Zenon DEF Cleanup, Always
  <2>2. QED  BY <1>3, <2>1 DEF Cleanup, Goto
<1>4. ASSUME NEW r \in Runs, CreateUnsuccessfulStatus(r) \/ NoUnsuccessfulStatus(r)
      PROVE  LostEnded' /\ CInv'
  BY <1>4 DEF CreateUnsuccessfulStatus, NoUnsuccessfulStatus, Goto, Conclude
<1>5. ASSUME NEW r \in Runs, Cancel(r) PROVE LostEnded' /\ CInv'
  BY <1>5 DEF Cancel, Goto, Conclude
<1>6. ASSUME NEW r \in Runs, Lose(r) PROVE LostEnded' /\ CInv'
  BY <1>6 DEF Lose, Underway, Goto, Conclude
<1>7. CASE Push \/ Done \/ UNCHANGED vars
  BY <1>7 DEF Push, Done, vars
<1>8. QED
  BY <1>1, <1>2, <1>3, <1>4, <1>5, <1>6, <1>7 DEF Next, Step

(***************************************************************************)
(* No run ends before the cleanup of what its tests left in the cloud,     *)
(* unless its runner is lost (241-257).                                    *)
(***************************************************************************)
THEOREM RunsSweep == Spec => []SweptAtEnd
<1>1. Init => LostEnded /\ CInv  BY DEF Init, LostEnded, CInv
<1>2. CInv => SweptAtEnd  BY DEF CInv, SweptAtEnd
<1>3. QED  BY <1>1, <1>2, TInvInit, TInvNext, CInvNext, PTL DEF Spec
=============================================================================
