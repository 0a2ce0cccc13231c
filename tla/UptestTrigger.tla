---------------------------- MODULE UptestTrigger ----------------------------
(***************************************************************************)
(* The workflow that tests examples of a pull request when a comment asks  *)
(* for it (.github/workflows/pr-comment-trigger.yml), in any number of     *)
(* runs side by side.  Two jobs, one after the other, check the pull       *)
(* request out, so that the first one may see another commit than the      *)
(* second; both set the commit status whose context names the examples.    *)
(***************************************************************************)
EXTENDS Naturals

CONSTANTS
    Runs,      \* runs of the workflow
    Contexts,  \* statuses, Uptest-<hash of the list of examples>
    Allowed,   \* what the condition of the job uptest may evaluate to
    MaxHead,   \* bound: the commits that are pushed
    NoCommit

Commits == 0..MaxHead

ASSUME AllowedAssumption == Allowed \subseteq BOOLEAN

ASSUME BoundAssumption == MaxHead \in Nat /\ NoCommit \notin Commits

VARIABLES
    head,     \* the last commit of the pull request
    status,   \* the last state of each commit and context
    stage,    \* the step that each run is at
    job,      \* what became of its job uptest so far
    context,  \* the context of each run
    listed,   \* the commit that its job get-example-list checked out
    tested,   \* the commit that its job uptest checked out
    cloud,    \* its tests left resources that no step tried to delete
    passed    \* what tests have passed: commits and contexts

vars == <<head, status, stage, job, context, listed, tested, cloud, passed>>

Init ==
    /\ head = 0
    /\ status = [c \in Commits |-> [x \in Contexts |-> "none"]]
    /\ stage = [r \in Runs |-> "idle"]
    /\ job = [r \in Runs |-> "ok"]
    /\ context \in [Runs -> Contexts]
    /\ listed = [r \in Runs |-> NoCommit]
    /\ tested = [r \in Runs |-> NoCommit]
    /\ cloud = [r \in Runs |-> FALSE]
    /\ passed = {}

Goto(r, s) == stage' = [stage EXCEPT ![r] = s]

Conclude(r, j) == job' = [job EXCEPT ![r] = j]

SetStatus(c, r, state) == status' = [status EXCEPT ![c][context[r]] = state]

-----------------------------------------------------------------------------
(* check-permissions and get-example-list *)

(* A comment or a label starts a run; who may not maintain is refused. *)
Trigger(r) ==
    /\ stage[r] = "idle"
    /\ Goto(r, "list") \/ Goto(r, "ended")
    /\ UNCHANGED <<head, status, job, context, listed, tested, cloud, passed>>

(* Checkout PR, and the list of the examples of this commit. *)
ListExamples(r) ==
    /\ stage[r] = "list"
    /\ listed' = [listed EXCEPT ![r] = head]
    /\ Goto(r, "pending")
    /\ UNCHANGED <<head, status, job, context, tested, cloud, passed>>

CreatePendingStatus(r) ==
    /\ stage[r] = "pending"
    /\ SetStatus(listed[r], r, "pending")
    /\ Goto(r, "uptest")
    /\ UNCHANGED <<head, job, context, listed, tested, cloud, passed>>

(* Mutant: the job uptest does not need this one. *)
UptestAlways(r) == Goto(r, "uptest")

(* needs: get-example-list *)
SkipUptest(r) == Goto(r, "ended")

(* A step fails, and the job uptest is not run. *)
ListFails(r) ==
    /\ stage[r] \in {"list", "pending"}
    /\ SkipUptest(r)
    /\ UNCHANGED <<head, status, job, context, listed, tested, cloud, passed>>

-----------------------------------------------------------------------------
(* uptest *)

(* The condition of the job reads an output of check-permissions (142).    *)
(* The job needs get-example-list only (144): GitHub fills "needs" for the *)
(* jobs that are needed directly, so the condition is not met and the job  *)
(* is skipped.  Both outcomes are modelled, and what follows a condition   *)
(* that is met; a skipped job leaves the status of the first one pending.  *)
SkipJob(r) ==
    /\ stage[r] = "uptest" /\ FALSE \in Allowed
    /\ Conclude(r, "skipped")
    /\ Goto(r, "ended")
    /\ UNCHANGED <<head, status, context, listed, tested, cloud, passed>>

(* Checkout PR *)
Checkout(r) ==
    /\ stage[r] = "uptest" /\ TRUE \in Allowed
    /\ tested' = [tested EXCEPT ![r] = head]
    /\ Goto(r, "test")
    /\ UNCHANGED <<head, status, job, context, listed, cloud, passed>>

(* The checkout or a step before it fails. *)
SetupFails(r) ==
    /\ stage[r] = "uptest" /\ TRUE \in Allowed
    /\ Conclude(r, "failed")
    /\ Goto(r, "dump")
    /\ UNCHANGED <<head, status, context, listed, tested, cloud, passed>>

(* Run Uptest: make e2e creates resources in the cloud and deletes them. *)
TestPasses(r) ==
    /\ stage[r] = "test"
    /\ passed' = passed \cup {<<tested[r], context[r]>>}
    /\ Goto(r, "success")
    /\ UNCHANGED <<head, status, job, context, listed, tested, cloud>>

TestFails(r) ==
    /\ stage[r] = "test"
    /\ cloud' = [cloud EXCEPT ![r] = TRUE]
    /\ Conclude(r, "failed")
    /\ Goto(r, "dump")
    /\ UNCHANGED <<head, status, context, listed, tested, passed>>

(* Mutant: the status is set on the commit of the first job. *)
VerdictListed(r) == listed[r]

(* steps.checkout-pr.outputs.commit-sha *)
VerdictCommit(r) == tested[r]

CreateSuccessfulStatus(r) ==
    /\ stage[r] = "success"
    /\ \/ SetStatus(VerdictCommit(r), r, "success") /\ UNCHANGED job
       \/ Conclude(r, "failed") /\ UNCHANGED status
    /\ Goto(r, "dump")
    /\ UNCHANGED <<head, context, listed, tested, cloud, passed>>

(* Collect and Upload Cluster Dump; either may fail, after a success, too. *)
Dump(r) ==
    /\ stage[r] = "dump"
    /\ UNCHANGED job \/ (job[r] = "ok" /\ Conclude(r, "failed"))
    /\ Goto(r, "cleanup")
    /\ UNCHANGED <<head, status, context, listed, tested, cloud, passed>>

(* Mutant: if: success() *)
OnSuccess(r) == job[r] = "ok"

(* if: always() *)
Always(r) == TRUE

(* kubectl delete managed --all || true: the step does not fail. *)
Cleanup(r) ==
    /\ stage[r] = "cleanup"
    /\ cloud' = [cloud EXCEPT ![r] = @ /\ ~Always(r)]
    /\ Goto(r, "report")
    /\ UNCHANGED <<head, status, job, context, listed, tested, passed>>

(* if: failure() *)
OnFailure(r) == job[r] = "failed"

CreateUnsuccessfulStatus(r) ==
    /\ stage[r] = "report" /\ OnFailure(r) /\ tested[r] # NoCommit
    /\ SetStatus(VerdictCommit(r), r, "failure")
    /\ Goto(r, "ended")
    /\ UNCHANGED <<head, job, context, listed, tested, cloud, passed>>

(* Not due, or the request fails, as it does without a commit. *)
NoUnsuccessfulStatus(r) ==
    /\ stage[r] = "report"
    /\ Conclude(r, IF OnFailure(r) THEN "unreported" ELSE job[r])
    /\ Goto(r, "ended")
    /\ UNCHANGED <<head, status, context, listed, tested, cloud, passed>>

-----------------------------------------------------------------------------
Underway(r) == stage[r] \notin {"idle", "ended"}

(* The run is cancelled: only the steps with always() are run. *)
Cancel(r) ==
    /\ stage[r] \in {"test", "success", "dump", "cleanup", "report"}
    /\ job[r] # "cancelled"
    /\ Conclude(r, "cancelled")
    /\ Goto(r, IF stage[r] \in {"cleanup", "report"} THEN stage[r] ELSE "dump")
    /\ cloud' = [cloud EXCEPT ![r] = @ \/ stage[r] = "test"]
    /\ UNCHANGED <<head, status, context, listed, tested, passed>>

(* It is cancelled before uptest begins, or the runner is lost with all    *)
(* it was going to do.                                                     *)
Lose(r) ==
    /\ Underway(r)
    /\ Conclude(r, "lost")
    /\ Goto(r, "ended")
    /\ cloud' = [cloud EXCEPT ![r] = @ \/ stage[r] = "test"]
    /\ UNCHANGED <<head, status, context, listed, tested, passed>>

Push ==
    /\ head < MaxHead
    /\ head' = head + 1
    /\ UNCHANGED <<status, stage, job, context, listed, tested, cloud, passed>>

(* What the runner does, step by step. *)
Step(r) ==
    \/ ListExamples(r) \/ CreatePendingStatus(r) \/ ListFails(r)
    \/ SkipJob(r) \/ Checkout(r) \/ SetupFails(r) \/ TestPasses(r) \/ TestFails(r)
    \/ CreateSuccessfulStatus(r) \/ Dump(r) \/ Cleanup(r)
    \/ CreateUnsuccessfulStatus(r) \/ NoUnsuccessfulStatus(r)

Done == (\A r \in Runs : stage[r] = "ended") /\ UNCHANGED vars

Next ==
    \/ \E r \in Runs : Trigger(r) \/ Step(r) \/ Cancel(r) \/ Lose(r)
    \/ Push
    \/ Done

Spec == Init /\ [][Next]_vars /\ \A r \in Runs : WF_vars(Step(r))

-----------------------------------------------------------------------------
(* Properties. *)

TypeOK ==
    /\ head \in Commits
    /\ status \in [Commits -> [Contexts -> {"none", "pending", "success", "failure"}]]
    /\ stage \in [Runs -> {"idle", "list", "pending", "uptest", "test", "success",
                           "dump", "cleanup", "report", "ended"}]
    /\ job \in [Runs -> {"ok", "failed", "skipped", "cancelled", "lost",
                         "unreported"}]
    /\ context \in [Runs -> Contexts]
    /\ listed \in [Runs -> Commits \cup {NoCommit}]
    /\ tested \in [Runs -> Commits \cup {NoCommit}]
    /\ \A r \in Runs : stage[r] \in {"pending", "uptest", "test"} => listed[r] # NoCommit
    /\ \A r \in Runs : stage[r] \in {"test", "success"} =>
         tested[r] # NoCommit /\ listed[r] <= tested[r]
    /\ cloud \in [Runs -> BOOLEAN]
    /\ passed \subseteq Commits \X Contexts

(***************************************************************************)
(* A commit has a successful status only if these very examples have       *)
(* passed on this very commit, whatever was pushed between the two jobs    *)
(* and whichever runs set statuses of the same context (173-239).          *)
(***************************************************************************)
SuccessWasTested ==
    \A c \in Commits, x \in Contexts :
        status[c][x] = "success" => <<c, x>> \in passed

(***************************************************************************)
(* A run that has begun to test a commit gives its verdict on that commit: *)
(* a success, or a failure of any step, the cluster dump after a success   *)
(* included, unless it is cancelled or lost, or cannot set the status      *)
(* (173-190, 227-272).  The commit that the first job set pending is not   *)
(* promised anything: after a push in between its status stays pending,    *)
(* as it does if the job uptest is skipped or fails before its checkout.   *)
(***************************************************************************)
VerdictGiven ==
    \A r \in Runs :
        stage[r] = "test" ~>
            \/ \E c \in Commits :
                  c = tested[r] /\ status[c][context[r]] \in {"success", "failure"}
            \/ job[r] \in {"cancelled", "lost", "unreported"}

(***************************************************************************)
(* Whether its tests pass, fail or are cancelled, no run ends before a     *)
(* step tried to delete what they left in the cloud (241-257).             *)
(***************************************************************************)
SweptAtEnd ==
    \A r \in Runs : stage[r] = "ended" /\ job[r] # "lost" => ~cloud[r]
=============================================================================
