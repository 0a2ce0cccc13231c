------------------------------- MODULE Quantify -------------------------------
(***************************************************************************)
(* The quantify command of cmd/perf (internal/quantify.go): Run starts the *)
(* experiment of module Experiment in a goroutine, waits for its results   *)
(* or for the timeout, and then reports on every provider pod.  The        *)
(* goroutine dies with the process, wherever it is.                        *)
(***************************************************************************)
EXTENDS Experiment

CONSTANTS
    Pods,      \* the names in --provider-pods
    NoResults  \* the nil slice of results that a timeout leaves

ASSUME PodsAssumption == IsFiniteSet(Pods)

ASSUME NoResultsAssumption == NoResults \notin [Templates -> SUBSET MRs]

VARIABLES
    goroutine,  \* "run", "results" (the error is sent), "end"
    errChan,    \* buffer of the channel of errors
    results,    \* buffer of the channel of results
    main,       \* where Run is, and how the process ended
    reported,   \* timeToReadinessResults in Run
    pods        \* provider pods that processPods still has to report

qvars == <<vars, goroutine, errChan, results, main, reported, pods>>

Exited == main \in {"ok", "error", "crashed"}

(* The buffer sizes of lines 92 and 93. *)
ErrCap == 1
ResultsCap == 5

QTypeOK ==
    /\ TypeOK
    /\ goroutine \in {"run", "results", "end"}
    /\ errChan \in Seq({"nil", "error"})
    /\ results \in Seq([Templates -> SUBSET MRs])
    /\ main \in {"select", "recvErr", "report", "ok", "error", "crashed"}
    /\ reported \in [Templates -> SUBSET MRs] \cup {NoResults}
    /\ pods \subseteq Pods

QInit ==
    /\ Init
    /\ goroutine = "run"
    /\ errChan = <<>> /\ results = <<>>
    /\ main = "select"
    /\ reported = NoResults
    /\ pods = Pods

-----------------------------------------------------------------------------
(* The goroutine of lines 94-102. *)

(* A panic or an exit in the goroutine ends the process. *)
Experiment ==
    /\ ~Exited /\ goroutine = "run"
    /\ RunExperiment
    /\ main' = IF pc' \in {"panicked", "died"} THEN "crashed" ELSE main
    /\ UNCHANGED <<goroutine, errChan, results, reported, pods>>

SendError ==
    /\ ~Exited /\ goroutine = "run" /\ pc = "failed"
    /\ Len(errChan) < ErrCap
    /\ errChan' = Append(errChan, "error")
    /\ goroutine' = "end"
    /\ UNCHANGED <<vars, results, main, reported, pods>>

(* The nil error of a success is sent before the results. *)
SendNil ==
    /\ ~Exited /\ goroutine = "run" /\ pc = "returned"
    /\ Len(errChan) < ErrCap
    /\ errChan' = Append(errChan, "nil")
    /\ goroutine' = "results"
    /\ UNCHANGED <<vars, results, main, reported, pods>>

(* Mutant: the results are sent first, so the nil error may come late. *)
MaySendResultsEarly == pc = "returned"

MaySendResults == goroutine = "results"

SendResults ==
    /\ ~Exited /\ MaySendResults
    /\ Len(results) < ResultsCap
    /\ results' = Append(results, measured)
    /\ goroutine' = "end"
    /\ UNCHANGED <<vars, errChan, main, reported, pods>>

Goroutine == Experiment \/ SendError \/ SendNil \/ SendResults

-----------------------------------------------------------------------------
(* Run: the select of lines 105-113. *)

ReceiveResults ==
    /\ main = "select" /\ results # <<>>
    /\ reported' = Head(results)
    /\ results' = Tail(results)
    /\ main' = "recvErr"
    /\ UNCHANGED <<vars, goroutine, errChan, pods>>

(* The select has no case for errChan: it is read after the results. *)
ReceiveErr ==
    /\ main = "recvErr" /\ errChan # <<>>
    /\ main' = IF Head(errChan) = "nil" THEN "report" ELSE "error"
    /\ errChan' = Tail(errChan)
    /\ UNCHANGED <<vars, goroutine, results, reported, pods>>

(* Mutant: a select without the case of time.After. *)
TimerNever == FALSE

Timer == main = "select"

(* "Experiment duration exceeded" *)
Timeout ==
    /\ Timer
    /\ main' = "report"
    /\ UNCHANGED <<vars, goroutine, errChan, results, reported, pods>>

(* processPods: the metrics of a pod, and the results once more. *)
ReportPod(p) ==
    /\ main = "report" /\ p \in pods
    /\ pods' = pods \ {p}
    /\ UNCHANGED <<vars, goroutine, errChan, results, main, reported>>

(* Prometheus does not answer, or not with a matrix. *)
ReportFails ==
    /\ faults
    /\ main = "report" /\ pods # {}
    /\ main' = "error"
    /\ UNCHANGED <<vars, goroutine, errChan, results, reported, pods>>

Return ==
    /\ main = "report" /\ pods = {}
    /\ main' = "ok"
    /\ UNCHANGED <<vars, goroutine, errChan, results, reported, pods>>

Run ==
    \/ ReceiveResults \/ ReceiveErr \/ Timeout
    \/ \E p \in Pods : ReportPod(p)
    \/ ReportFails \/ Return

(* The cluster outlives the process. *)
Cluster ==
    /\ Environment
    /\ UNCHANGED <<goroutine, errChan, results, main, reported, pods>>

QDone == Exited /\ UNCHANGED qvars

QNext == Goroutine \/ Run \/ Cluster \/ QDone

(* Run is scheduled, and time.After fires. *)
QSpec == QInit /\ [][QNext]_qvars /\ WF_qvars(Run)

-----------------------------------------------------------------------------
(* Properties. *)

(***************************************************************************)
(* The receive of line 107 neither blocks nor finds an error: the nil of   *)
(* line 100 is in the buffer before the results of line 101 are.           *)
(***************************************************************************)
ReceiveErrFindsNil == main = "recvErr" => errChan = <<"nil">>

(***************************************************************************)
(* Reported results are those of an experiment that ran to its end: they   *)
(* are what it measured, every MR that stays ready is among them, and with *)
(* --clean no MR is left when they are reported (100-110, managed.go:71).  *)
(***************************************************************************)
ReportedIsComplete ==
    reported # NoResults =>
        /\ reported = measured
        /\ Stable /\ "Unknown" \notin Statuses =>
             \A t \in Templates : Own(t) \subseteq reported[t]
        /\ Clean => \A m \in Owned : ~Present(m)

(***************************************************************************)
(* The command ends even if the experiment never does: no MR need become   *)
(* ready, and no error need arrive (105-113).                              *)
(***************************************************************************)
Ends == <>Exited
=============================================================================
