---------------------------- MODULE MCImportRuns ----------------------------
(* Small instances of ImportRuns for TLC: the bounds each run puts on events. *)
EXTENDS ImportRuns, TLC

NoOptional  == {}
SecondStage == {2}

Quiet == [e \in Events |-> 0]

CancelAndRetry == [Quiet EXCEPT !["cancel"] = 1, !["retry"] = 1, !["fail"] = 2]
RetryAndOutage == [Quiet EXCEPT !["retry"] = 1, !["cancel"] = 1, !["outage"] = 1]
TickAndCrash   == [Quiet EXCEPT !["tick"] = 1, !["crash"] = 1, !["fail"] = 1]
CrashAndCancel == [Quiet EXCEPT !["crash"] = 1, !["cancel"] = 1, !["delay"] = 1,
                                !["fail"] = 2]
StopAndRetry   == [Quiet EXCEPT !["halt"] = 1, !["resume"] = 1, !["delay"] = 1,
                                !["retry"] = 1, !["shutdown"] = 1, !["fail"] = 2]
StopAndCancel  == [Quiet EXCEPT !["crash"] = 1, !["halt"] = 1, !["resume"] = 1,
                                !["cancel"] = 1, !["delay"] = 1]
OneCancel      == [Quiet EXCEPT !["cancel"] = 1]
OutageAndTicks == [Quiet EXCEPT !["outage"] = 1, !["tick"] = Unbounded]

Races   == {CancelAndRetry, RetryAndOutage, TickAndCrash}
Mishaps == {CrashAndCancel, CancelAndRetry, StopAndRetry}
Stop    == {StopAndCancel}
Strand  == {OneCancel}
Lost    == {OutageAndTicks}

WorkerSymmetry == Permutations(Workers)
=============================================================================
