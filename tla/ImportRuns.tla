----------------------------- MODULE ImportRuns -----------------------------
(***************************************************************************)
(* Website import runs: the ImportJob records in MongoDB, the BullMQ jobs   *)
(* that point at them, the Redis control flags, the workers that execute    *)
(* one pipeline stage at a time, the admin API and the recheck scheduler.   *)
(*                                                                         *)
(* A run is a chain of stages; every stage is one ImportJob.  Each await    *)
(* on MongoDB, Redis or BullMQ that changes or reads shared state is a step *)
(* of its own, so every interleaving of workers, admins and the scheduler   *)
(* is covered.  A run is numbered; its stage k is the job <<run, k>>.       *)
(***************************************************************************)
EXTENDS Naturals, FiniteSets

CONSTANTS
    Sites,        \* websites (scrapedWebsiteRef)
    Keys,         \* work keys of single-job runs that check no website
    NoTarget,     \* stands for "no website or key"
    Workers,      \* concurrent StageRunner.process slots
    Admins,       \* admin requests in progress
    Scheduler,    \* the recheck scheduler's tick (concurrency 1)
    MaxRuns,      \* bound: runs ever created
    LastStage,    \* the number of stages in a run (recheck_offer is the last)
    Optional,     \* stages a run may skip (render_pages)
    MaxEntries,   \* bound: BullMQ jobs that exist at one time
    MaxAttempts,  \* JOB_RETRY.attempts
    MaxStalls,    \* BullMQ maxStalledCount: recoveries before a job is failed
    Limits,       \* bound: the ways the events below may be combined: each says
                  \* how often each kind of event may happen
    Unbounded     \* the limit of an event that may always happen again

Events ==
    {"crash", "outage", "shutdown", "delay", "fail", "cancel", "retry", "halt",
     "resume", "tick"}

ASSUME RunConstants ==
    /\ MaxRuns \in Nat \ {0}
    /\ LastStage \in Nat \ {0}
    /\ MaxEntries \in Nat \ {0}
    /\ MaxAttempts \in Nat \ {0}
    /\ MaxStalls \in Nat
    /\ Optional \subseteq 2 .. (LastStage - 1)
    /\ Limits \subseteq [Events -> Nat \cup {Unbounded}]
    /\ Unbounded \notin Nat

\* Some limit counts these events, so that `spent` tells whether one has happened.
ASSUME CountedEvents ==
    \A e \in {"crash", "outage", "retry", "cancel"} :
        \E limit \in Limits : limit[e] # Unbounded

ASSUME ActorConstants ==
    /\ Scheduler \notin Admins
    /\ Sites \cap Keys = {}
    /\ NoTarget \notin Sites \cup Keys

Runs    == 1 .. MaxRuns
Stages  == 1 .. LastStage
Jobs    == Runs \X Stages
Entries == 1 .. MaxEntries
Clients == Admins \cup {Scheduler}
Targets == Sites \cup Keys

NoJob    == <<0, 0>>
NoEntry  == 0

RunOf(j)   == j[1]
StageOf(j) == j[2]

Active   == {"queued", "running", "delayed"}
Finished == {"completed", "failed", "cancelled", "dead_lettered"}
Statuses == Active \cup Finished \cup {"none"}

WorkerSteps ==
    {"idle", "control", "cancelSeen", "delay", "moveDelayed", "mark", "run",
     "complete", "next", "create", "enqueue", "stopped", "stopCancel", "stopRemove",
     "fail", "error", "throw", "failedSite", "deadSite", "deadLetter", "return"}
ClientSteps ==
    {"idle", "start", "create", "find", "enqueue", "markScheduled", "cancelJobs",
     "removePending", "pause", "unpause"}

VARIABLES
    status,      \* ImportJob.status of each job, "none" before it is created
    slot,        \* whether ImportJob.activeKey is set: the (stage, URL) slot
    attempts,    \* ImportJob.attempts
    target,      \* what a run works on: a website, or the key of a single job
    nextCheck,   \* ScrapedWebsite.nextCheckAt: "none", "due", "provisional"
                 \* (markScheduled) or "set" (a run reported back)
    halted,      \* Redis scraper:halt
    cancelled,   \* runs with a Redis scraper:cancel:run:<id> key
    entry,       \* the BullMQ jobs of the stage queues
    paused,      \* the stage queues are paused
    deadLetter,  \* jobs recorded in the dead-letter queue
    wpc,         \* where each worker slot is in StageRunner.process
    wentry,      \* the BullMQ job it holds
    wnext,       \* the stage it is about to create or enqueue
    aborted,     \* its AbortController has fired
    cpc,         \* where each client is in RunsService
    cjob,        \* the job (or a job of the run) the client works on
    ctarget,     \* what the client starts a run for
    spent,       \* how many of each bounded event have happened
    lateJobs     \* history: jobs created after their run was cancelled

jobVars     == <<status, slot, attempts, target>>
controlVars == <<halted, cancelled>>
queueVars   == <<entry, paused, deadLetter>>
workerVars  == <<wpc, wentry, wnext, aborted>>
clientVars  == <<cpc, cjob, ctarget>>
vars == <<jobVars, nextCheck, controlVars, queueVars, workerVars, clientVars,
          spent, lateJobs>>

FreeEntry == [job |-> NoJob, state |-> "free", made |-> 0, stalls |-> 0]
BullJob   == [job : Jobs \cup {NoJob}, state : {"free", "waiting", "active"},
              made : 0 .. MaxAttempts, stalls : 0 .. MaxStalls]

TypeOK ==
    /\ status \in [Jobs -> Statuses]
    /\ slot \in [Jobs -> BOOLEAN]
    /\ attempts \in [Jobs -> 0 .. MaxAttempts]
    /\ target \in [Runs -> Targets \cup {NoTarget}]
    /\ nextCheck \in [Sites -> {"none", "due", "provisional", "set"}]
    /\ halted \in BOOLEAN
    /\ cancelled \in SUBSET Runs
    /\ entry \in [Entries -> BullJob]
    /\ paused \in BOOLEAN
    /\ deadLetter \in SUBSET Jobs
    /\ wpc \in [Workers -> WorkerSteps]
    /\ wentry \in [Workers -> Entries \cup {NoEntry}]
    /\ wnext \in [Workers -> Stages]
    /\ aborted \in [Workers -> BOOLEAN]
    /\ cpc \in [Clients -> ClientSteps]
    /\ cjob \in [Clients -> Jobs \cup {NoJob}]
    /\ ctarget \in [Clients -> Targets \cup {NoTarget}]
    /\ spent \in [Events -> Nat]
    /\ lateJobs \in SUBSET Jobs

Init ==
    /\ status = [j \in Jobs |-> "none"]
    /\ slot = [j \in Jobs |-> FALSE]
    /\ attempts = [j \in Jobs |-> 0]
    /\ target = [r \in Runs |-> NoTarget]
    /\ nextCheck \in [Sites -> {"none", "set"}]
    /\ halted = FALSE
    /\ cancelled = {}
    /\ entry = [b \in Entries |-> FreeEntry]
    /\ paused = FALSE
    /\ deadLetter = {}
    /\ wpc = [w \in Workers |-> "idle"]
    /\ wentry = [w \in Workers |-> NoEntry]
    /\ wnext = [w \in Workers |-> 1]
    /\ aborted = [w \in Workers |-> FALSE]
    /\ cpc = [c \in Clients |-> "idle"]
    /\ cjob = [c \in Clients |-> NoJob]
    /\ ctarget = [c \in Clients |-> NoTarget]
    /\ spent = [e \in Events |-> 0]
    /\ lateJobs = {}

-----------------------------------------------------------------------------
(* What the records say.                                                   *)

Job(w)      == entry[wentry[w]].job
TargetOf(j) == target[RunOf(j)]
IsCheck(j)  == TargetOf(j) \in Sites

\* activeKey is type|normalisedUrl: the same stage of the same target.
SameKey(j, k) == StageOf(j) = StageOf(k) /\ TargetOf(j) = TargetOf(k)

\* The unique index would refuse an activeKey for stage k of target t.
SlotTaken(t, k) ==
    \E j \in Jobs : slot[j] /\ StageOf(j) = k /\ TargetOf(j) = t

ActiveForSite(s) == \E j \in Jobs : TargetOf(j) = s /\ status[j] \in Active

Started(r)     == status[<<r, 1>>] # "none"
FreshRun(r)    == ~Started(r) /\ \A q \in 1 .. (r - 1) : Started(q)

Within(count, limit) ==
    \A e \in {f \in Events : limit[f] # Unbounded} : count[e] <= limit[e]

\* An event of kind e happens: not more often than some limit allows, given
\* what else has happened.
Spend(e) ==
    IF \A limit \in Limits : limit[e] = Unbounded
    THEN UNCHANGED spent
    ELSE /\ spent' = [spent EXCEPT ![e] = @ + 1]
         /\ \E limit \in Limits : Within(spent', limit)

\* The stage a worker may queue after stage k: the pipeline's `next`.
NextStages(k) ==
    {k + 1} \cup (IF k + 1 \in Optional THEN {k + 2} ELSE {})

-----------------------------------------------------------------------------
(* Operations on the records and on BullMQ that several actions share.      *)

\* Mutant: the record is inserted without its activeKey.
CreateWithoutKey(j, t) ==
    /\ status' = [status EXCEPT ![j] = "queued"]
    /\ target' = [target EXCEPT ![RunOf(j)] = t]
    /\ lateJobs' = IF RunOf(j) \in cancelled THEN lateJobs \cup {j} ELSE lateJobs
    /\ UNCHANGED <<attempts, slot>>

\* createRun / createStage: a queued record that takes its slot.
Create(j, t) ==
    /\ status' = [status EXCEPT ![j] = "queued"]
    /\ slot' = [slot EXCEPT ![j] = TRUE]
    /\ target' = [target EXCEPT ![RunOf(j)] = t]
    /\ lateJobs' = IF RunOf(j) \in cancelled THEN lateJobs \cup {j} ELSE lateJobs
    /\ UNCHANGED attempts

\* cancelRun: updateMany over the run's unfinished stages.
Unfinished(r) == {j \in Jobs : RunOf(j) = r /\ status[j] \in Active}

\* Mutant: the update forgets to unset activeKey.
CancelStagesKeepingSlot(r) ==
    /\ status' = [j \in Jobs |-> IF j \in Unfinished(r) THEN "cancelled" ELSE status[j]]
    /\ UNCHANGED <<slot, attempts, target, lateJobs>>

CancelStages(r) ==
    /\ status' = [j \in Jobs |-> IF j \in Unfinished(r) THEN "cancelled" ELSE status[j]]
    /\ slot' = [j \in Jobs |-> slot[j] /\ j \notin Unfinished(r)]
    /\ UNCHANGED <<attempts, target, lateJobs>>

\* Mutant: the write unsets activeKey although the job is not finished.
SetStatusUnsettingKey(j, s) ==
    /\ status' = [status EXCEPT ![j] = s]
    /\ slot' = [slot EXCEPT ![j] = FALSE]
    /\ UNCHANGED <<attempts, target, lateJobs>>

\* A status write that leaves everything else of the record alone.
SetStatus(j, s) ==
    /\ status' = [status EXCEPT ![j] = s]
    /\ UNCHANGED <<slot, attempts, target, lateJobs>>

\* A status write that also unsets activeKey: complete, and fail when final.
Close(j, s) ==
    /\ status' = [status EXCEPT ![j] = s]
    /\ slot' = [slot EXCEPT ![j] = FALSE]
    /\ UNCHANGED <<attempts, target, lateJobs>>

\* Queue.add under a fresh bullJobId.
AddEntry(j) ==
    \E b \in Entries :
        /\ entry[b].state = "free"
        /\ \A a \in 1 .. (b - 1) : entry[a].state # "free"
        /\ entry' = [entry EXCEPT ![b] = [FreeEntry EXCEPT !.job = j, !.state = "waiting"]]
        /\ UNCHANGED <<paused, deadLetter>>

\* removePending: waiting and delayed jobs of the run leave the queues.
DropPending(r) ==
    /\ entry' = [b \in Entries |->
                    IF entry[b].state = "waiting" /\ RunOf(entry[b].job) = r
                    THEN FreeEntry ELSE entry[b]]
    /\ UNCHANGED <<paused, deadLetter>>

\* The steps within process's try block, and of handleError, at which it still
\* matters whether the AbortController has fired.
InTry  == {"mark", "run", "complete", "next", "create", "enqueue"}
Heeded == InTry \cup {"stopped", "fail"}

Goto(w, pc) ==
    /\ wpc' = [wpc EXCEPT ![w] = pc]
    /\ aborted' = [aborted EXCEPT ![w] = @ /\ pc \in Heeded]
    /\ UNCHANGED <<wentry, wnext>>

\* The worker slot lets go of its BullMQ job, which is left as given.
Release(w, e) ==
    /\ wpc' = [wpc EXCEPT ![w] = "idle"]
    /\ wentry' = [wentry EXCEPT ![w] = NoEntry]
    /\ wnext' = [wnext EXCEPT ![w] = 1]
    /\ aborted' = [aborted EXCEPT ![w] = FALSE]
    /\ entry' = [entry EXCEPT ![wentry[w]] = e]
    /\ UNCHANGED <<paused, deadLetter>>

-----------------------------------------------------------------------------
(* StageRunner.process: a worker slot executes one stage.                   *)

workerRest == <<nextCheck, controlVars, clientVars, spent>>

\* Mutant: process also skips a record it has itself marked delayed.
DeliverFinishedOrDelayed(b) ==
    /\ \E w \in Workers : wpc[w] = "idle"
    /\ ~paused
    /\ entry[b].state = "waiting"
    /\ status[entry[b].job] \in Finished \cup {"delayed"}
    /\ entry' = [entry EXCEPT ![b] = FreeEntry]
    /\ UNCHANGED <<jobVars, lateJobs, paused, deadLetter, workerVars, workerRest>>

\* BullMQ hands a waiting job to a free slot; `jobs.get` finds the record
\* finished and process returns at once.
DeliverFinished(b) ==
    /\ \E w \in Workers : wpc[w] = "idle"
    /\ ~paused
    /\ entry[b].state = "waiting"
    /\ status[entry[b].job] \in Finished
    /\ entry' = [entry EXCEPT ![b] = FreeEntry]
    /\ UNCHANGED <<jobVars, lateJobs, paused, deadLetter, workerVars, workerRest>>

\* Mutant: process does not look whether the record is finished.
DeliverUnchecked(w, b) ==
    /\ wpc[w] = "idle"
    /\ ~paused
    /\ entry[b].state = "waiting"
    /\ entry' = [entry EXCEPT ![b].state = "active"]
    /\ wpc' = [wpc EXCEPT ![w] = "control"]
    /\ wentry' = [wentry EXCEPT ![w] = b]
    /\ UNCHANGED <<jobVars, lateJobs, paused, deadLetter, wnext, aborted, workerRest>>

Deliver(w, b) ==
    /\ wpc[w] = "idle"
    /\ ~paused
    /\ entry[b].state = "waiting"
    /\ status[entry[b].job] \notin Finished
    /\ entry' = [entry EXCEPT ![b].state = "active"]
    /\ wpc' = [wpc EXCEPT ![w] = "control"]
    /\ wentry' = [wentry EXCEPT ![w] = b]
    /\ UNCHANGED <<jobVars, lateJobs, paused, deadLetter, wnext, aborted, workerRest>>

\* Mutant: only the emergency stop is looked at.
ReadControlHaltOnly(w) ==
    /\ wpc[w] = "control"
    /\ Goto(w, IF halted THEN "delay" ELSE "mark")
    /\ UNCHANGED <<jobVars, lateJobs, queueVars, workerRest>>

\* control.state, read once before the stage starts.
ReadControl(w) ==
    /\ wpc[w] = "control"
    /\ Goto(w, IF RunOf(Job(w)) \in cancelled THEN "cancelSeen"
               ELSE IF halted THEN "delay" ELSE "mark")
    /\ UNCHANGED <<jobVars, lateJobs, queueVars, workerRest>>

\* Mutant: a cancelled job waits like a halted one instead of ending.
CancelSeenWaits(w) ==
    /\ wpc[w] = "cancelSeen"
    /\ Goto(w, "delay")
    /\ UNCHANGED <<jobVars, lateJobs, queueVars, workerRest>>

CancelSeen(w) ==
    /\ wpc[w] = "cancelSeen"
    /\ CancelStages(RunOf(Job(w)))
    /\ Goto(w, "return")
    /\ UNCHANGED <<queueVars, workerRest>>

\* delay(): markDelayed, unconditional on the status it overwrites ...
Delay(w) ==
    /\ wpc[w] = "delay"
    /\ SetStatus(Job(w), "delayed")
    /\ Goto(w, "moveDelayed")
    /\ UNCHANGED <<queueVars, workerRest>>

\* Mutant: process returns instead of moving the job and throwing DelayedError.
MoveDelayedReturns(w) ==
    /\ wpc[w] = "moveDelayed"
    /\ Release(w, FreeEntry)
    /\ UNCHANGED <<jobVars, lateJobs, workerRest>>

\* ... then moveToDelayed, which costs no attempt.
MoveDelayed(w) ==
    /\ wpc[w] = "moveDelayed"
    /\ Release(w, [entry[wentry[w]] EXCEPT !.state = "waiting"])
    /\ UNCHANGED <<jobVars, lateJobs, workerRest>>

\* Mutant: the attempt is counted once too often.
MarkRunningOneMore(w) ==
    /\ wpc[w] = "mark"
    /\ status' = [status EXCEPT ![Job(w)] = "running"]
    /\ attempts' = [attempts EXCEPT ![Job(w)] = entry[wentry[w]].made + 2]
    /\ Goto(w, "run")
    /\ UNCHANGED <<slot, target, lateJobs, queueVars, workerRest>>

\* markRunning, just as unconditional.
MarkRunning(w) ==
    /\ wpc[w] = "mark"
    /\ status' = [status EXCEPT ![Job(w)] = "running"]
    /\ attempts' = [attempts EXCEPT ![Job(w)] = entry[wentry[w]].made + 1]
    /\ Goto(w, "run")
    /\ UNCHANGED <<slot, target, lateJobs, queueVars, workerRest>>

\* The stage succeeded and names a next stage: complete().
StageProceeds(w, k) ==
    /\ wpc[w] = "run"
    /\ IsCheck(Job(w))
    /\ k \in NextStages(StageOf(Job(w))) \cap Stages
    /\ Close(Job(w), "completed")
    /\ wpc' = [wpc EXCEPT ![w] = "next"]
    /\ wnext' = [wnext EXCEPT ![w] = k]
    /\ UNCHANGED <<aborted, wentry, queueVars, workerRest>>

\* A stage that ends its run has scheduled the website's next check: the last
\* stage sets it; one that holds the run on purpose (homepage or render blocked)
\* sets it too, or removes it (provider review).  A single job has none.
ScheduleNext(w, next) ==
    /\ wpc[w] = "run"
    /\ IsCheck(Job(w))
    /\ \/ StageOf(Job(w)) \in {1, LastStage} \cup Optional /\ next = "set"
       \/ StageOf(Job(w)) = 1 /\ next = "none"
    /\ nextCheck' = [nextCheck EXCEPT ![TargetOf(Job(w))] = next]
    /\ Goto(w, "complete")
    /\ UNCHANGED <<jobVars, lateJobs, queueVars, controlVars, clientVars, spent>>

SingleJobEnds(w) ==
    /\ wpc[w] = "run"
    /\ ~IsCheck(Job(w))
    /\ Goto(w, "complete")
    /\ UNCHANGED <<jobVars, lateJobs, queueVars, workerRest>>

\* finish() without a next stage, or held: complete().
CompleteLast(w) ==
    /\ wpc[w] = "complete"
    /\ Close(Job(w), "completed")
    /\ Goto(w, "return")
    /\ UNCHANGED <<queueVars, workerRest>>

\* finish(): control.state again, before the next stage is created.
CheckCancelled(w) ==
    /\ wpc[w] = "next"
    /\ Goto(w, IF RunOf(Job(w)) \in cancelled THEN "return" ELSE "create")
    /\ UNCHANGED <<jobVars, lateJobs, queueVars, workerRest>>

NextJob(w) == <<RunOf(Job(w)), wnext[w]>>

\* createStage; a duplicate activeKey ends the run with a log line.
CreateStage(w) ==
    /\ wpc[w] = "create"
    /\ ~SlotTaken(TargetOf(Job(w)), wnext[w])
    /\ status[NextJob(w)] = "none"
    /\ Create(NextJob(w), TargetOf(Job(w)))
    /\ Goto(w, "enqueue")
    /\ UNCHANGED <<queueVars, workerRest>>

StageSlotTaken(w) ==
    /\ wpc[w] = "create"
    /\ SlotTaken(TargetOf(Job(w)), wnext[w])
    /\ Goto(w, "return")
    /\ UNCHANGED <<jobVars, lateJobs, queueVars, workerRest>>

EnqueueNext(w) ==
    /\ wpc[w] = "enqueue"
    /\ AddEntry(NextJob(w))
    /\ Goto(w, "return")
    /\ UNCHANGED <<jobVars, lateJobs, workerRest>>

\* process returned, or threw UnrecoverableError: BullMQ is done with the job.
Return(w) ==
    /\ wpc[w] = "return"
    /\ Release(w, FreeEntry)
    /\ UNCHANGED <<jobVars, lateJobs, workerRest>>

-----------------------------------------------------------------------------
(* StageRunner.handleError.                                                 *)

\* Rate limit, paused domain or adapter, or Retry-After: the job waits.
StageDelays(w) ==
    /\ wpc[w] = "run"
    /\ Spend("delay")
    /\ Goto(w, "delay")
    /\ UNCHANGED <<jobVars, lateJobs, queueVars, nextCheck, controlVars, clientVars>>

\* The stage stopped at a checkpoint, or an aborted fetch threw.
StageStops(w) ==
    /\ wpc[w] = "run"
    /\ halted \/ RunOf(Job(w)) \in cancelled \/ aborted[w]
    /\ Goto(w, "stopped")
    /\ UNCHANGED <<jobVars, lateJobs, queueVars, workerRest>>

\* handleError reads the control state once more before deciding.
ReadStop(w) ==
    /\ wpc[w] = "stopped"
    /\ Goto(w, IF RunOf(Job(w)) \in cancelled THEN "stopCancel"
               ELSE IF halted THEN "delay" ELSE "fail")
    /\ UNCHANGED <<jobVars, lateJobs, queueVars, workerRest>>

StopCancel(w) ==
    /\ wpc[w] = "stopCancel"
    /\ CancelStages(RunOf(Job(w)))
    /\ Goto(w, "stopRemove")
    /\ UNCHANGED <<queueVars, workerRest>>

StopRemove(w) ==
    /\ wpc[w] = "stopRemove"
    /\ DropPending(RunOf(Job(w)))
    /\ Goto(w, "return")
    /\ UNCHANGED <<jobVars, lateJobs, workerRest>>

\* A MongoDB or Redis call of process's own fails inside the try block.
StoreFails(w) ==
    /\ wpc[w] \in InTry \ {"run"}
    /\ Spend("outage")
    /\ Goto(w, IF aborted[w] THEN "stopped" ELSE "error")
    /\ UNCHANGED <<jobVars, lateJobs, queueVars, nextCheck, controlVars, clientVars>>

\* The log or the clearing of the progress after complete() of the last stage
\* fails: the record is completed and handleError takes the error all the same.
WrapUpFails(w) ==
    /\ wpc[w] = "complete"
    /\ Close(Job(w), "completed")
    /\ Spend("outage")
    /\ Goto(w, IF aborted[w] THEN "stopped" ELSE "error")
    /\ UNCHANGED <<queueVars, nextCheck, controlVars, clientVars>>

\* jobs.fail: a failure that is neither a delay nor a stop, or a stop whose
\* flag is gone by now.
Fails(w) ==
    \/ wpc[w] \in {"fail", "error"} /\ UNCHANGED spent
    \/ wpc[w] = "run" /\ ~aborted[w] /\ Spend("fail")

\* Mutant: the attempt in progress is counted twice.
LastAttemptEarly(w) == entry[wentry[w]].made + 2 >= MaxAttempts

LastAttempt(w) == entry[wentry[w]].made + 1 >= MaxAttempts

FailRetry(w) ==
    /\ Fails(w)
    /\ ~LastAttempt(w)
    /\ SetStatus(Job(w), "queued")
    /\ Goto(w, "throw")
    /\ UNCHANGED <<queueVars, nextCheck, controlVars, clientVars>>

\* Mutant: the job is queued again although BullMQ retries it as well.
RethrowAndEnqueue(w) ==
    /\ wpc[w] = "throw"
    /\ \E b \in Entries :
        /\ entry[b].state = "free"
        /\ entry' = [entry EXCEPT
                        ![wentry[w]] = [@ EXCEPT !.state = "waiting", !.made = @ + 1],
                        ![b] = [FreeEntry EXCEPT !.job = Job(w), !.state = "waiting"]]
    /\ wpc' = [wpc EXCEPT ![w] = "idle"]
    /\ wentry' = [wentry EXCEPT ![w] = NoEntry]
    /\ UNCHANGED <<wnext, aborted, paused, deadLetter, jobVars, lateJobs, workerRest>>

\* The error is rethrown and BullMQ retries with backoff.
Rethrow(w) ==
    /\ wpc[w] = "throw"
    /\ Release(w, [entry[wentry[w]] EXCEPT !.state = "waiting", !.made = @ + 1])
    /\ UNCHANGED <<jobVars, lateJobs, workerRest>>

\* Not retryable: the stage's own error (StageAbortedError if it was aborted),
\* never an error of MongoDB or Redis nor a stop at a checkpoint.
FailForGood(w) ==
    /\ Fails(w)
    /\ wpc[w] = "run" \/ aborted[w]
    /\ Close(Job(w), "failed")
    /\ Goto(w, IF IsCheck(Job(w)) THEN "failedSite" ELSE "return")
    /\ UNCHANGED <<queueVars, nextCheck, controlVars, clientVars>>

FailOutOfAttempts(w) ==
    /\ Fails(w)
    /\ LastAttempt(w)
    /\ Close(Job(w), "dead_lettered")
    /\ Goto(w, IF IsCheck(Job(w)) THEN "deadSite" ELSE "deadLetter")
    /\ UNCHANGED <<queueVars, nextCheck, controlVars, clientVars>>

\* Mutant: the job never reaches the dead-letter queue.
ScheduleAfterFailureOnly(w) ==
    /\ wpc[w] \in {"failedSite", "deadSite"}
    /\ nextCheck' = [nextCheck EXCEPT ![TargetOf(Job(w))] = "set"]
    /\ Goto(w, "return")
    /\ UNCHANGED <<jobVars, lateJobs, queueVars, controlVars, clientVars, spent>>

\* scheduleAfterFailure.
ScheduleAfterFailure(w) ==
    /\ wpc[w] \in {"failedSite", "deadSite"}
    /\ nextCheck' = [nextCheck EXCEPT ![TargetOf(Job(w))] = "set"]
    /\ Goto(w, IF wpc[w] = "deadSite" THEN "deadLetter" ELSE "return")
    /\ UNCHANGED <<jobVars, lateJobs, queueVars, controlVars, clientVars, spent>>

DeadLetter(w) ==
    /\ wpc[w] = "deadLetter"
    /\ deadLetter' = deadLetter \cup {Job(w)}
    /\ Goto(w, "return")
    /\ UNCHANGED <<jobVars, lateJobs, entry, paused, workerRest>>

\* A call outside the try block fails: process throws, BullMQ counts the attempt
\* and retries, or fails the job for good without a word to its record.
ProcessThrows(w) ==
    /\ wpc[w] \notin InTry \cup {"idle", "throw", "return"}
    /\ Spend("outage")
    /\ Release(w, IF LastAttempt(w)
                  THEN FreeEntry
                  ELSE [entry[wentry[w]] EXCEPT !.state = "waiting", !.made = @ + 1])
    /\ UNCHANGED <<jobVars, lateJobs, nextCheck, controlVars, clientVars>>

\* The worker process dies.  BullMQ finds the stalled job and puts it back,
\* or fails it without a word to its record.
Crash(w) ==
    /\ wpc[w] # "idle"
    /\ Spend("crash")
    /\ LET e == entry[wentry[w]]
       IN Release(w, IF e.stalls < MaxStalls
                     THEN [e EXCEPT !.state = "waiting", !.stalls = @ + 1]
                     ELSE FreeEntry)
    /\ UNCHANGED <<jobVars, lateJobs, nextCheck, controlVars, clientVars>>

\* Workers whose AbortController is registered and still means something.
Tracked == {w \in Workers : wpc[w] \in InTry}

\* onApplicationShutdown: abortAll, then the stages are waited for.
Shutdown ==
    /\ Spend("shutdown")
    /\ aborted' = [w \in Workers |-> aborted[w] \/ w \in Tracked]
    /\ UNCHANGED <<jobVars, lateJobs, nextCheck, controlVars, queueVars,
                   wpc, wentry, wnext, clientVars>>

-----------------------------------------------------------------------------
(* RunsService, called by the admin API, and the scheduler's tick.          *)

clientRest == <<workerVars, spent>>

ClientGoto(c, pc) ==
    /\ cpc' = [cpc EXCEPT ![c] = pc]
    /\ cjob' = [cjob EXCEPT ![c] = IF pc = "idle" THEN NoJob ELSE @]
    /\ ctarget' = [ctarget EXCEPT ![c] = IF pc = "idle" THEN NoTarget ELSE @]

\* Bound: a run is begun only while a run number is left for it.
RunsLeft ==
    Cardinality({r \in Runs : ~Started(r)}) > Cardinality({c \in Clients : cpc[c] = "create"})

\* startRun: activeForSite found nothing.
StartRun(c, s) ==
    /\ \/ c \in Admins /\ cpc[c] = "idle"
       \/ c = Scheduler /\ cpc[c] = "start" /\ ctarget[c] = s
    /\ ~ActiveForSite(s)
    /\ RunsLeft
    /\ cpc' = [cpc EXCEPT ![c] = "create"]
    /\ ctarget' = [ctarget EXCEPT ![c] = s]
    /\ UNCHANGED <<cjob, jobVars, lateJobs, nextCheck, controlVars, queueVars, clientRest>>

\* startJob goes straight to createRun.
StartJob(c, k) ==
    /\ cpc[c] = "idle"
    /\ c = Scheduler => ~halted
    /\ RunsLeft
    /\ cpc' = [cpc EXCEPT ![c] = "create"]
    /\ ctarget' = [ctarget EXCEPT ![c] = k]
    /\ UNCHANGED <<cjob, jobVars, lateJobs, nextCheck, controlVars, queueVars, clientRest>>

\* After startRun or startJob: the scheduler pushes the site's check back.
AfterStart(c) ==
    IF c = Scheduler /\ ctarget[c] \in Sites THEN "markScheduled" ELSE "idle"

\* createRun inserts the root job ...
CreateRun(c) ==
    /\ cpc[c] = "create"
    /\ ~SlotTaken(ctarget[c], 1)
    /\ \E r \in Runs :
        /\ FreshRun(r)
        /\ Create(<<r, 1>>, ctarget[c])
        /\ cjob' = [cjob EXCEPT ![c] = <<r, 1>>]
    /\ cpc' = [cpc EXCEPT ![c] = "enqueue"]
    /\ UNCHANGED <<ctarget, nextCheck, controlVars, queueVars, clientRest>>

\* ... or is refused its activeKey, looks for the job that holds it ...
RunExists(c) ==
    /\ cpc[c] = "create"
    /\ SlotTaken(ctarget[c], 1)
    /\ ClientGoto(c, "find")
    /\ UNCHANGED <<jobVars, lateJobs, nextCheck, controlVars, queueVars, clientRest>>

\* ... and returns it, or throws if that job has finished in between.
FindRun(c) ==
    /\ cpc[c] = "find"
    /\ ClientGoto(c, IF SlotTaken(ctarget[c], 1) THEN AfterStart(c) ELSE "idle")
    /\ UNCHANGED <<jobVars, lateJobs, nextCheck, controlVars, queueVars, clientRest>>

Enqueue(c) ==
    /\ cpc[c] = "enqueue"
    /\ AddEntry(cjob[c])
    /\ ClientGoto(c, AfterStart(c))
    /\ UNCHANGED <<jobVars, lateJobs, nextCheck, controlVars, clientRest>>

\* The tick: not halted, and the website's check is due.
Tick(s) ==
    /\ cpc[Scheduler] = "idle"
    /\ ~halted
    /\ nextCheck[s] = "due"
    /\ cpc' = [cpc EXCEPT ![Scheduler] = "start"]
    /\ ctarget' = [ctarget EXCEPT ![Scheduler] = s]
    /\ UNCHANGED <<cjob, jobVars, lateJobs, nextCheck, controlVars, queueVars, clientRest>>

\* startRun returned the run that is already active.
TickFindsRun ==
    /\ cpc[Scheduler] = "start"
    /\ ActiveForSite(ctarget[Scheduler])
    /\ ClientGoto(Scheduler, "markScheduled")
    /\ UNCHANGED <<jobVars, lateJobs, nextCheck, controlVars, queueVars, clientRest>>

MarkScheduled ==
    /\ cpc[Scheduler] = "markScheduled"
    /\ nextCheck' = [nextCheck EXCEPT ![ctarget[Scheduler]] = "provisional"]
    /\ ClientGoto(Scheduler, "idle")
    /\ UNCHANGED <<jobVars, lateJobs, controlVars, queueVars, clientRest>>

\* The time of a website's next check arrives; a website without one is not due.
BecomeDue(s) ==
    /\ nextCheck[s] \in {"provisional", "set"}
    /\ Spend("tick")
    /\ nextCheck' = [nextCheck EXCEPT ![s] = "due"]
    /\ UNCHANGED <<jobVars, lateJobs, controlVars, queueVars, workerVars, clientVars>>

\* retry: resetForRetry, unless the slot is taken meanwhile; then enqueue.
Retry(c, j) ==
    /\ cpc[c] = "idle"
    /\ status[j] \in {"failed", "dead_lettered", "cancelled"}
    /\ ~SlotTaken(TargetOf(j), StageOf(j))
    /\ Spend("retry")
    /\ status' = [status EXCEPT ![j] = "queued"]
    /\ slot' = [slot EXCEPT ![j] = TRUE]
    /\ cpc' = [cpc EXCEPT ![c] = "enqueue"]
    /\ cjob' = [cjob EXCEPT ![c] = j]
    /\ UNCHANGED <<attempts, target, lateJobs, ctarget, nextCheck, controlVars,
                   queueVars, workerVars>>

\* cancelRun: the Redis flag and its message, which a worker may miss, ...
CancelFlag(c, r) ==
    /\ cpc[c] = "idle"
    /\ Started(r)
    /\ Spend("cancel")
    /\ cancelled' = cancelled \cup {r}
    /\ \E heard \in SUBSET {w \in Tracked : RunOf(Job(w)) = r} :
           aborted' = [w \in Workers |-> aborted[w] \/ w \in heard]
    /\ cpc' = [cpc EXCEPT ![c] = "cancelJobs"]
    /\ cjob' = [cjob EXCEPT ![c] = <<r, 1>>]
    /\ UNCHANGED <<ctarget, halted, jobVars, lateJobs, nextCheck, queueVars,
                   wpc, wentry, wnext>>

\* ... the records, ...
CancelJobs(c) ==
    /\ cpc[c] = "cancelJobs"
    /\ CancelStages(RunOf(cjob[c]))
    /\ ClientGoto(c, "removePending")
    /\ UNCHANGED <<nextCheck, controlVars, queueVars, clientRest>>

\* ... and the queues.
RemovePending(c) ==
    /\ cpc[c] = "removePending"
    /\ DropPending(RunOf(cjob[c]))
    /\ ClientGoto(c, "idle")
    /\ UNCHANGED <<jobVars, lateJobs, nextCheck, controlVars, clientRest>>

\* emergencyStop: the flag and its message, then the queues.
Halt(c) ==
    /\ cpc[c] = "idle"
    /\ Spend("halt")
    /\ halted' = TRUE
    /\ \E heard \in SUBSET Tracked :
           aborted' = [w \in Workers |-> aborted[w] \/ w \in heard]
    /\ ClientGoto(c, "pause")
    /\ UNCHANGED <<cancelled, jobVars, lateJobs, nextCheck, queueVars, wpc, wentry, wnext>>

PauseQueues(c) ==
    /\ cpc[c] = "pause"
    /\ paused' = TRUE
    /\ ClientGoto(c, "idle")
    /\ UNCHANGED <<entry, deadLetter, jobVars, lateJobs, nextCheck, controlVars, clientRest>>

\* resume: the flag goes, then the queues carry on.
Resume(c) ==
    /\ cpc[c] = "idle"
    /\ Spend("resume")
    /\ halted' = FALSE
    /\ ClientGoto(c, "unpause")
    /\ UNCHANGED <<cancelled, jobVars, lateJobs, nextCheck, queueVars, workerVars>>

ResumeQueues(c) ==
    /\ cpc[c] = "unpause"
    /\ paused' = FALSE
    /\ ClientGoto(c, "idle")
    /\ UNCHANGED <<entry, deadLetter, jobVars, lateJobs, nextCheck, controlVars, clientRest>>

\* The API or scheduler process dies in the middle of a request, or a call it
\* makes fails and the request with it.
ClientCrash(c) ==
    /\ cpc[c] # "idle"
    /\ Spend("crash")
    /\ ClientGoto(c, "idle")
    /\ UNCHANGED <<jobVars, lateJobs, nextCheck, controlVars, queueVars, workerVars>>

-----------------------------------------------------------------------------
(* The system.                                                              *)

\* What a worker slot does of its own accord once it holds a job.
Work(w) ==
    \/ ReadControl(w) \/ CancelSeen(w) \/ Delay(w) \/ MoveDelayed(w)
    \/ MarkRunning(w)
    \/ \E k \in Stages : StageProceeds(w, k)
    \/ \E next \in {"none", "set"} : ScheduleNext(w, next)
    \/ SingleJobEnds(w) \/ CompleteLast(w)
    \/ CheckCancelled(w) \/ CreateStage(w) \/ StageSlotTaken(w)
    \/ EnqueueNext(w) \/ Return(w)
    \/ StageDelays(w) \/ StageStops(w) \/ ReadStop(w)
    \/ StopCancel(w) \/ StopRemove(w)
    \/ FailRetry(w) \/ Rethrow(w) \/ FailForGood(w) \/ FailOutOfAttempts(w)
    \/ ScheduleAfterFailure(w) \/ DeadLetter(w)

Take(b) == DeliverFinished(b) \/ \E w \in Workers : Deliver(w, b)

\* What a client does once a request or a tick is under way.
Proceed(c) ==
    \/ CreateRun(c) \/ RunExists(c) \/ FindRun(c) \/ Enqueue(c)
    \/ CancelJobs(c) \/ RemovePending(c) \/ PauseQueues(c) \/ ResumeQueues(c)

SchedulerStep ==
    \/ Proceed(Scheduler) \/ TickFindsRun \/ MarkScheduled
    \/ \E s \in Sites : cpc[Scheduler] = "start" /\ StartRun(Scheduler, s)

Request(c) ==
    \/ \E s \in Sites : StartRun(c, s)
    \/ \E k \in Keys : StartJob(c, k)
    \/ \E j \in Jobs : Retry(c, j)
    \/ \E r \in Runs : CancelFlag(c, r)
    \/ Halt(c) \/ Resume(c)

Next ==
    \/ \E w \in Workers :
        Work(w) \/ StoreFails(w) \/ WrapUpFails(w) \/ ProcessThrows(w) \/ Crash(w)
    \/ \E b \in Entries : Take(b)
    \/ Shutdown
    \/ \E c \in Admins : Request(c) \/ Proceed(c)
    \/ \E s \in Sites : Tick(s) \/ BecomeDue(s)
    \/ \E k \in Keys : StartJob(Scheduler, k)
    \/ SchedulerStep
    \/ \E c \in Clients : ClientCrash(c)

Spec == Init /\ [][Next]_vars

\* Workers, BullMQ and begun requests keep going; ticks recur every five
\* minutes and time passes.  No admin has to do anything.
Fairness ==
    /\ \A w \in Workers : WF_vars(Work(w))
    /\ \A b \in Entries : WF_vars(Take(b))
    /\ \A c \in Admins : WF_vars(Proceed(c))
    /\ WF_vars(SchedulerStep)
    /\ \A s \in Sites : WF_vars(Tick(s)) /\ WF_vars(BecomeDue(s))

FairSpec == Spec /\ Fairness

-----------------------------------------------------------------------------
(* Safety.                                                                  *)

\* A record holds its (stage, URL) slot only while it is active, so a finished
\* stage, however it finished, never keeps later runs of the website out
\* (complete, fail and cancelRun unset activeKey; the writes are unconditional).
SlotOnlyWhileActive == \A j \in Jobs : slot[j] => status[j] \in Active

\* What the code does not survive has not happened.  A database call that fails just
\* after `complete` makes handleError queue the completed stage again, without its
\* slot.  After a crash between the recording of a failure and the return, a retry
\* by hand makes BullMQ deliver both the old job and the retry's.
Calm == spent["outage"] = 0 /\ (spent["crash"] = 0 \/ spent["retry"] = 0)

\* An active record without its slot belongs to a run somebody cancelled: apart
\* from cancellation no interleaving of markRunning, markDelayed and fail brings
\* a finished stage back.
SlotLostOnlyByCancel ==
    Calm =>
        \A j \in Jobs : status[j] \in Active /\ ~slot[j] => RunOf(j) \in cancelled

\* So, cancelled runs aside, one URL never has two active jobs of one stage
\* (import-job.schema.ts, activeKey).
OneActivePerStage ==
    Calm =>
        \A j, k \in Jobs :
            /\ {RunOf(j), RunOf(k)} \cap cancelled = {}
            /\ {status[j], status[k]} \subseteq Active
            /\ SameKey(j, k)
            => j = k

\* A stage created after its run was cancelled (finish had read the control
\* state too early) is never worked.
LateJobsNeverRun ==
    \A j \in lateJobs : attempts[j] = 0 /\ status[j] \notin {"running", "completed"}

\* Only a job whose last attempt was used up is dead-lettered: neither delays,
\* redelivery after a crash nor a racing cancel brings it there sooner.
DeadOnlyAfterLastAttempt ==
    Calm =>
        \A j \in Jobs : status[j] = "dead_lettered" => attempts[j] = MaxAttempts

AtWork     == {w \in Workers : wpc[w] \in {"mark", "run", "complete"}}
Working(j) == \E w \in AtWork : Job(w) = j

\* Two workers never execute the same stage of a run at the same time, whatever
\* failed, stalled, was delayed, stopped or retried before.
OneWorkerPerStage ==
    Calm => \A v, w \in AtWork : Job(v) = Job(w) => v = w

\* The stage a worker is about to create does not exist yet: a run never has
\* the same stage twice, also when BullMQ delivers its parent again.
StageCreatedOnce ==
    Calm => \A w \in Workers : wpc[w] = "create" => status[NextJob(w)] = "none"

HasEntry(j) == \E b \in Entries : entry[b].state # "free" /\ entry[b].job = j
BeingQueued(j) ==
    \/ \E w \in Workers : wpc[w] = "enqueue" /\ NextJob(w) = j
    \/ \E c \in Clients : cpc[c] = "enqueue" /\ cjob[c] = j

\* Nothing has crashed or failed, and no run was cancelled.
Undisturbed == \A e \in {"crash", "outage", "cancel"} : spent[e] = 0

\* Every active record is backed by a BullMQ job, or by somebody who is about
\* to add one: no stage is left behind, to block its website for ever.
NoStrandedStage ==
    Undisturbed =>
        \A j \in Jobs : status[j] \in Active => HasEntry(j) \/ BeingQueued(j)

\* A dead-lettered job is on the dead-letter queue or on its way there.
DeadLettersRecorded ==
    Undisturbed =>
        \A j \in Jobs : status[j] = "dead_lettered" =>
            \/ j \in deadLetter
            \/ \E w \in Workers :
                wpc[w] \in {"deadSite", "deadLetter"} /\ Job(w) = j

\* The stages of a run keep the contract of RunContract: in order, one worker
\* at a time, completed once and for all, none begun after a cancel.
Contract == INSTANCE RunContract WITH
    completed <- {j \in Jobs : status[j] = "completed"},
    working   <- {j \in Jobs : Working(j)},
    stopped   <- cancelled

KeepsContract == Contract!Spec

-----------------------------------------------------------------------------
(* Liveness.                                                                *)

OpenForWork == ~halted /\ ~paused

\* While no stop is in force, a job BullMQ still knows is finished in the end,
\* whatever delays, resumed stops and one worker crash do to it; the job of a
\* cancelled run may be removed instead (see CancelledRunsEnd).
LiveJobsFinish ==
    (<>[]OpenForWork) =>
        \A j \in Jobs :
            HasEntry(j) ~> (status[j] \in Finished \/ RunOf(j) \in cancelled)

\* Once a run is cancelled its work dies down: in the end no worker holds one
\* of its stages and BullMQ has none waiting.
CancelledRunGoesQuiet ==
    (<>[]OpenForWork) =>
        \A r \in Runs : r \in cancelled ~> \A k \in Stages : ~HasEntry(<<r, k>>)

-----------------------------------------------------------------------------
(* What comments in the code say and the code does not keep.                *)

\* import-jobs.service.ts, cancelRun: "Marks every unfinished stage of a run
\* cancelled", at the latest when the worker has seen the cancellation.
CancelledRunsEnd ==
    \A r \in Runs : r \in cancelled ~> Unfinished(r) = {}

\* recheck-scheduler.service.ts, startDueChecks: "a cancelled or lost run is
\* retried later": a website does not stay occupied by a run nobody works.
LostRunsAreRetried ==
    \A s \in Sites :
        ([]<>(cpc[Scheduler] = "markScheduled" /\ ctarget[Scheduler] = s))
            => (ActiveForSite(s) ~>
                    \/ ~ActiveForSite(s)
                    \/ \E j \in Jobs :
                        TargetOf(j) = s /\ status[j] \in Active /\ HasEntry(j))

=============================================================================
