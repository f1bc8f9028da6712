------------------------ MODULE ImportRunsStepProofs ------------------------
(***************************************************************************)
(* What a step of ImportRuns can do to the records, the BullMQ jobs, the     *)
(* workers and the clients: every step is of one of a few kinds (StepKinds), *)
(* and proofs about the system go through the kinds, not its forty actions.  *)
(* Standing is what holds in every behaviour, through crashes, outages and   *)
(* retries; it gives that a stage created too late is never worked.          *)
(***************************************************************************)
EXTENDS ImportRunsProofs

Exists(j) == status[j] # "none"
EntryOf(b) == entry[b].job

\* Where a worker is past its first look at the control state: it may write to
\* the record (Writing) or has completed it and sees to the next stage (Creating).
Writing  == {"delay", "moveDelayed", "mark", "run", "complete", "stopped", "fail", "throw"}
Creating == {"next", "create", "enqueue"}
Past     == Writing \cup Creating
\* Where it has read that the run is cancelled, and where it is done with the
\* job but for what BullMQ is told in the end.
Stopping == {"cancelSeen", "stopCancel", "stopRemove"}
Done     == Stopping \cup {"failedSite", "deadSite", "deadLetter", "return"}

Held(b)    == \E w \in Workers : wpc[w] # "idle" /\ wentry[w] = b
Settled(b) == \E w \in Workers : wpc[w] \in Done /\ wentry[w] = b
WorkerAdds(w, j) == wpc[w] = "enqueue" /\ NextJob(w) = j
ClientAdds(c, j) == cpc[c] = "enqueue" /\ cjob[c] = j

Backing ==
    /\ \A b \in Entries : entry[b].state # "free" => Exists(EntryOf(b))
    /\ \A c \in Clients : cpc[c] = "enqueue" => Exists(cjob[c])
    /\ \A w \in Workers : wpc[w] = "enqueue" => Exists(NextJob(w))
    /\ \A b \in Entries : entry[b].state = "active" => Held(b)
Flags ==
    /\ \A w \in Workers : wpc[w] \in Stopping => RunOf(Job(w)) \in cancelled
    /\ \A c \in Clients : cpc[c] \in {"cancelJobs", "removePending"} =>
                              RunOf(cjob[c]) \in cancelled
Late ==
    /\ \A j \in Jobs : ~Exists(j) => attempts[j] = 0
    /\ \A j \in lateJobs : RunOf(j) \in cancelled
    /\ \A w \in Workers : wpc[w] \in Past \cup {"error"} => Job(w) \notin lateJobs
Standing == Backing /\ Flags /\ Late /\ LateJobsNeverRun

-----------------------------------------------------------------------------
(* The steps, by what they do to the records, the queues, the workers and   *)
(* the clients.                                                             *)

Same(v) ==
    /\ wpc'[v] = wpc[v] /\ wentry'[v] = wentry[v] /\ wnext'[v] = wnext[v]
    /\ wpc[v] # "idle" => entry'[wentry[v]] = entry[wentry[v]]
AllSame       == \A v \in Workers : Same(v)
OthersSame(w) == \A v \in Workers : v # w => Same(v)
RecordsSame   == UNCHANGED <<status, slot, attempts, lateJobs>>
ClientsSame   == UNCHANGED <<cpc, cjob>>

\* Worker w goes on to p, with its job in hand.
Goes(w, p) ==
    /\ wpc[w] # "idle" /\ p # "idle" /\ wpc'[w] = p
    /\ wentry'[w] = wentry[w] /\ entry'[wentry[w]] = entry[wentry[w]]
    /\ OthersSame(w)
    /\ ClientsSame /\ UNCHANGED cancelled

\* Client c goes on to pc.
Turns(c, pc) ==
    /\ AllSame
    /\ cpc'[c] = pc
    /\ \A d \in Clients : d # c => cpc'[d] = cpc[d] /\ cjob'[d] = cjob[d]

LegalMove(w, p) ==
    \/ wpc[w] = "control" /\ p \in {"delay", "mark"} /\ RunOf(Job(w)) \notin cancelled
    \/ wpc[w] = "control" /\ p = "cancelSeen" /\ RunOf(Job(w)) \in cancelled
    \/ wpc[w] = "run" /\ p \in {"complete", "delay", "stopped"}
    \/ wpc[w] = "stopped" /\ p \in {"delay", "fail"}
    \/ wpc[w] = "stopped" /\ p = "stopCancel" /\ RunOf(Job(w)) \in cancelled
    \/ wpc[w] = "next" /\ p \in {"create", "return"}
    \/ wpc[w] = "create" /\ p = "return"
    \/ wpc[w] = "failedSite" /\ p = "return"
    \/ wpc[w] = "deadSite" /\ p = "deadLetter"
    \/ wpc[w] = "deadLetter" /\ p = "return" /\ Job(w) \in deadLetter'
    \/ wpc[w] \in InTry /\ p \in {"stopped", "error"} /\ spent'["outage"] # 0

Advance(w, p) ==
    /\ Goes(w, p) /\ LegalMove(w, p) /\ RecordsSame
    /\ wnext'[w] = wnext[w] /\ entry' = entry /\ deadLetter \subseteq deadLetter'

\* The worker writes an active status.
Write(w, p) ==
    /\ Goes(w, p)
    /\ \E s \in Active : status' = [status EXCEPT ![Job(w)] = s]
    /\ \/ /\ \/ wpc[w] = "delay" /\ p = "moveDelayed"
             \/ wpc[w] \in {"run", "fail", "error"} /\ p = "throw"
          /\ UNCHANGED attempts
       \/ /\ wpc[w] = "mark" /\ p = "run"
          /\ attempts' = [attempts EXCEPT ![Job(w)] = entry[wentry[w]].made + 1]
    /\ wnext'[w] = wnext[w]
    /\ UNCHANGED <<slot, lateJobs, entry, deadLetter>>

\* The worker finishes the record.
Finish(w, p, s) ==
    /\ Goes(w, p)
    /\ Close(Job(w), s)
    /\ wpc[w] \in {"run", "complete", "fail", "error"}
    /\ \/ s = "completed" /\ wpc[w] = "run" /\ p = "next"
           /\ wnext'[w] \in NextStages(StageOf(Job(w)))
       \/ s = "completed" /\ wpc[w] = "complete" /\ p = "return"
       \/ s = "completed" /\ wpc[w] = "complete" /\ p \in {"stopped", "error"}
           /\ spent'["outage"] # 0
       \/ s = "failed" /\ wpc[w] # "complete" /\ p \in {"failedSite", "return"}
       \/ s = "dead_lettered" /\ wpc[w] # "complete" /\ p \in {"deadSite", "deadLetter"}
           /\ LastAttempt(w)
    /\ UNCHANGED <<entry, deadLetter>>

\* The records of a run are cancelled, or its waiting jobs removed.
SweptBy(r, from, to) ==
    \/ \E w \in Workers :
        /\ wpc[w] \in {"cancelSeen", "stopCancel", "stopRemove"} /\ RunOf(Job(w)) = r
        /\ \E p \in {"return", "stopRemove"} : Goes(w, p) /\ wnext'[w] = wnext[w]
    \/ \E c \in Clients :
        /\ cpc[c] = from /\ RunOf(cjob[c]) = r
        /\ Turns(c, to) /\ UNCHANGED cancelled
        /\ to = "removePending" => cjob'[c] = cjob[c]

SweepRecords(r) ==
    /\ SweptBy(r, "cancelJobs", "removePending")
    /\ CancelStages(r) /\ UNCHANGED <<entry, deadLetter>>
SweepQueues(r) ==
    /\ SweptBy(r, "removePending", "idle")
    /\ DropPending(r) /\ RecordsSame

NewStage(w) ==
    /\ wpc[w] = "create" /\ Goes(w, "enqueue") /\ wnext'[w] = wnext[w]
    /\ status[NextJob(w)] = "none"
    /\ Create(NextJob(w), TargetOf(Job(w)))
    /\ UNCHANGED <<entry, deadLetter>>
NewRun(c, r) ==
    /\ cpc[c] = "create" /\ Turns(c, "enqueue") /\ cjob'[c] = <<r, 1>>
    /\ FreshRun(r)
    /\ Create(<<r, 1>>, ctarget[c])
    /\ UNCHANGED <<entry, deadLetter, cancelled>>

WorkerQueues(w) ==
    /\ wpc[w] = "enqueue" /\ Goes(w, "return") /\ wnext'[w] = wnext[w]
    /\ AddEntry(NextJob(w)) /\ RecordsSame
ClientQueuesJob(c) ==
    /\ cpc[c] = "enqueue"
    /\ \E pc \in {"idle", "markScheduled"} : Turns(c, pc)
    /\ AddEntry(cjob[c]) /\ RecordsSame /\ UNCHANGED cancelled

LetGo(w, e) ==
    /\ wpc[w] # "idle" /\ wpc'[w] = "idle" /\ OthersSame(w)
    /\ entry' = [entry EXCEPT ![wentry[w]] = e]
    /\ e.state = "free" \/ (e.state = "waiting" /\ e.job = Job(w))
    /\ \/ wpc[w] = "return" /\ e.state = "free"
       \/ wpc[w] \in {"moveDelayed", "throw"} /\ e.state = "waiting"
       \/ spent'["crash"] # 0
       \/ spent'["outage"] # 0
    /\ RecordsSame /\ ClientsSame /\ UNCHANGED <<cancelled, deadLetter>>

Receives(w, b) ==
    /\ wpc[w] = "idle" /\ wpc'[w] = "control" /\ wentry'[w] = b /\ OthersSame(w)
    /\ entry[b].state = "waiting" /\ status[EntryOf(b)] \notin Finished
    /\ entry' = [entry EXCEPT ![b].state = "active"]
    /\ RecordsSame /\ ClientsSame /\ UNCHANGED <<cancelled, deadLetter>>
ReceivesFinished(b) ==
    /\ AllSame /\ entry[b].state = "waiting" /\ status[EntryOf(b)] \in Finished
    /\ entry' = [entry EXCEPT ![b] = FreeEntry]
    /\ RecordsSame /\ ClientsSame /\ UNCHANGED <<cancelled, deadLetter>>

Retries(c, j) ==
    /\ cpc[c] = "idle" /\ Turns(c, "enqueue") /\ cjob'[c] = j
    /\ status[j] \in {"failed", "dead_lettered", "cancelled"}
    /\ status' = [status EXCEPT ![j] = "queued"]
    /\ slot' = [slot EXCEPT ![j] = TRUE]
    /\ spent'["retry"] # 0
    /\ UNCHANGED <<attempts, lateJobs, entry, deadLetter, cancelled>>
FlagsRun(c, r) ==
    /\ Turns(c, "cancelJobs") /\ cjob'[c] = <<r, 1>>
    /\ cancelled' = cancelled \cup {r}
    /\ spent'["cancel"] # 0
    /\ RecordsSame /\ UNCHANGED <<entry, deadLetter>>

\* The rest touches none of this, but for a client that goes on.
Elsewhere ==
    /\ AllSame
    /\ \A c \in Clients :
        \/ cpc'[c] = cpc[c] /\ cjob'[c] = cjob[c]
        \/ /\ cpc'[c] \notin {"enqueue", "cancelJobs", "removePending"}
           /\ cpc[c] # "enqueue" \/ spent'["crash"] # 0
    /\ RecordsSame /\ UNCHANGED <<entry, deadLetter, cancelled>>

WorkerKind(w) ==
    \/ \E p \in WorkerSteps : Advance(w, p) \/ Write(w, p)
    \/ \E p \in WorkerSteps, s \in Finished : Finish(w, p, s)
    \/ NewStage(w) \/ WorkerQueues(w)
    \/ \E e : LetGo(w, e)
ClientKind(c) ==
    \/ \E r \in Runs : NewRun(c, r) \/ FlagsRun(c, r)
    \/ ClientQueuesJob(c)
    \/ \E j \in Jobs : Retries(c, j)
StepKind ==
    \/ \E w \in Workers : WorkerKind(w)
    \/ \E c \in Clients : ClientKind(c)
    \/ \E r : SweepRecords(r) \/ SweepQueues(r)
    \/ \E b \in Entries : ReceivesFinished(b) \/ \E w \in Workers : Receives(w, b)
    \/ Elsewhere
Grown == \A e \in Events : spent'[e] >= spent[e]

-----------------------------------------------------------------------------
LEMMA SpendCounts ==
  ASSUME IInv, NEW e \in Events, Spend(e)
  PROVE  /\ Grown
         /\ e \in {"crash", "outage", "retry", "cancel"} => spent'[e] # 0
  <1>1. spent \in [Events -> Nat]
    BY DEF IInv, Others
  <1>2. CASE UNCHANGED spent /\ \A limit \in Limits : limit[e] = Unbounded
    BY <1>1, <1>2, CountedEvents DEF Grown
  <1>3. CASE spent' = [spent EXCEPT ![e] = @ + 1]
    BY <1>1, <1>3 DEF Grown
  <1>4. QED
    BY <1>2, <1>3 DEF Spend

LEMMA SpentSame ==
  ASSUME IInv, UNCHANGED spent
  PROVE  Grown
  BY DEF IInv, Others, Grown

LEMMA EventNames ==
  {"crash", "outage", "shutdown", "delay", "fail", "cancel", "retry", "halt",
   "resume", "tick"} = Events
  BY DEF Events

LEMMA GotoGoes ==
  ASSUME IInv, NEW w \in Workers, wpc[w] # "idle", NEW p \in WorkerSteps, p # "idle",
         Goto(w, p), HeldKept, UNCHANGED <<controlVars, clientVars>>
  PROVE  Goes(w, p) /\ wnext'[w] = wnext[w]
  BY DEF IInv, Holders, Goto, HeldKept, Goes, OthersSame, Same, ClientsSame, controlVars,
     clientVars

LEMMA ReleaseLetsGo ==
  ASSUME IInv, NEW w \in Workers, wpc[w] # "idle", NEW e,
         Release(w, e)
  PROVE  /\ wpc'[w] = "idle" /\ OthersSame(w)
         /\ entry' = [entry EXCEPT ![wentry[w]] = e]
  BY DEF IInv, Holders, Queues, Release, OthersSame, Same

LEMMA WorkersSame ==
  ASSUME IInv, UNCHANGED <<wpc, wentry, wnext>>, HeldKept
  PROVE  AllSame
  BY DEF IInv, Holders, HeldKept, AllSame, Same

LEMMA EntryHeldKept ==
  ASSUME UNCHANGED entry
  PROVE  HeldKept
  BY DEF HeldKept

LEMMA AdvanceSteps ==
  ASSUME IInv, NEW w \in Workers, wpc[w] # "idle", NEW p \in WorkerSteps, p # "idle",
         Goto(w, p), LegalMove(w, p), UNCHANGED <<jobVars, lateJobs, entry>>,
         deadLetter \subseteq deadLetter', UNCHANGED <<controlVars, clientVars>>
  PROVE  WorkerKind(w)
  <1>1. Goes(w, p) /\ wnext'[w] = wnext[w]
    BY EntryHeldKept, GotoGoes
  <1>2. Advance(w, p)
    BY <1>1 DEF Advance, RecordsSame, jobVars
  <1>3. QED
    BY <1>2 DEF WorkerKind

LEMMA AdvanceKinds ==
  ASSUME IInv, NEW w \in Workers,
         \/ ReadControl(w) \/ (\E next \in {"none", "set"} : ScheduleNext(w, next))
         \/ SingleJobEnds(w) \/ CheckCancelled(w) \/ StageSlotTaken(w)
         \/ StageDelays(w) \/ StageStops(w) \/ ReadStop(w)
         \/ ScheduleAfterFailure(w) \/ DeadLetter(w)
  PROVE  WorkerKind(w)
  <1>1. CASE ReadControl(w)
    BY <1>1, AdvanceSteps, Zenon DEF ReadControl, LegalMove, WorkerSteps, queueVars, workerRest
  <1>2. CASE \/ \E next \in {"none", "set"} : ScheduleNext(w, next)
             \/ SingleJobEnds(w)
    <2>1. wpc[w] = "run" /\ Goto(w, "complete")
          /\ UNCHANGED <<jobVars, lateJobs, entry, deadLetter, controlVars, clientVars>>
      BY <1>2 DEF ScheduleNext, SingleJobEnds, queueVars, workerRest
    <2>2. QED
      BY <2>1, AdvanceSteps DEF LegalMove, WorkerSteps
  <1>3. CASE CheckCancelled(w) \/ StageSlotTaken(w)
    <2>1. PICK p \in {"create", "return"} :
            /\ wpc[w] = "next" \/ (wpc[w] = "create" /\ p = "return")
            /\ Goto(w, p)
            /\ UNCHANGED <<jobVars, lateJobs, entry, deadLetter, controlVars, clientVars>>
      BY <1>3, Zenon DEF CheckCancelled, StageSlotTaken, queueVars, workerRest
    <2>2. QED
      BY <2>1, AdvanceSteps DEF LegalMove, WorkerSteps
  <1>4. CASE StageDelays(w) \/ StageStops(w)
    <2>1. /\ wpc[w] = "run" /\ (Goto(w, "delay") \/ Goto(w, "stopped"))
          /\ UNCHANGED <<jobVars, lateJobs, entry, deadLetter, controlVars, clientVars>>
      BY <1>4 DEF StageDelays, StageStops, queueVars, workerRest
    <2>2. QED
      BY <2>1, AdvanceSteps DEF LegalMove, WorkerSteps
  <1>5. CASE ReadStop(w)
    <2>1. PICK p \in {"delay", "fail", "stopCancel"} :
            /\ wpc[w] = "stopped" /\ Goto(w, p)
            /\ p = "stopCancel" => RunOf(Job(w)) \in cancelled
            /\ UNCHANGED <<jobVars, lateJobs, entry, deadLetter, controlVars, clientVars>>
      BY <1>5, Zenon DEF ReadStop, queueVars, workerRest
    <2>2. QED
      BY <2>1, AdvanceSteps DEF LegalMove, WorkerSteps
  <1>6. CASE ScheduleAfterFailure(w)
    <2>1. PICK p \in {"deadLetter", "return"} :
            /\ \/ wpc[w] = "failedSite" /\ p = "return"
               \/ wpc[w] = "deadSite" /\ p = "deadLetter"
            /\ Goto(w, p)
            /\ UNCHANGED <<jobVars, lateJobs, entry, deadLetter, controlVars, clientVars>>
      BY <1>6, Zenon DEF ScheduleAfterFailure, queueVars
    <2>2. QED
      BY <2>1, AdvanceSteps DEF LegalMove, WorkerSteps
  <1>7. CASE DeadLetter(w)
    BY <1>7, AdvanceSteps DEF DeadLetter, LegalMove, WorkerSteps, workerRest
  <1>8. QED
    BY <1>1, <1>2, <1>3, <1>4, <1>5, <1>6, <1>7

LEMMA WriteKinds ==
  ASSUME IInv, NEW w \in Workers, Delay(w) \/ MarkRunning(w) \/ FailRetry(w)
  PROVE  WorkerKind(w)
  <1>1. CASE Delay(w)
    <2>1. Goes(w, "moveDelayed") /\ wnext'[w] = wnext[w]
      BY <1>1, EntryHeldKept, GotoGoes DEF Delay, queueVars, workerRest, WorkerSteps
    <2>2. Write(w, "moveDelayed")
      BY <1>1, <2>1 DEF Write, Delay, SetStatus, Active, queueVars
    <2>3. QED
      BY <2>2 DEF WorkerKind, WorkerSteps
  <1>2. CASE MarkRunning(w)
    <2>1. Goes(w, "run") /\ wnext'[w] = wnext[w]
      BY <1>2, EntryHeldKept, GotoGoes DEF MarkRunning, queueVars, workerRest, WorkerSteps
    <2>2. Write(w, "run")
      BY <1>2, <2>1 DEF Write, MarkRunning, Active, queueVars
    <2>3. QED
      BY <2>2 DEF WorkerKind, WorkerSteps
  <1>3. CASE FailRetry(w)
    <2>1. wpc[w] \in {"run", "fail", "error"}
      BY <1>3 DEF FailRetry, Fails
    <2>2. Goes(w, "throw") /\ wnext'[w] = wnext[w]
      BY <1>3, <2>1, EntryHeldKept, GotoGoes DEF FailRetry, queueVars, WorkerSteps
    <2>3. Write(w, "throw")
      BY <1>3, <2>1, <2>2 DEF Write, FailRetry, SetStatus, Active, queueVars
    <2>4. QED
      BY <2>3 DEF WorkerKind, WorkerSteps
  <1>4. QED
    BY <1>1, <1>2, <1>3

LEMMA FinishKinds ==
  ASSUME IInv, NEW w \in Workers,
         \/ (\E k \in Stages : StageProceeds(w, k)) \/ CompleteLast(w)
         \/ FailForGood(w) \/ FailOutOfAttempts(w)
  PROVE  WorkerKind(w)
  <1>1. ASSUME NEW k \in Stages, StageProceeds(w, k)
        PROVE  WorkerKind(w)
    <2>1. Goes(w, "next") /\ wnext'[w] = k
      BY <1>1 DEF StageProceeds, IInv, Holders, Goes, OthersSame, Same, ClientsSame,
         queueVars, workerRest, controlVars, clientVars
    <2>2. Finish(w, "next", "completed")
      BY <1>1, <2>1 DEF Finish, StageProceeds, queueVars
    <2>3. QED
      BY <2>2 DEF WorkerKind, WorkerSteps, Finished
  <1>2. CASE CompleteLast(w)
    <2>1. Goes(w, "return")
      BY <1>2, EntryHeldKept, GotoGoes DEF CompleteLast, queueVars, workerRest, WorkerSteps
    <2>2. Finish(w, "return", "completed")
      BY <1>2, <2>1 DEF Finish, CompleteLast, queueVars
    <2>3. QED
      BY <2>2 DEF WorkerKind, WorkerSteps, Finished
  <1>3. CASE FailForGood(w)
    <2>1. wpc[w] \in {"run", "fail", "error"}
      BY <1>3 DEF FailForGood, Fails
    <2>2. PICK p \in {"failedSite", "return"} : Goto(w, p)
      BY <1>3, Zenon DEF FailForGood
    <2>3. Goes(w, p)
      BY <1>3, <2>1, <2>2, EntryHeldKept, GotoGoes
      DEF FailForGood, queueVars, WorkerSteps
    <2>4. Finish(w, p, "failed")
      BY <1>3, <2>1, <2>3 DEF Finish, FailForGood, queueVars
    <2>5. QED
      BY <2>4 DEF WorkerKind, WorkerSteps, Finished
  <1>4. CASE FailOutOfAttempts(w)
    <2>1. wpc[w] \in {"run", "fail", "error"}
      BY <1>4 DEF FailOutOfAttempts, Fails
    <2>2. PICK p \in {"deadSite", "deadLetter"} : Goto(w, p)
      BY <1>4, Zenon DEF FailOutOfAttempts
    <2>3. Goes(w, p)
      BY <1>4, <2>1, <2>2, EntryHeldKept, GotoGoes
      DEF FailOutOfAttempts, queueVars, WorkerSteps
    <2>4. Finish(w, p, "dead_lettered")
      BY <1>4, <2>1, <2>3 DEF Finish, FailOutOfAttempts, queueVars
    <2>5. QED
      BY <2>4 DEF WorkerKind, WorkerSteps, Finished
  <1>5. QED
    BY <1>1, <1>2, <1>3, <1>4

LEMMA SweepKinds ==
  ASSUME IInv, NEW w \in Workers, CancelSeen(w) \/ StopCancel(w) \/ StopRemove(w)
  PROVE  SweepRecords(RunOf(Job(w))) \/ SweepQueues(RunOf(Job(w)))
  <1>1. CASE CancelSeen(w)
    <2>1. Goes(w, "return") /\ wnext'[w] = wnext[w]
      BY <1>1, EntryHeldKept, GotoGoes DEF CancelSeen, queueVars, workerRest, WorkerSteps
    <2>2. QED
      BY <1>1, <2>1 DEF CancelSeen, SweepRecords, SweptBy, queueVars
  <1>2. CASE StopCancel(w)
    <2>1. Goes(w, "stopRemove") /\ wnext'[w] = wnext[w]
      BY <1>2, EntryHeldKept, GotoGoes DEF StopCancel, queueVars, workerRest, WorkerSteps
    <2>2. QED
      BY <1>2, <2>1 DEF StopCancel, SweepRecords, SweptBy, queueVars
  <1>3. CASE StopRemove(w)
    <2>1. HeldKept
      BY <1>3, DropHolds, RecordsKept DEF StopRemove, IInv
    <2>2. Goes(w, "return") /\ wnext'[w] = wnext[w]
      BY <1>3, <2>1, GotoGoes DEF StopRemove, workerRest, WorkerSteps
    <2>3. QED
      BY <1>3, <2>2 DEF StopRemove, SweepQueues, SweptBy, RecordsSame, jobVars
  <1>4. QED
    BY <1>1, <1>2, <1>3

LEMMA NextKinds ==
  ASSUME IInv, NEW w \in Workers, CreateStage(w) \/ EnqueueNext(w)
  PROVE  WorkerKind(w)
  <1>1. CASE CreateStage(w)
    <2>1. Goes(w, "enqueue") /\ wnext'[w] = wnext[w]
      BY <1>1, EntryHeldKept, GotoGoes DEF CreateStage, queueVars, workerRest, WorkerSteps
    <2>2. NewStage(w)
      BY <1>1, <2>1 DEF NewStage, CreateStage, queueVars
    <2>3. QED
      BY <2>2 DEF WorkerKind
  <1>2. CASE EnqueueNext(w)
    <2>1. HeldKept
      BY <1>2, NextJobParts, AddHolds, RecordsKept DEF EnqueueNext, IInv
    <2>2. Goes(w, "return") /\ wnext'[w] = wnext[w]
      BY <1>2, <2>1, GotoGoes DEF EnqueueNext, workerRest, WorkerSteps
    <2>3. WorkerQueues(w)
      BY <1>2, <2>2 DEF WorkerQueues, EnqueueNext, RecordsSame, jobVars
    <2>4. QED
      BY <2>3 DEF WorkerKind
  <1>3. QED
    BY <1>1, <1>2

\* What a worker may leave of the BullMQ job it held.
LEMMA LeftWaiting ==
  ASSUME IInv, NEW w \in Workers, wpc[w] # "idle"
  PROVE  /\ FreeEntry.state = "free"
         /\ LET e == entry[wentry[w]]
            IN  /\ [e EXCEPT !.state = "waiting"].state = "waiting"
                /\ [e EXCEPT !.state = "waiting"].job = Job(w)
                /\ [e EXCEPT !.state = "waiting", !.made = @ + 1].state = "waiting"
                /\ [e EXCEPT !.state = "waiting", !.made = @ + 1].job = Job(w)
                /\ [e EXCEPT !.state = "waiting", !.stalls = @ + 1].state = "waiting"
                /\ [e EXCEPT !.state = "waiting", !.stalls = @ + 1].job = Job(w)
  BY HeldJob DEF FreeEntry, BullJob, Job

LEMMA LetGoStep ==
  ASSUME IInv, NEW w \in Workers, wpc[w] # "idle", NEW e, Release(w, e),
         e.state = "free" \/ (e.state = "waiting" /\ e.job = Job(w)),
         \/ wpc[w] = "return" /\ e.state = "free"
         \/ wpc[w] \in {"moveDelayed", "throw"} /\ e.state = "waiting"
         \/ spent'["crash"] # 0
         \/ spent'["outage"] # 0,
         UNCHANGED <<jobVars, lateJobs, controlVars, clientVars>>
  PROVE  WorkerKind(w)
  <1>1. LetGo(w, e)
    BY ReleaseLetsGo
    DEF LetGo, Release, RecordsSame, ClientsSame, jobVars, controlVars, clientVars
  <1>2. QED
    BY <1>1 DEF WorkerKind

LEMMA ReleaseKinds ==
  ASSUME IInv, NEW w \in Workers,
         MoveDelayed(w) \/ Return(w) \/ Rethrow(w) \/ ProcessThrows(w) \/ Crash(w)
  PROVE  WorkerKind(w)
  <1> DEFINE e == entry[wentry[w]]
             d == [e EXCEPT !.state = "waiting"]
             m == [e EXCEPT !.state = "waiting", !.made = @ + 1]
             s == [e EXCEPT !.state = "waiting", !.stalls = @ + 1]
  <1>0. wpc[w] # "idle"
    BY DEF MoveDelayed, Return, Rethrow, ProcessThrows, Crash
  <1>1. /\ FreeEntry.state = "free"
        /\ d.state = "waiting" /\ d.job = Job(w)
        /\ m.state = "waiting" /\ m.job = Job(w)
        /\ s.state = "waiting" /\ s.job = Job(w)
    BY <1>0, LeftWaiting
  <1> HIDE DEF d, m, s
  <1>2. CASE MoveDelayed(w)
    <2>1. Release(w, d)
      BY <1>2 DEF MoveDelayed, d
    <2>2. QED
      BY <1>0, <1>1, <1>2, <2>1, LetGoStep DEF MoveDelayed, workerRest
  <1>3. CASE Return(w)
    BY <1>0, <1>1, <1>3, LetGoStep DEF Return, workerRest
  <1>4. CASE Rethrow(w)
    <2>1. Release(w, m)
      BY <1>4 DEF Rethrow, m
    <2>2. QED
      BY <1>0, <1>1, <1>4, <2>1, LetGoStep DEF Rethrow, workerRest
  <1>5. CASE ProcessThrows(w)
    <2>1. Release(w, FreeEntry) \/ Release(w, m)
      BY <1>5, Zenon DEF ProcessThrows, m
    <2>2. spent'["outage"] # 0
      BY <1>5, EventNames, SpendCounts DEF ProcessThrows
    <2>3. QED
      BY <1>0, <1>1, <1>5, <2>1, <2>2, LetGoStep DEF ProcessThrows
  <1>6. CASE Crash(w)
    <2>1. Release(w, FreeEntry) \/ Release(w, s)
      BY <1>6, Zenon DEF Crash, s
    <2>2. spent'["crash"] # 0
      BY <1>6, EventNames, SpendCounts DEF Crash
    <2>3. QED
      BY <1>0, <1>1, <1>6, <2>1, <2>2, LetGoStep DEF Crash
  <1>7. QED
    BY <1>2, <1>3, <1>4, <1>5, <1>6

LEMMA StoreFailsKind ==
  ASSUME IInv, NEW w \in Workers, StoreFails(w)
  PROVE  WorkerKind(w)
  <1>1. spent'["outage"] # 0
    BY EventNames, SpendCounts DEF StoreFails
  <1>2. PICK p \in {"stopped", "error"} : Goto(w, p)
    BY Zenon DEF StoreFails
  <1>3. wpc[w] \in InTry /\ wpc[w] # "idle"
    BY DEF StoreFails, InTry
  <1>4. QED
    BY <1>1, <1>2, <1>3, AdvanceSteps DEF StoreFails, LegalMove, WorkerSteps, queueVars

LEMMA WrapUpFailsKind ==
  ASSUME IInv, NEW w \in Workers, WrapUpFails(w)
  PROVE  WorkerKind(w)
  <1>1. spent'["outage"] # 0
    BY EventNames, SpendCounts DEF WrapUpFails
  <1>2. PICK p \in {"stopped", "error"} : Goto(w, p)
    BY Zenon DEF WrapUpFails
  <1>3. Goes(w, p)
    BY <1>2, EntryHeldKept, GotoGoes DEF WrapUpFails, queueVars, WorkerSteps
  <1>4. Finish(w, p, "completed")
    BY <1>1, <1>3 DEF Finish, WrapUpFails, queueVars
  <1>5. QED
    BY <1>4 DEF WorkerKind, WorkerSteps, Finished

LEMMA TakeKinds ==
  ASSUME IInv, NEW b \in Entries, Take(b)
  PROVE  StepKind
  <1>1. CASE DeliverFinished(b)
    <2>1. HeldKept
      BY <1>1 DEF DeliverFinished, HeldKept, IInv, Queues
    <2>2. ReceivesFinished(b)
      BY <1>1, <2>1, WorkersSame DEF DeliverFinished, ReceivesFinished, EntryOf, RecordsSame,
         ClientsSame, jobVars, workerVars, workerRest, controlVars, clientVars
    <2>3. QED
      BY <2>2 DEF StepKind
  <1>2. ASSUME NEW w \in Workers, Deliver(w, b)
        PROVE  StepKind
    <2>1. ASSUME NEW v \in Workers, v # w
          PROVE  Same(v)
      BY <1>2, <2>1 DEF Deliver, Same, IInv, Holders, Queues
    <2>2. Receives(w, b)
      BY <1>2, <2>1 DEF Deliver, Receives, OthersSame, EntryOf, RecordsSame, IInv, Holders,
         ClientsSame, jobVars, workerRest, controlVars, clientVars
    <2>3. QED
      BY <2>2 DEF StepKind
  <1>3. QED
    BY <1>1, <1>2 DEF Take

\* A client goes on; no worker does.
LEMMA ClientGotoTurns ==
  ASSUME IInv, NEW c \in Clients, NEW pc \in ClientSteps, ClientGoto(c, pc), AllSame
  PROVE  /\ Turns(c, pc)
         /\ pc # "idle" => cjob'[c] = cjob[c]
  BY DEF IInv, Requests, ClientGoto, Turns

LEMMA ElsewhereStep ==
  ASSUME IInv, NEW c \in Clients, NEW pc \in ClientSteps,
         pc \notin {"enqueue", "cancelJobs", "removePending"},
         cpc[c] # "enqueue" \/ spent'["crash"] # 0,
         cpc' = [cpc EXCEPT ![c] = pc],
         \A d \in Clients : d # c => cjob'[d] = cjob[d],
         UNCHANGED <<jobVars, lateJobs, cancelled, entry, deadLetter, wpc, wentry, wnext>>
  PROVE  StepKind
  <1>1. AllSame
    BY EntryHeldKept, WorkersSame
  <1>2. Elsewhere
    BY <1>1 DEF Elsewhere, RecordsSame, jobVars, IInv, Requests
  <1>3. QED
    BY <1>2 DEF StepKind

LEMMA ClientGotoElsewhere ==
  ASSUME IInv, NEW c \in Clients, NEW pc \in ClientSteps,
         pc \notin {"enqueue", "cancelJobs", "removePending"},
         cpc[c] # "enqueue" \/ spent'["crash"] # 0,
         ClientGoto(c, pc),
         UNCHANGED <<jobVars, lateJobs, cancelled, entry, deadLetter, wpc, wentry, wnext>>
  PROVE  StepKind
  <1>1. /\ cpc' = [cpc EXCEPT ![c] = pc]
        /\ \A d \in Clients : d # c => cjob'[d] = cjob[d]
    BY DEF ClientGoto, IInv, Requests
  <1>2. QED
    BY <1>1, ElsewhereStep

LEMMA StayElsewhere ==
  ASSUME IInv,
         UNCHANGED <<jobVars, lateJobs, cancelled, entry, deadLetter, wpc, wentry, wnext,
                     cpc, cjob>>
  PROVE  StepKind
  <1>1. AllSame
    BY EntryHeldKept, WorkersSame
  <1>2. Elsewhere
    BY <1>1 DEF Elsewhere, RecordsSame, jobVars
  <1>3. QED
    BY <1>2 DEF StepKind

LEMMA ProceedKinds ==
  ASSUME IInv, NEW c \in Clients, Proceed(c)
  PROVE  StepKind
  <1>0. AfterStart(c) \in {"idle", "markScheduled"}
    BY Zenon DEF AfterStart
  <1>1. CASE CreateRun(c)
    <2>1. PICK r \in Runs :
            /\ FreshRun(r) /\ Create(<<r, 1>>, ctarget[c])
            /\ cjob' = [cjob EXCEPT ![c] = <<r, 1>>]
      BY <1>1 DEF CreateRun
    <2>2. AllSame
      BY <1>1, EntryHeldKept, WorkersSame DEF CreateRun, queueVars, clientRest, workerVars
    <2>3. NewRun(c, r)
      BY <1>1, <2>1, <2>2 DEF NewRun, CreateRun, Turns, IInv, Requests, queueVars, controlVars
    <2>4. QED
      BY <2>3 DEF StepKind, ClientKind
  <1>2. CASE RunExists(c)
    BY <1>2, ClientGotoElsewhere
    DEF RunExists, ClientSteps, controlVars, queueVars, clientRest, workerVars
  <1>3. CASE FindRun(c)
    <2>1. PICK pc \in {"idle", "markScheduled"} : ClientGoto(c, pc)
      BY <1>0, <1>3, Zenon DEF FindRun
    <2>2. QED
      BY <1>3, <2>1, ClientGotoElsewhere
      DEF FindRun, ClientSteps, controlVars, queueVars, clientRest, workerVars
  <1>4. CASE Enqueue(c)
    <2>1. PICK pc \in {"idle", "markScheduled"} : ClientGoto(c, pc)
      BY <1>0, <1>4, Zenon DEF Enqueue
    <2>2. HeldKept
      BY <1>4, AddHolds, RecordsKept DEF Enqueue, IInv, Requests
    <2>3. AllSame
      BY <1>4, <2>2, WorkersSame DEF Enqueue, clientRest, workerVars
    <2>4. Turns(c, pc)
      BY <2>1, <2>3, ClientGotoTurns DEF ClientSteps
    <2>5. ClientQueuesJob(c)
      BY <1>4, <2>4 DEF ClientQueuesJob, Enqueue, RecordsSame, jobVars, controlVars
    <2>6. QED
      BY <2>5 DEF StepKind, ClientKind
  <1>5. CASE CancelJobs(c)
    <2>1. AllSame
      BY <1>5, EntryHeldKept, WorkersSame DEF CancelJobs, queueVars, clientRest, workerVars
    <2>2. Turns(c, "removePending") /\ cjob'[c] = cjob[c]
      BY <1>5, <2>1, ClientGotoTurns DEF CancelJobs, ClientSteps
    <2>3. SweepRecords(RunOf(cjob[c]))
      BY <1>5, <2>2 DEF SweepRecords, SweptBy, CancelJobs, queueVars, controlVars
    <2>4. QED
      BY <2>3 DEF StepKind
  <1>6. CASE RemovePending(c)
    <2>1. HeldKept
      BY <1>6, DropHolds, RecordsKept DEF RemovePending, IInv
    <2>2. AllSame
      BY <1>6, <2>1, WorkersSame DEF RemovePending, clientRest, workerVars
    <2>3. Turns(c, "idle")
      BY <1>6, <2>2, ClientGotoTurns DEF RemovePending, ClientSteps
    <2>4. SweepQueues(RunOf(cjob[c]))
      BY <1>6, <2>3
      DEF SweepQueues, SweptBy, RemovePending, RecordsSame, jobVars, controlVars
    <2>5. QED
      BY <2>4 DEF StepKind
  <1>7. CASE PauseQueues(c) \/ ResumeQueues(c)
    BY <1>7, ClientGotoElsewhere
    DEF PauseQueues, ResumeQueues, ClientSteps, controlVars, clientRest, workerVars
  <1>8. QED
    BY <1>1, <1>2, <1>3, <1>4, <1>5, <1>6, <1>7 DEF Proceed

LEMMA RequestKinds ==
  ASSUME IInv, NEW c \in Clients,
         \/ \E s \in Sites : StartRun(c, s)
         \/ \E k \in Keys : StartJob(c, k)
         \/ \E j \in Jobs : Retry(c, j)
         \/ \E r \in Runs : CancelFlag(c, r)
         \/ Halt(c) \/ Resume(c) \/ ClientCrash(c)
  PROVE  StepKind
  <1>1. CASE (\E s \in Sites : StartRun(c, s)) \/ \E k \in Keys : StartJob(c, k)
    <2>1. /\ cpc' = [cpc EXCEPT ![c] = "create"] /\ cjob' = cjob
          /\ cpc[c] # "enqueue"
          /\ UNCHANGED <<jobVars, lateJobs, cancelled, entry, deadLetter,
                         wpc, wentry, wnext>>
      BY <1>1 DEF StartRun, StartJob, controlVars, queueVars, clientRest, workerVars
    <2>2. QED
      BY <2>1, ElsewhereStep DEF ClientSteps
  <1>2. ASSUME NEW j \in Jobs, Retry(c, j)
        PROVE  StepKind
    <2>1. AllSame
      BY <1>2, EntryHeldKept, WorkersSame DEF Retry, queueVars, workerVars
    <2>2. Turns(c, "enqueue") /\ cjob'[c] = j
      BY <1>2, <2>1 DEF Retry, Turns, IInv, Requests
    <2>3. spent'["retry"] # 0
      BY <1>2, EventNames, SpendCounts DEF Retry
    <2>4. Retries(c, j)
      BY <1>2, <2>2, <2>3 DEF Retry, Retries, controlVars, queueVars
    <2>5. QED
      BY <2>4 DEF StepKind, ClientKind
  <1>3. ASSUME NEW r \in Runs, CancelFlag(c, r)
        PROVE  StepKind
    <2>1. AllSame
      BY <1>3, EntryHeldKept, WorkersSame DEF CancelFlag, queueVars
    <2>2. Turns(c, "cancelJobs") /\ cjob'[c] = <<r, 1>>
      BY <1>3, <2>1 DEF CancelFlag, Turns, IInv, Requests
    <2>3. spent'["cancel"] # 0
      BY <1>3, EventNames, SpendCounts DEF CancelFlag
    <2>4. FlagsRun(c, r)
      BY <1>3, <2>2, <2>3 DEF CancelFlag, FlagsRun, RecordsSame, jobVars, queueVars
    <2>5. QED
      BY <2>4 DEF StepKind, ClientKind
  <1>4. CASE Halt(c) \/ Resume(c) \/ ClientCrash(c)
    <2>0. cpc[c] # "enqueue" \/ spent'["crash"] # 0
      BY <1>4, EventNames, SpendCounts DEF Halt, Resume, ClientCrash
    <2>1. /\ ClientGoto(c, "pause") \/ ClientGoto(c, "unpause") \/ ClientGoto(c, "idle")
          /\ UNCHANGED <<jobVars, lateJobs, cancelled, entry, deadLetter,
                         wpc, wentry, wnext>>
      BY <1>4 DEF Halt, Resume, ClientCrash, controlVars, queueVars, workerVars
    <2>2. QED
      BY <2>0, <2>1, ClientGotoElsewhere DEF ClientSteps
  <1>5. QED
    BY <1>1, <1>2, <1>3, <1>4

LEMMA SystemKinds ==
  ASSUME IInv,
         \/ \E s \in Sites : Tick(s) \/ BecomeDue(s)
         \/ TickFindsRun \/ MarkScheduled \/ Shutdown \/ UNCHANGED vars
  PROVE  StepKind
  <1>0. Scheduler \in Clients
    BY DEF Clients
  <1>1. ASSUME NEW s \in Sites, Tick(s)
        PROVE  StepKind
    <2>1. /\ cpc' = [cpc EXCEPT ![Scheduler] = "start"] /\ cjob' = cjob
          /\ cpc[Scheduler] # "enqueue"
          /\ UNCHANGED <<jobVars, lateJobs, cancelled, entry, deadLetter,
                         wpc, wentry, wnext>>
      BY <1>1 DEF Tick, controlVars, queueVars, clientRest, workerVars
    <2>2. QED
      BY <1>0, <2>1, ElsewhereStep DEF ClientSteps
  <1>2. CASE TickFindsRun \/ MarkScheduled
    <2>1. /\ ClientGoto(Scheduler, "markScheduled") \/ ClientGoto(Scheduler, "idle")
          /\ cpc[Scheduler] # "enqueue"
          /\ UNCHANGED <<jobVars, lateJobs, cancelled, entry, deadLetter,
                         wpc, wentry, wnext>>
      BY <1>2 DEF TickFindsRun, MarkScheduled, controlVars, queueVars, clientRest, workerVars
    <2>2. QED
      BY <1>0, <2>1, ClientGotoElsewhere DEF ClientSteps
  <1>3. CASE (\E s \in Sites : BecomeDue(s)) \/ Shutdown \/ UNCHANGED vars
    <2>1. UNCHANGED <<jobVars, lateJobs, cancelled, entry, deadLetter, wpc, wentry, wnext,
                      cpc, cjob>>
      BY <1>3 DEF BecomeDue, Shutdown, vars, controlVars, queueVars, workerVars, clientVars
    <2>2. QED
      BY <2>1, StayElsewhere
  <1>4. QED
    BY <1>1, <1>2, <1>3

LEMMA WorkerKinds ==
  ASSUME IInv, NEW w \in Workers,
         Work(w) \/ StoreFails(w) \/ WrapUpFails(w) \/ ProcessThrows(w) \/ Crash(w)
  PROVE  StepKind
  <1>1. CASE CancelSeen(w) \/ StopCancel(w) \/ StopRemove(w)
    BY <1>1, SweepKinds DEF StepKind
  <1>2. CASE ~(CancelSeen(w) \/ StopCancel(w) \/ StopRemove(w))
    <2>1. WorkerKind(w)
      BY <1>2, AdvanceKinds, WriteKinds, FinishKinds, NextKinds, ReleaseKinds,
         StoreFailsKind, WrapUpFailsKind DEF Work
    <2>2. QED
      BY <2>1 DEF StepKind
  <1>3. QED
    BY <1>1, <1>2

\* Every step is of one of the kinds.
LEMMA StepKinds ==
  ASSUME IInv, [Next]_vars
  PROVE  StepKind
  <1>0. Scheduler \in Clients /\ Admins \subseteq Clients
    BY DEF Clients
  <1>1. CASE \E w \in Workers :
               \/ Work(w) \/ StoreFails(w) \/ WrapUpFails(w)
               \/ ProcessThrows(w) \/ Crash(w)
    BY <1>1, WorkerKinds
  <1>2. CASE \E b \in Entries : Take(b)
    BY <1>2, TakeKinds
  <1>3. CASE \/ \E c \in Admins : Request(c) \/ Proceed(c)
             \/ \E k \in Keys : StartJob(Scheduler, k)
             \/ SchedulerStep
             \/ \E c \in Clients : ClientCrash(c)
    BY <1>0, <1>3, RequestKinds, ProceedKinds, SystemKinds DEF Request, SchedulerStep
  <1>4. CASE (\E s \in Sites : Tick(s) \/ BecomeDue(s)) \/ Shutdown \/ UNCHANGED vars
    BY <1>4, SystemKinds
  <1>5. QED
    BY <1>1, <1>2, <1>3, <1>4 DEF Next

LEMMA SpentGrows ==
  ASSUME IInv, [Next]_vars
  PROVE  Grown
  <1>1. UNCHANGED spent \/ \E e \in Events : Spend(e)
    <2>1. ASSUME NEW w \in Workers,
                 \/ Work(w) \/ StoreFails(w) \/ WrapUpFails(w)
                 \/ ProcessThrows(w) \/ Crash(w)
          PROVE  UNCHANGED spent \/ \E e \in Events : Spend(e)
      BY <2>1, EventNames DEF Work, StoreFails, WrapUpFails, ProcessThrows, Crash, workerRest,
         ReadControl, CancelSeen, Delay, MoveDelayed, MarkRunning, StageProceeds,
         ScheduleNext, SingleJobEnds, CompleteLast, CheckCancelled, CreateStage,
         StageSlotTaken, EnqueueNext, Return, StageDelays, StageStops, ReadStop,
         StopCancel, StopRemove, FailRetry, Rethrow, FailForGood, FailOutOfAttempts,
         ScheduleAfterFailure, DeadLetter, Fails
    <2>2. ASSUME NEW b \in Entries, Take(b)
          PROVE  UNCHANGED spent
      BY <2>2 DEF Take, DeliverFinished, Deliver, workerRest
    <2>3. ASSUME NEW c \in Clients, Request(c) \/ Proceed(c) \/ ClientCrash(c)
          PROVE  UNCHANGED spent \/ \E e \in Events : Spend(e)
      BY <2>3, EventNames DEF Request, Proceed, ClientCrash, StartRun, StartJob, Retry,
         CancelFlag, Halt, Resume, CreateRun, RunExists, FindRun, Enqueue, CancelJobs,
         RemovePending, PauseQueues, ResumeQueues, clientRest
    <2>4. CASE \/ \E s \in Sites : Tick(s) \/ BecomeDue(s) \/ StartRun(Scheduler, s)
               \/ \E k \in Keys : StartJob(Scheduler, k)
               \/ TickFindsRun \/ MarkScheduled \/ Shutdown \/ UNCHANGED vars
      BY <2>4, EventNames DEF Tick, BecomeDue, StartRun, StartJob, TickFindsRun,
         MarkScheduled, Shutdown, vars, clientRest
    <2>5. Scheduler \in Clients /\ Admins \subseteq Clients
      BY DEF Clients
    <2>6. QED
      BY <2>1, <2>2, <2>3, <2>4, <2>5 DEF Next, SchedulerStep
  <1>2. QED
    BY <1>1, SpendCounts, SpentSame

-----------------------------------------------------------------------------
(* What stays, whatever the step.                                           *)

LEMMA SameJob ==
  ASSUME NEW v, Same(v), wpc[v] # "idle"
  PROVE  Job(v)' = Job(v) /\ NextJob(v)' = NextJob(v)
  BY DEF Same, Job, NextJob

LEMMA GoesJob ==
  ASSUME NEW w, NEW p, Goes(w, p)
  PROVE  /\ Job(w)' = Job(w)
         /\ wnext'[w] = wnext[w] => NextJob(w)' = NextJob(w)
  BY DEF Goes, Job, NextJob

\* What a step does to one worker.
Sweeps(w) ==
    /\ wpc[w] \in Stopping
    /\ \E p \in {"return", "stopRemove"} : Goes(w, p) /\ wnext'[w] = wnext[w]

LEMMA WorkerTurn ==
  ASSUME StepKind, NEW v \in Workers
  PROVE  Same(v) \/ WorkerKind(v) \/ Sweeps(v) \/ \E b \in Entries : Receives(v, b)
  <1>1. ASSUME NEW w \in Workers, WorkerKind(w), v # w
        PROVE  Same(v)
    BY <1>1 DEF WorkerKind, Advance, Write, Finish, NewStage, WorkerQueues, LetGo, Goes,
       OthersSame
  <1>2. ASSUME NEW c \in Clients, ClientKind(c)
        PROVE  Same(v)
    BY <1>2 DEF ClientKind, NewRun, FlagsRun, ClientQueuesJob, Retries, Turns, AllSame
  <1>3. ASSUME NEW r, SweepRecords(r) \/ SweepQueues(r)
        PROVE  Same(v) \/ Sweeps(v)
    BY <1>3 DEF SweepRecords, SweepQueues, SweptBy, Sweeps, Stopping, Turns, AllSame, Goes,
       OthersSame
  <1>4. ASSUME NEW b \in Entries, ReceivesFinished(b)
        PROVE  Same(v)
    BY <1>4 DEF ReceivesFinished, AllSame
  <1>5. ASSUME NEW b \in Entries, NEW w \in Workers, Receives(w, b), v # w
        PROVE  Same(v)
    BY <1>5 DEF Receives, OthersSame
  <1>6. CASE Elsewhere
    BY <1>6 DEF Elsewhere, AllSame
  <1>7. QED
    BY <1>1, <1>2, <1>3, <1>4, <1>5, <1>6 DEF StepKind

\* A worker that holds a job after the step held it before, or has received it.
LEMMA HeldBefore ==
  ASSUME StepKind, NEW v \in Workers, wpc'[v] # "idle"
  PROVE  \/ wpc[v] # "idle" /\ wentry'[v] = wentry[v] /\ Job(v)' = Job(v)
         \/ wpc'[v] = "control" /\ \E b \in Entries : Receives(v, b)
  <1>1. CASE Same(v)
    BY <1>1, SameJob DEF Same
  <1>2. CASE \E p : Goes(v, p)
    BY <1>2, GoesJob DEF Goes
  <1>3. ASSUME NEW b \in Entries, Receives(v, b)
        PROVE  wpc'[v] = "control"
    BY <1>3 DEF Receives
  <1>4. CASE WorkerKind(v) \/ Sweeps(v)
    BY <1>2, <1>4 DEF WorkerKind, Sweeps, Advance, Write, Finish, NewStage, WorkerQueues, LetGo
  <1>5. QED
    BY <1>1, <1>3, <1>4, WorkerTurn

LEMMA ExistsStays ==
  ASSUME IInv, StepKind, NEW j \in Jobs, Exists(j)
  PROVE  Exists(j)'
  <1>0. status \in [Jobs -> Statuses]
    BY DEF IInv, Records
  <1>1. \/ status' = status
        \/ \E k, s : s # "none" /\ status' = [status EXCEPT ![k] = s]
        \/ \E r : CancelStages(r)
    <2>1. ASSUME NEW w \in Workers, WorkerKind(w)
          PROVE  \/ status' = status
                 \/ \E k, s : s # "none" /\ status' = [status EXCEPT ![k] = s]
      BY <2>1 DEF WorkerKind, Advance, Write, Finish, NewStage, WorkerQueues, LetGo,
         RecordsSame, Close, Create, Active, Finished
    <2>2. ASSUME NEW c \in Clients, ClientKind(c)
          PROVE  \/ status' = status
                 \/ \E k, s : s # "none" /\ status' = [status EXCEPT ![k] = s]
      BY <2>2 DEF ClientKind, NewRun, FlagsRun, ClientQueuesJob, Retries, RecordsSame, Create
    <2>3. QED
      BY <2>1, <2>2 DEF StepKind, SweepRecords, SweepQueues, ReceivesFinished, Receives,
         Elsewhere, RecordsSame
  <1>2. CASE status' = status
    BY <1>2 DEF Exists
  <1>3. ASSUME NEW k, NEW s, s # "none", status' = [status EXCEPT ![k] = s]
        PROVE  Exists(j)'
    BY <1>0, <1>3 DEF Exists
  <1>4. ASSUME NEW r, CancelStages(r)
        PROVE  Exists(j)'
    BY <1>4 DEF CancelStages, Exists
  <1>5. QED
    BY <1>1, <1>2, <1>3, <1>4

LEMMA AddedEntry ==
  ASSUME IInv, NEW j \in Jobs, AddEntry(j)
  PROVE  \E b \in Entries :
            /\ entry[b].state = "free"
            /\ entry'[b].state = "waiting" /\ EntryOf(b)' = j
            /\ \A a \in Entries : a # b => entry'[a] = entry[a]
  <1>1. PICK b \in Entries :
          /\ entry[b].state = "free"
          /\ entry' = [entry EXCEPT ![b] = [FreeEntry EXCEPT !.job = j, !.state = "waiting"]]
    BY DEF AddEntry
  <1>2. entry'[b].state = "waiting" /\ EntryOf(b)' = j
        /\ \A a \in Entries : a # b => entry'[a] = entry[a]
    BY <1>1 DEF IInv, Queues, FreeEntry, EntryOf
  <1>3. QED
    BY <1>1, <1>2

\* A BullMQ job after the step: as it was, gone, let go, received, or added.
Added(j) ==
    \/ \E w \in Workers : wpc[w] = "enqueue" /\ wpc'[w] = "return" /\ j = NextJob(w)
    \/ \E c \in Clients : cpc[c] = "enqueue" /\ cpc'[c] # "enqueue" /\ j = cjob[c]
EntryChange(b) ==
    \/ entry'[b] = entry[b]
    \/ entry'[b].state = "free"
    \/ /\ entry'[b].state = "waiting" /\ entry[b].state = "active" /\ EntryOf(b)' = EntryOf(b)
       /\ \E w \in Workers : wpc[w] # "idle" /\ wentry[w] = b /\ \E e : LetGo(w, e)
    \/ /\ entry'[b].state = "active" /\ entry[b].state = "waiting" /\ EntryOf(b)' = EntryOf(b)
       /\ \E w \in Workers : Receives(w, b)
    \/ /\ entry'[b].state = "waiting" /\ entry[b].state = "free"
       /\ \A a \in Entries : a # b => entry'[a] = entry[a]
       /\ Added(EntryOf(b)')

LEMMA EntryChanges ==
  ASSUME IInv, StepKind, NEW b \in Entries
  PROVE  EntryChange(b)
  <1>0. entry \in [Entries -> BullJob]
    BY DEF IInv, Queues
  <1>1. ASSUME NEW w \in Workers, WorkerKind(w)
        PROVE  EntryChange(b)
    <2>1. ASSUME NEW e, LetGo(w, e)
          PROVE  EntryChange(b)
      <3>1. CASE b = wentry[w]
        <4>1. entry'[b] = e /\ entry[b].state = "active" /\ Job(w) = EntryOf(b)
          BY <1>0, <2>1, <3>1, HeldJob DEF LetGo, Job, EntryOf
        <4>2. QED
          BY <2>1, <3>1, <4>1 DEF EntryChange, LetGo, EntryOf
      <3>2. CASE b # wentry[w]
        BY <1>0, <2>1, <3>2 DEF LetGo, EntryChange
      <3>3. QED
        BY <3>1, <3>2
    <2>2. CASE WorkerQueues(w)
      <3>1. NextJob(w) \in Jobs /\ wpc'[w] = "return"
        BY <2>2, NextJobParts DEF WorkerQueues, Goes
      <3>2. PICK a \in Entries :
            /\ entry[a].state = "free"
            /\ entry'[a].state = "waiting" /\ EntryOf(a)' = NextJob(w)
            /\ \A d \in Entries : d # a => entry'[d] = entry[d]
        BY <2>2, <3>1, AddedEntry DEF WorkerQueues
      <3>3. QED
        BY <2>2, <3>1, <3>2 DEF EntryChange, Added, WorkerQueues
    <2>3. QED
      BY <1>1, <2>1, <2>2 DEF WorkerKind, Advance, Write, Finish, NewStage, EntryChange
  <1>2. ASSUME NEW c \in Clients, ClientKind(c)
        PROVE  EntryChange(b)
    <2>1. CASE ClientQueuesJob(c)
      <3>1. cjob[c] \in Jobs /\ cpc'[c] # "enqueue"
        BY <2>1 DEF ClientQueuesJob, Turns, IInv, Requests
      <3>2. PICK a \in Entries :
            /\ entry[a].state = "free"
            /\ entry'[a].state = "waiting" /\ EntryOf(a)' = cjob[c]
            /\ \A d \in Entries : d # a => entry'[d] = entry[d]
        BY <2>1, <3>1, AddedEntry DEF ClientQueuesJob
      <3>3. QED
        BY <2>1, <3>1, <3>2 DEF EntryChange, Added, ClientQueuesJob
    <2>2. QED
      BY <1>2, <2>1 DEF ClientKind, NewRun, FlagsRun, Retries, EntryChange
  <1>3. ASSUME NEW r, SweepRecords(r) \/ SweepQueues(r)
        PROVE  EntryChange(b)
    BY <1>3 DEF SweepRecords, SweepQueues, DropPending, EntryChange, FreeEntry
  <1>4. ASSUME NEW a \in Entries, ReceivesFinished(a)
        PROVE  EntryChange(b)
    BY <1>0, <1>4 DEF ReceivesFinished, EntryChange, FreeEntry
  <1>5. ASSUME NEW a \in Entries, NEW w \in Workers, Receives(w, a)
        PROVE  EntryChange(b)
    <2>1. CASE b = a
      <3>1. entry'[b].state = "active" /\ EntryOf(b)' = EntryOf(b)
        BY <1>0, <1>5, <2>1 DEF Receives, BullJob, EntryOf
      <3>2. QED
        BY <1>5, <2>1, <3>1 DEF EntryChange, Receives
    <2>2. CASE b # a
      BY <1>0, <1>5, <2>2 DEF Receives, EntryChange
    <2>3. QED
      BY <2>1, <2>2
  <1>6. CASE Elsewhere
    BY <1>6 DEF Elsewhere, EntryChange
  <1>7. QED
    BY <1>1, <1>2, <1>3, <1>4, <1>5, <1>6 DEF StepKind

\* Somebody about to add a BullMQ job was so before, or has just written the record.
LEMMA WorkerAddsBefore ==
  ASSUME StepKind, NEW w \in Workers, wpc'[w] = "enqueue"
  PROVE  /\ NextJob(w)' = NextJob(w) /\ Job(w)' = Job(w)
         /\ wpc[w] = "enqueue" \/ NewStage(w)
  <1>1. CASE Same(w)
    BY <1>1, SameJob DEF Same
  <1>2. CASE NewStage(w)
    BY <1>2, GoesJob DEF NewStage
  <1>3. ~Sweeps(w) /\ \A b \in Entries : ~Receives(w, b)
    BY DEF Sweeps, Goes, Receives
  <1>4. WorkerKind(w) => NewStage(w)
    BY DEF WorkerKind, Advance, LegalMove, Write, Finish, WorkerQueues, LetGo, Goes
  <1>5. QED
    BY <1>1, <1>2, <1>3, <1>4, WorkerTurn

LEMMA ClientAddsBefore ==
  ASSUME IInv, StepKind, NEW c \in Clients, cpc'[c] = "enqueue"
  PROVE  \/ cpc[c] = "enqueue" /\ cjob'[c] = cjob[c]
         \/ \E r \in Runs : NewRun(c, r)
         \/ \E j \in Jobs : Retries(c, j)
  <1>1. ASSUME NEW d \in Clients, ClientKind(d)
        PROVE  \/ cpc[c] = "enqueue" /\ cjob'[c] = cjob[c]
               \/ \E r \in Runs : NewRun(c, r)
               \/ \E j \in Jobs : Retries(c, j)
    BY <1>1 DEF ClientKind, NewRun, FlagsRun, ClientQueuesJob, Retries, Turns
  <1>2. CASE Elsewhere
    BY <1>2 DEF Elsewhere
  <1>3. QED
    BY <1>1, <1>2 DEF StepKind, WorkerKind, Advance, Write, Finish, NewStage, WorkerQueues,
       LetGo, Turns, SweepRecords, SweepQueues, SweptBy, ReceivesFinished, Receives, Goes,
       ClientsSame

-----------------------------------------------------------------------------
(* What holds in every behaviour.                                           *)

LEMMA BackingKept ==
  ASSUME IInv, IInv', Backing, StepKind
  PROVE  Backing'
  <1>0. /\ \A w \in Workers : wpc[w] = "enqueue" => NextJob(w) \in Jobs
        /\ \A c \in Clients : cpc[c] = "enqueue" => cjob[c] \in Jobs
        /\ \A b \in Entries : entry[b].state # "free" => EntryOf(b) \in Jobs
        /\ status \in [Jobs -> Statuses]
    BY NextJobParts DEF IInv, Requests, Queues, EntryOf, Records
  <1>1. ASSUME NEW b \in Entries, entry'[b].state # "free"
        PROVE  Exists(EntryOf(b))'
    <2>1. ASSUME Added(EntryOf(b)')
          PROVE  EntryOf(b)' \in Jobs /\ Exists(EntryOf(b)')
      BY <1>0, <2>1 DEF Added, Backing
    <2>2. ASSUME EntryOf(b)' = EntryOf(b), entry[b].state # "free"
          PROVE  EntryOf(b)' \in Jobs /\ Exists(EntryOf(b)')
      BY <1>0, <2>2 DEF Backing
    <2>3. EntryOf(b)' \in Jobs /\ Exists(EntryOf(b)')
      BY <1>1, <2>1, <2>2, EntryChanges DEF EntryChange, EntryOf
    <2>4. QED
      BY <2>3, ExistsStays DEF Exists
  <1>2. ASSUME NEW c \in Clients, cpc'[c] = "enqueue"
        PROVE  Exists(cjob[c])'
    <2>1. CASE cpc[c] = "enqueue" /\ cjob'[c] = cjob[c]
      BY <1>0, <2>1, ExistsStays DEF Backing, Exists
    <2>2. ASSUME NEW r \in Runs, NewRun(c, r)
          PROVE  Exists(cjob[c])'
      BY <1>0, <2>2, FirstOfRun DEF NewRun, Create, Exists
    <2>3. ASSUME NEW j \in Jobs, Retries(c, j)
          PROVE  Exists(cjob[c])'
      BY <1>0, <2>3 DEF Retries, Exists
    <2>4. QED
      BY <1>2, <2>1, <2>2, <2>3, ClientAddsBefore
  <1>3. ASSUME NEW w \in Workers, wpc'[w] = "enqueue"
        PROVE  Exists(NextJob(w))'
    <2>1. CASE wpc[w] = "enqueue"
      BY <1>0, <1>3, <2>1, WorkerAddsBefore, ExistsStays DEF Backing, Exists
    <2>2. CASE NewStage(w)
      <3>1. NextJob(w) \in Jobs
        BY <2>2, NextJobParts DEF NewStage
      <3>2. status'[NextJob(w)] = "queued"
        BY <1>0, <2>2, <3>1 DEF NewStage, Create
      <3>3. QED
        BY <1>3, <3>2, WorkerAddsBefore DEF Exists
    <2>3. QED
      BY <1>3, <2>1, <2>2, WorkerAddsBefore
  <1>4. ASSUME NEW b \in Entries, entry'[b].state = "active"
        PROVE  Held(b)'
    <2>1. ASSUME NEW w \in Workers, Receives(w, b)
          PROVE  Held(b)'
      BY <2>1 DEF Receives, Held
    <2>2. CASE entry'[b] = entry[b]
      <3>1. PICK w \in Workers : wpc[w] # "idle" /\ wentry[w] = b
        BY <1>4, <2>2 DEF Backing, Held
      <3>2. CASE Same(w)
        BY <3>1, <3>2 DEF Same, Held
      <3>3. CASE \E p : Goes(w, p)
        BY <3>1, <3>3 DEF Goes, Held
      <3>4. ~\E e : LetGo(w, e)
        <4>1. SUFFICES ASSUME NEW e, LetGo(w, e) PROVE FALSE
          OBVIOUS
        <4>2. entry'[b] = e
          BY <3>1, <4>1 DEF LetGo, IInv, Queues
        <4>3. QED
          BY <1>4, <4>1, <4>2 DEF LetGo
      <3>5. ~\E a \in Entries : Receives(w, a)
        BY <3>1 DEF Receives
      <3>6. QED
        BY <3>2, <3>3, <3>4, <3>5, WorkerTurn
        DEF WorkerKind, Sweeps, Advance, Write, Finish, NewStage, WorkerQueues
    <2>3. QED
      BY <1>4, <2>1, <2>2, EntryChanges DEF EntryChange
  <1>5. QED
    BY <1>1, <1>2, <1>3, <1>4 DEF Backing

LEMMA CancelledGrows ==
  ASSUME StepKind
  PROVE  cancelled \subseteq cancelled'
  BY DEF StepKind, WorkerKind, ClientKind, Advance, Write, Finish, NewStage, WorkerQueues,
     LetGo, NewRun, FlagsRun, ClientQueuesJob, Retries, SweepRecords, SweepQueues,
     SweptBy, ReceivesFinished, Receives, Elsewhere, Goes

LEMMA FlagsKept ==
  ASSUME IInv, Flags, StepKind
  PROVE  Flags'
  <1>1. ASSUME NEW w \in Workers, wpc'[w] \in Stopping
        PROVE  RunOf(Job(w))' \in cancelled'
    <2>1. wpc[w] # "idle" /\ Job(w)' = Job(w)
      BY <1>1, HeldBefore DEF Stopping
    <2>2. CASE wpc[w] \in Stopping
      BY <2>1, <2>2, CancelledGrows DEF Flags, RunOf
    <2>3. CASE wpc[w] \notin Stopping
      <3>1. \E p \in WorkerSteps : Advance(w, p)
        BY <1>1, <2>1, <2>3, WorkerTurn DEF Same, Sweeps, Receives, WorkerKind, Write, Finish,
           NewStage, WorkerQueues, LetGo, Goes, Stopping
      <3>2. RunOf(Job(w)) \in cancelled
        BY <1>1, <3>1 DEF Advance, LegalMove, Goes, Stopping
      <3>3. QED
        BY <2>1, <3>2, CancelledGrows DEF RunOf
    <2>4. QED
      BY <2>2, <2>3
  <1>2. ASSUME NEW c \in Clients, cpc'[c] \in {"cancelJobs", "removePending"}
        PROVE  RunOf(cjob[c])' \in cancelled'
    <2>1. CASE cpc'[c] = cpc[c] /\ cjob'[c] = cjob[c]
      BY <1>2, <2>1, CancelledGrows DEF Flags, RunOf
    <2>2. ASSUME NEW d \in Clients, ClientKind(d)
          PROVE  RunOf(cjob[c])' \in cancelled'
      <3>1. CASE d # c
        BY <2>1, <2>2, <3>1
        DEF ClientKind, NewRun, FlagsRun, ClientQueuesJob, Retries, Turns
      <3>2. CASE d = c
        <4>1. PICK r \in Runs : FlagsRun(c, r)
          BY <1>2, <2>2, <3>2 DEF ClientKind, NewRun, ClientQueuesJob, Retries, Turns
        <4>2. RunOf(<<r, 1>>) = r
          BY FirstOfRun
        <4>3. QED
          BY <4>1, <4>2 DEF FlagsRun, RunOf
      <3>3. QED
        BY <3>1, <3>2
    <2>3. ASSUME NEW r, SweepRecords(r) \/ SweepQueues(r)
          PROVE  RunOf(cjob[c])' \in cancelled'
      BY <1>2, <2>1, <2>3, CancelledGrows
      DEF SweepRecords, SweepQueues, SweptBy, Goes, ClientsSame, Turns, Flags, RunOf
    <2>4. QED
      BY <1>2, <2>1, <2>2, <2>3 DEF StepKind, WorkerKind, Advance, Write, Finish, NewStage,
         WorkerQueues, LetGo, ReceivesFinished, Receives, Elsewhere, Goes, ClientsSame
  <1>3. QED
    BY <1>1, <1>2 DEF Flags

\* A worker enters Past when it has read that its run is not cancelled.
LEMMA PastBefore ==
  ASSUME StepKind, NEW w \in Workers, wpc'[w] \in Past \cup {"error"}
  PROVE  /\ Job(w)' = Job(w) /\ wentry'[w] = wentry[w] /\ wpc[w] # "idle"
         /\ \/ wpc[w] \in Past \cup {"error"}
            \/ /\ wpc[w] = "control" /\ wpc'[w] \in {"delay", "mark"}
               /\ Advance(w, wpc'[w]) /\ RunOf(Job(w)) \notin cancelled
  <1>1. Job(w)' = Job(w) /\ wentry'[w] = wentry[w] /\ wpc[w] # "idle"
    BY HeldBefore DEF Past, Writing, Creating
  <1>2. CASE wpc[w] \notin Past \cup {"error"}
    <2>1. \E p \in WorkerSteps : Advance(w, p)
      BY <1>1, <1>2, WorkerTurn DEF Same, Sweeps, Receives, WorkerKind, Write, Finish,
         NewStage, WorkerQueues, LetGo, Goes, Past, Writing, Creating
    <2>2. QED
      BY <1>1, <1>2, <2>1 DEF Advance, LegalMove, Goes, Past, Writing, Creating, InTry
  <1>3. QED
    BY <1>1, <1>2

\* The record a worker writes to is the one it holds, and it holds it in Past.
LEMMA RecordWriters ==
  ASSUME IInv, StepKind, NEW j \in Jobs, status'[j] # status[j] \/ attempts'[j] # attempts[j]
  PROVE  \/ \E w \in Workers, p \in WorkerSteps : Write(w, p) /\ Job(w) = j
         \/ \E w \in Workers, p \in WorkerSteps, s \in Finished :
              Finish(w, p, s) /\ Job(w) = j
         \/ /\ status[j] = "none" /\ status'[j] = "queued" /\ attempts' = attempts
            /\ \/ \E w \in Workers : NewStage(w) /\ NextJob(w) = j
               \/ \E c \in Clients, r \in Runs : NewRun(c, r) /\ j = <<r, 1>>
         \/ /\ status[j] \in {"failed", "dead_lettered", "cancelled"}
            /\ status'[j] = "queued" /\ attempts' = attempts
            /\ \E c \in Clients : Retries(c, j)
         \/ /\ status[j] \in Active /\ status'[j] = "cancelled" /\ attempts' = attempts
            /\ SweepRecords(RunOf(j))
  <1>0. /\ status \in [Jobs -> Statuses] /\ attempts \in [Jobs -> 0 .. MaxAttempts]
        /\ \A r \in Runs : FreshRun(r) => status[<<r, 1>>] = "none"
    BY DEF IInv, Records, FreshRun, Started
  <1>1. ASSUME NEW w \in Workers, NEW p \in WorkerSteps, Write(w, p)
        PROVE  Job(w) = j
    BY <1>0, <1>1 DEF Write
  <1>2. ASSUME NEW w \in Workers, NEW p \in WorkerSteps, NEW s \in Finished, Finish(w, p, s)
        PROVE  Job(w) = j
    BY <1>0, <1>2 DEF Finish, Close
  <1>3. ASSUME NEW w \in Workers, NewStage(w)
        PROVE  /\ NextJob(w) = j /\ status[j] = "none" /\ status'[j] = "queued"
               /\ attempts' = attempts
    BY <1>0, <1>3 DEF NewStage, Create
  <1>4. ASSUME NEW c \in Clients, NEW r \in Runs, NewRun(c, r)
        PROVE  /\ j = <<r, 1>> /\ status[j] = "none" /\ status'[j] = "queued"
               /\ attempts' = attempts
    BY <1>0, <1>4 DEF NewRun, Create
  <1>5. ASSUME NEW c \in Clients, NEW k \in Jobs, Retries(c, k)
        PROVE  /\ k = j /\ status[j] \in {"failed", "dead_lettered", "cancelled"}
               /\ status'[j] = "queued" /\ attempts' = attempts
    BY <1>0, <1>5 DEF Retries
  <1>6. ASSUME NEW r, SweepRecords(r)
        PROVE  /\ r = RunOf(j) /\ status[j] \in Active /\ status'[j] = "cancelled"
               /\ attempts' = attempts
    BY <1>0, <1>6 DEF SweepRecords, CancelStages, Unfinished
  <1>7. QED
    BY <1>1, <1>2, <1>3, <1>4, <1>5, <1>6 DEF StepKind, WorkerKind, ClientKind, Advance,
       WorkerQueues, LetGo, FlagsRun, ClientQueuesJob, SweepQueues, ReceivesFinished,
       Receives, Elsewhere, RecordsSame

LEMMA WritersPast ==
  /\ \A w, p : Write(w, p) => wpc[w] \in (Writing \cup {"error"}) \ {"complete"}
  /\ \A w, p, s : Finish(w, p, s) => wpc[w] \in Writing \cup {"error"}
  BY DEF Write, Finish, Writing

LEMMA LateKept ==
  ASSUME IInv, IInv', Backing, Late, LateJobsNeverRun, StepKind
  PROVE  Late' /\ LateJobsNeverRun'
  <1>0. /\ status \in [Jobs -> Statuses] /\ status' \in [Jobs -> Statuses]
        /\ attempts \in [Jobs -> 0 .. MaxAttempts] /\ lateJobs \subseteq Jobs
    BY DEF IInv, Records
  <1>h. \A w \in Workers : wpc[w] # "idle" => Job(w) \in Jobs /\ Exists(Job(w))
    BY HeldJob DEF Backing, Job, EntryOf
  <1>1. ASSUME NEW j \in lateJobs', j \notin lateJobs
        PROVE  /\ j \in Jobs /\ ~Exists(j) /\ RunOf(j) \in cancelled
               /\ status'[j] = "queued" /\ attempts'[j] = 0
    <2>1. ASSUME NEW k \in Jobs, NEW t, Create(k, t), ~Exists(k)
          PROVE  /\ j \in Jobs /\ ~Exists(j) /\ RunOf(j) \in cancelled
                 /\ status'[j] = "queued" /\ attempts'[j] = 0
      <3>1. j = k /\ RunOf(k) \in cancelled
        BY <1>1, <2>1 DEF Create
      <3>2. QED
        BY <1>0, <2>1, <3>1 DEF Create, Late
    <2>2. ASSUME NEW w \in Workers, NewStage(w)
          PROVE  NextJob(w) \in Jobs /\ ~Exists(NextJob(w))
      BY <2>2, NextJobParts DEF NewStage, Exists
    <2>3. ASSUME NEW c \in Clients, NEW r \in Runs, NewRun(c, r)
          PROVE  <<r, 1>> \in Jobs /\ ~Exists(<<r, 1>>)
      BY <2>3, FirstOfRun DEF NewRun, FreshRun, Started, Exists
    <2>4. \/ \E w \in Workers : NewStage(w)
          \/ \E c \in Clients, r \in Runs : NewRun(c, r)
      BY <1>1 DEF StepKind, WorkerKind, ClientKind, Advance, Write, Finish,
         WorkerQueues, LetGo, FlagsRun, ClientQueuesJob, Retries, SweepRecords,
         SweepQueues, CancelStages, Close, ReceivesFinished, Receives, Elsewhere,
         RecordsSame
    <2>5. QED
      BY <2>1, <2>2, <2>3, <2>4 DEF NewStage, NewRun
  <1>2. ASSUME NEW w \in Workers, wpc'[w] \in Past \cup {"error"}
        PROVE  Job(w)' \notin lateJobs'
    <2>1. /\ Job(w)' = Job(w) /\ wpc[w] # "idle"
          /\ wpc[w] \in Past \cup {"error"} \/ RunOf(Job(w)) \notin cancelled
      BY <1>2, PastBefore
    <2>2. Job(w) \notin lateJobs
      BY <2>1 DEF Late
    <2>3. QED
      BY <1>1, <1>h, <2>1, <2>2
  <1>3. ASSUME NEW j \in Jobs, ~Exists(j)'
        PROVE  attempts'[j] = 0
    <2>1. ~Exists(j)
      BY <1>3, ExistsStays
    <2>2. attempts'[j] = attempts[j]
      <3>1. SUFFICES ASSUME attempts'[j] # attempts[j] PROVE FALSE
        OBVIOUS
      <3>2. PICK w \in Workers : wpc[w] # "idle" /\ Job(w) = j
        BY <1>3, <3>1, RecordWriters, WritersPast DEF Writing, Exists
      <3>3. QED
        BY <1>h, <2>1, <3>2
    <2>3. QED
      BY <2>1, <2>2 DEF Late
  <1>4. ASSUME NEW j \in lateJobs'
        PROVE  /\ RunOf(j) \in cancelled'
               /\ attempts'[j] = 0 /\ status'[j] \notin {"running", "completed"}
    <2>1. CASE j \notin lateJobs
      BY <1>1, <2>1, CancelledGrows
    <2>2. CASE j \in lateJobs
      <3>1. attempts[j] = 0 /\ status[j] \notin {"running", "completed"} /\ j \in Jobs
        BY <1>0, <2>2 DEF LateJobsNeverRun
      <3>2. ~\E w \in Workers : wpc[w] \in Past \cup {"error"} /\ Job(w) = j
        BY <2>2 DEF Late
      <3>3. \/ status'[j] = status[j] /\ attempts'[j] = attempts[j]
            \/ status'[j] \in {"queued", "cancelled"} /\ attempts' = attempts
        BY <3>1, <3>2, RecordWriters, WritersPast DEF Past
      <3>4. RunOf(j) \in cancelled'
        BY <2>2, CancelledGrows DEF Late
      <3>5. QED
        BY <3>1, <3>3, <3>4
    <2>3. QED
      BY <2>1, <2>2
  <1>5. QED
    BY <1>2, <1>3, <1>4 DEF Late, LateJobsNeverRun

LEMMA InitStanding == Init => Standing
  <1>1. SUFFICES ASSUME Init PROVE Standing
    OBVIOUS
  <1>2. Backing
    BY <1>1 DEF Init, Backing, FreeEntry
  <1>3. Flags
    BY <1>1 DEF Init, Flags, Stopping
  <1>4. Late /\ LateJobsNeverRun
    BY <1>1 DEF Init, Late, LateJobsNeverRun, Past, Writing, Creating
  <1>5. QED
    BY <1>2, <1>3, <1>4 DEF Standing

LEMMA NextStanding ==
  ASSUME IInv, IInv', Standing, [Next]_vars
  PROVE  Standing'
  BY StepKinds, BackingKept, FlagsKept, LateKept DEF Standing

LEMMA AlwaysStanding == Spec => [](IInv /\ Standing)
  <1>1. IInv /\ IInv' /\ Standing /\ [Next]_vars => Standing'
    BY NextStanding
  <1>2. QED
    BY <1>1, InitStanding, AlwaysIInv, PTL DEF Spec

\* A stage created after its run was cancelled is never worked, whatever crashes,
\* fails or is retried: a worker reads the cancellation before it starts.
THEOREM LateNeverRun == Spec => []LateJobsNeverRun
  <1>1. Standing => LateJobsNeverRun
    BY DEF Standing
  <1>2. QED
    BY <1>1, AlwaysStanding, PTL
=============================================================================
