-------------------------- MODULE ImportRunsProofs --------------------------
(***************************************************************************)
(* Proofs about ImportRuns, for every number of runs, stages, workers,      *)
(* admins, websites, attempts and BullMQ jobs: type correctness, and the    *)
(* two facts about the (stage, URL) slot.  IInv is the inductive invariant: *)
(* TypeOK is not inductive, since a worker that hands a job back for        *)
(* another attempt must hold a job that still has one, which in turn needs  *)
(* that no two workers hold the same BullMQ job and nobody removes it.      *)
(***************************************************************************)
EXTENDS ImportRuns, TLAPS

\* The records: a slot, and a record, belong to a run that has been started.
Records ==
    /\ status \in [Jobs -> Statuses]
    /\ slot \in [Jobs -> BOOLEAN]
    /\ attempts \in [Jobs -> 0 .. MaxAttempts]
    /\ target \in [Runs -> Targets \cup {NoTarget}]
    /\ lateJobs \in SUBSET Jobs
    /\ \A j \in Jobs : slot[j] \/ status[j] # "none" => Started(RunOf(j))

\* The queues: a BullMQ job has an attempt left and points at a started run.
Queues ==
    /\ entry \in [Entries -> BullJob]
    /\ paused \in BOOLEAN
    /\ deadLetter \in SUBSET Jobs
    /\ \A b \in Entries :
        /\ entry[b].made < MaxAttempts
        /\ entry[b].state # "free" =>
            entry[b].job \in Jobs /\ Started(RunOf(entry[b].job))

\* The workers: each holds an active BullMQ job of its own.
Holders ==
    /\ wpc \in [Workers -> WorkerSteps]
    /\ wentry \in [Workers -> Entries \cup {NoEntry}]
    /\ wnext \in [Workers -> Stages]
    /\ aborted \in [Workers -> BOOLEAN]
    /\ \A w \in Workers :
        wpc[w] # "idle" =>
            /\ wentry[w] \in Entries
            /\ entry[wentry[w]].state = "active"
            /\ \A v \in Workers : wpc[v] # "idle" /\ wentry[v] = wentry[w] => v = w
            /\ wpc[w] = "throw" => entry[wentry[w]].made + 1 < MaxAttempts

\* The clients: the job one enqueues, or cancels the run of, exists.
Requests ==
    /\ cpc \in [Clients -> ClientSteps]
    /\ cjob \in [Clients -> Jobs \cup {NoJob}]
    /\ ctarget \in [Clients -> Targets \cup {NoTarget}]
    /\ \A c \in Clients :
        cpc[c] = "enqueue" => cjob[c] \in Jobs /\ Started(RunOf(cjob[c]))

Others ==
    /\ nextCheck \in [Sites -> {"none", "due", "provisional", "set"}]
    /\ halted \in BOOLEAN
    /\ cancelled \in SUBSET Runs
    /\ spent \in [Events -> Nat]

IInv == Records /\ Queues /\ Holders /\ Requests /\ Others

LEMMA IInvImpliesTypeOK == IInv => TypeOK
  BY DEF IInv, Records, Queues, Holders, Requests, Others, TypeOK

\* A run once started stays started.
Grows == \A r \in Runs : Started(r) => Started(r)'

-----------------------------------------------------------------------------
(* What the operations on records do to Records.                            *)

LEMMA JobParts ==
  ASSUME NEW j \in Jobs
  PROVE  RunOf(j) \in Runs /\ StageOf(j) \in Stages /\ j = <<RunOf(j), StageOf(j)>>
  BY DEF Jobs, RunOf, StageOf

LEMMA FirstStage == \A r \in Runs : <<r, 1>> \in Jobs
  BY RunConstants DEF Jobs, Stages

LEMMA RecordsKept ==
  ASSUME Records, UNCHANGED <<jobVars, lateJobs>>
  PROVE  Records' /\ Grows
  BY DEF Records, Grows, Started, jobVars

LEMMA RecordsSet ==
  ASSUME Records, NEW j \in Jobs, NEW s \in Active \cup Finished, SetStatus(j, s),
         Started(RunOf(j))
  PROVE  Records' /\ Grows
  <1>1. Grows
    BY FirstStage DEF Records, Grows, Started, SetStatus, Active, Finished
  <1>2. QED
    BY <1>1, JobParts DEF Records, Grows, SetStatus, Statuses

LEMMA RecordsClosed ==
  ASSUME Records, NEW j \in Jobs, NEW s \in Active \cup Finished, Close(j, s),
         Started(RunOf(j))
  PROVE  Records' /\ Grows
  <1>1. Grows
    BY FirstStage DEF Records, Grows, Started, Close, Active, Finished
  <1>2. QED
    BY <1>1, JobParts DEF Records, Grows, Close, Statuses

LEMMA RecordsCancelled ==
  ASSUME Records, NEW r, CancelStages(r)
  PROVE  Records' /\ Grows
  <1>1. Grows
    BY FirstStage DEF Records, Grows, Started, CancelStages
  <1>2. status' \in [Jobs -> Statuses] /\ slot' \in [Jobs -> BOOLEAN]
    BY DEF Records, CancelStages, Statuses, Finished
  <1>3. \A j \in Jobs : slot'[j] \/ status'[j] # "none" => slot[j] \/ status[j] # "none"
    BY DEF Records, CancelStages, Unfinished, Active
  <1>4. QED
    BY <1>1, <1>2, <1>3, JobParts DEF Records, Grows, CancelStages

LEMMA RecordsCreated ==
  ASSUME Records, NEW j \in Jobs, NEW t \in Targets \cup {NoTarget}, Create(j, t),
         StageOf(j) = 1 \/ Started(RunOf(j))
  PROVE  Records' /\ Grows /\ Started(RunOf(j))'
  <1>1. Grows
    BY FirstStage DEF Records, Grows, Started, Create, Active
  <1>2. Started(RunOf(j))'
    BY <1>1, JobParts DEF Grows, Started, Create, Records
  <1>3. QED
    BY <1>1, <1>2, JobParts DEF Records, Grows, Create, Statuses, Active

-----------------------------------------------------------------------------
(* What the operations on BullMQ and on a worker slot do to the rest.       *)

LEMMA OldEntries ==
  ASSUME Queues, Grows, NEW b \in Entries, entry'[b] = entry[b]
  PROVE  /\ entry'[b].made < MaxAttempts
         /\ entry'[b].state # "free" =>
              entry'[b].job \in Jobs /\ Started(RunOf(entry[b].job))'
  <1>1. /\ entry[b].made < MaxAttempts
        /\ entry[b].state # "free" =>
             /\ entry[b].job \in Jobs
             /\ RunOf(entry[b].job) \in Runs
             /\ Started(RunOf(entry[b].job))
    BY JobParts DEF Queues
  <1>2. QED
    BY <1>1 DEF Grows, Started

LEMMA QueuesKept ==
  ASSUME Queues, Grows, UNCHANGED queueVars
  PROVE  Queues'
  <1>1. \A b \in Entries : entry'[b] = entry[b]
    BY DEF queueVars
  <1>2. ASSUME NEW b \in Entries
        PROVE  /\ entry'[b].made < MaxAttempts
               /\ entry'[b].state # "free" =>
                    entry'[b].job \in Jobs /\ Started(RunOf(entry[b].job))'
    BY <1>1, OldEntries
  <1>3. QED
    BY <1>2 DEF Queues, queueVars

LEMMA RequestsKept ==
  ASSUME Requests, Grows, UNCHANGED clientVars
  PROVE  Requests'
  <1>1. ASSUME NEW c \in Clients, cpc[c] = "enqueue"
        PROVE  Started(RunOf(cjob[c]))'
    BY <1>1, JobParts DEF Requests, Grows, clientVars, Started
  <1>2. QED
    BY <1>1 DEF Requests, clientVars

LEMMA HoldersKept ==
  ASSUME Holders, UNCHANGED <<workerVars, entry>>
  PROVE  Holders'
  BY DEF Holders, workerVars

\* A worker moves on with its job, while nobody touches the jobs held.
HeldKept == \A b \in Entries : entry[b].state = "active" => entry'[b] = entry[b]

LEMMA GotoHolds ==
  ASSUME Holders, NEW w \in Workers, wpc[w] # "idle",
         NEW pc \in WorkerSteps \ {"idle"},
         pc = "throw" => entry[wentry[w]].made + 1 < MaxAttempts,
         Goto(w, pc), HeldKept
  PROVE  Holders'
  <1>1. aborted' \in [Workers -> BOOLEAN] /\ wpc' \in [Workers -> WorkerSteps]
    BY DEF Holders, Goto
  <1>2. wentry' = wentry /\ wnext' = wnext
    BY DEF Goto
  <1>3. ASSUME NEW v \in Workers, wpc'[v] # "idle"
        PROVE  /\ wpc[v] # "idle" /\ wentry[v] \in Entries
               /\ entry[wentry[v]].state = "active"
               /\ entry'[wentry[v]] = entry[wentry[v]]
               /\ wpc'[v] = "throw" => entry[wentry[v]].made + 1 < MaxAttempts
    BY <1>3 DEF Holders, Goto, HeldKept
  <1>4. \A u, v \in Workers :
          wpc'[u] # "idle" /\ wpc'[v] # "idle" /\ wentry[u] = wentry[v] => u = v
    BY <1>3 DEF Holders
  <1>5. QED
    BY <1>1, <1>2, <1>3, <1>4 DEF Holders

\* A worker lets go of its job, leaving it waiting or done with.
LEMMA ReleaseHolds ==
  ASSUME Queues, Holders, NEW w \in Workers, wpc[w] # "idle",
         NEW e \in BullJob, e.made < MaxAttempts,
         e.state # "free" => e.job = Job(w),
         Release(w, e), Grows
  PROVE  Queues' /\ Holders'
  <1> DEFINE b == wentry[w]
  <1>1. /\ b \in Entries /\ entry[b].job \in Jobs
        /\ Started(RunOf(entry[b].job))
    BY DEF Queues, Holders
  <1>2. entry' = [entry EXCEPT ![b] = e] /\ entry' \in [Entries -> BullJob]
    BY <1>1 DEF Queues, Release
  <1>3. \A a \in Entries : entry'[a] = IF a = b THEN e ELSE entry[a]
    BY <1>1, <1>2 DEF Queues
  <1>4. Queues'
    <2>1. ASSUME NEW a \in Entries
          PROVE  /\ entry'[a].made < MaxAttempts
                 /\ entry'[a].state # "free" =>
                      entry'[a].job \in Jobs /\ Started(RunOf(entry[a].job))'
      <3>1. CASE a = b
        <4>1. entry'[a] = e /\ RunOf(entry[b].job) \in Runs
          BY <3>1, <1>1, <1>3, JobParts
        <4>2. Started(RunOf(entry[b].job)) => status'[<<RunOf(entry[b].job), 1>>] # "none"
          BY <4>1 DEF Grows, Started
        <4>3. QED
          BY <4>1, <4>2, <1>1 DEF Job, Started
      <3>2. CASE a # b
        BY <3>2, <1>3, OldEntries
      <3>3. QED
        BY <3>1, <3>2
    <2>2. QED
      BY <2>1, <1>2 DEF Queues, Release
  <1>5. Holders'
    <2>1. /\ wpc' = [wpc EXCEPT ![w] = "idle"] /\ wpc' \in [Workers -> WorkerSteps]
          /\ wentry' = [wentry EXCEPT ![w] = NoEntry]
          /\ wentry' \in [Workers -> Entries \cup {NoEntry}]
      BY DEF Holders, Release, WorkerSteps
    <2>2. wnext' \in [Workers -> Stages] /\ aborted' \in [Workers -> BOOLEAN]
      BY RunConstants DEF Holders, Release, Stages
    <2>3. ASSUME NEW v \in Workers, wpc'[v] # "idle"
          PROVE  /\ v # w /\ wpc[v] # "idle" /\ wpc'[v] = wpc[v]
                 /\ wentry'[v] = wentry[v] /\ wentry[v] \in Entries /\ wentry[v] # b
                 /\ entry'[wentry'[v]] = entry[wentry[v]]
      BY <2>1, <2>3, <1>3 DEF Holders
    <2>4. ASSUME NEW v \in Workers, wpc'[v] # "idle"
          PROVE  /\ wentry'[v] \in Entries
                 /\ entry'[wentry'[v]].state = "active"
                 /\ wpc'[v] = "throw" => entry'[wentry'[v]].made + 1 < MaxAttempts
      BY <2>3, <2>4 DEF Holders
    <2>5. ASSUME NEW u \in Workers, NEW v \in Workers,
                 wpc'[u] # "idle", wpc'[v] # "idle", wentry'[u] = wentry'[v]
          PROVE  u = v
      BY <2>3, <2>5 DEF Holders
    <2>6. QED
      BY <2>1, <2>2, <2>4, <2>5 DEF Holders
  <1>6. QED
    BY <1>4, <1>5

\* Somebody queues a job of a started run.
LEMMA AddHolds ==
  ASSUME Queues, NEW j \in Jobs, Started(RunOf(j)), AddEntry(j), Grows
  PROVE  /\ Queues'
         /\ HeldKept
  <1>1. PICK b \in Entries :
          /\ entry[b].state = "free"
          /\ entry' = [entry EXCEPT ![b] = [FreeEntry EXCEPT !.job = j, !.state = "waiting"]]
          /\ UNCHANGED <<paused, deadLetter>>
    BY DEF AddEntry
  <1> DEFINE e == [FreeEntry EXCEPT !.job = j, !.state = "waiting"]
  <1>2. e \in BullJob /\ e.made < MaxAttempts /\ e.job = j
    <2>1. FreeEntry \in BullJob /\ FreeEntry.made = 0
      BY RunConstants DEF FreeEntry, BullJob
    <2>2. e \in BullJob /\ e.made = 0 /\ e.job = j
      BY <2>1 DEF BullJob
    <2>3. QED
      BY <2>2, RunConstants
  <1>3. /\ entry' \in [Entries -> BullJob]
        /\ \A a \in Entries : entry'[a] = IF a = b THEN e ELSE entry[a]
    BY <1>1, <1>2 DEF Queues
  <1>4. ASSUME NEW a \in Entries
        PROVE  /\ entry'[a].made < MaxAttempts
               /\ entry'[a].state # "free" =>
                    entry'[a].job \in Jobs /\ Started(RunOf(entry[a].job))'
    <2>1. CASE a = b
      <3>1. entry'[a] = e /\ RunOf(j) \in Runs
        BY <2>1, <1>3, JobParts
      <3>2. status'[<<RunOf(j), 1>>] # "none"
        BY <3>1 DEF Grows, Started
      <3>3. QED
        BY <3>1, <3>2, <1>2 DEF Started
    <2>2. CASE a # b
      BY <2>2, <1>3, OldEntries
    <2>3. QED
      BY <2>1, <2>2
  <1>5. QED
    BY <1>1, <1>3, <1>4 DEF Queues, HeldKept

\* Waiting jobs of a run are removed.
LEMMA DropHolds ==
  ASSUME Queues, NEW r, DropPending(r), Grows
  PROVE  /\ Queues'
         /\ HeldKept
  <1>1. \A b \in Entries : entry'[b] = entry[b] \/ entry'[b] = FreeEntry
    BY DEF DropPending
  <1>2. FreeEntry \in BullJob /\ FreeEntry.made < MaxAttempts /\ FreeEntry.state = "free"
    BY RunConstants DEF FreeEntry, BullJob
  <1>3. entry' \in [Entries -> BullJob]
    BY <1>1, <1>2 DEF DropPending, Queues
  <1>4. ASSUME NEW a \in Entries
        PROVE  /\ entry'[a].made < MaxAttempts
               /\ entry'[a].state # "free" =>
                    entry'[a].job \in Jobs /\ Started(RunOf(entry[a].job))'
    <2>1. CASE entry'[a] = entry[a]
      BY <2>1, OldEntries
    <2>2. CASE entry'[a] = FreeEntry
      BY <2>2, <1>2
    <2>3. QED
      BY <2>1, <2>2, <1>1
  <1>5. \A b \in Entries : entry[b].state = "active" => entry'[b] = entry[b]
    BY DEF DropPending
  <1>6. QED
    BY <1>3, <1>4, <1>5 DEF Queues, DropPending, HeldKept

\* Jobs the workers hold are left alone by both.
LEMMA HoldersKeepActive ==
  ASSUME Holders, UNCHANGED workerVars, HeldKept
  PROVE  Holders'
  BY DEF Holders, workerVars, HeldKept

LEMMA OthersKept ==
  ASSUME Others, UNCHANGED <<nextCheck, controlVars, spent>>
  PROVE  Others'
  BY DEF Others, controlVars

LEMMA Spent ==
  ASSUME Others, NEW e \in Events, Spend(e)
  PROVE  spent' \in [Events -> Nat]
  BY DEF Others, Spend

-----------------------------------------------------------------------------
(* Steps of a worker.                                                       *)

LEMMA HeldJob ==
  ASSUME IInv, NEW w \in Workers, wpc[w] # "idle"
  PROVE  /\ Job(w) \in Jobs /\ Started(RunOf(Job(w)))
         /\ RunOf(Job(w)) \in Runs
         /\ wentry[w] \in Entries /\ entry[wentry[w]] \in BullJob
         /\ entry[wentry[w]].state = "active"
         /\ entry[wentry[w]].made < MaxAttempts
         /\ entry[wentry[w]].made \in Nat /\ MaxAttempts \in Nat
  BY JobParts, RunConstants DEF IInv, Queues, Holders, Job, BullJob

LEMMA NextJobParts ==
  ASSUME IInv, NEW w \in Workers, wpc[w] # "idle"
  PROVE  /\ NextJob(w) \in Jobs /\ RunOf(NextJob(w)) = RunOf(Job(w))
         /\ Started(RunOf(NextJob(w)))
         /\ TargetOf(Job(w)) \in Targets \cup {NoTarget}
  BY HeldJob DEF IInv, Holders, Records, NextJob, TargetOf, RunOf, Jobs

LEMMA GotoStep ==
  ASSUME IInv, NEW w \in Workers, wpc[w] # "idle",
         NEW pc \in WorkerSteps \ {"idle"},
         pc = "throw" => entry[wentry[w]].made + 1 < MaxAttempts,
         Goto(w, pc), UNCHANGED <<queueVars, clientVars>>,
         Records', Grows, Others'
  PROVE  IInv'
  <1>1. HeldKept
    BY DEF HeldKept, queueVars
  <1>2. QED
    BY <1>1, GotoHolds, QueuesKept, RequestsKept DEF IInv

LEMMA ReleaseStep ==
  ASSUME IInv, NEW w \in Workers, wpc[w] # "idle",
         NEW e \in BullJob, e.made < MaxAttempts,
         e.state # "free" => e.job = Job(w),
         Release(w, e), UNCHANGED <<jobVars, lateJobs, clientVars>>, Others'
  PROVE  IInv'
  <1>1. Records' /\ Grows
    BY RecordsKept DEF IInv
  <1>2. Queues' /\ Holders'
    BY <1>1, ReleaseHolds DEF IInv
  <1>3. QED
    BY <1>1, <1>2, RequestsKept DEF IInv

\* BullMQ may also be done with the job a slot held.
LEMMA FreeIsFree ==
  FreeEntry \in BullJob /\ FreeEntry.made < MaxAttempts /\ FreeEntry.state = "free"
  BY RunConstants DEF FreeEntry, BullJob

LEMMA FreeStep ==
  ASSUME IInv, NEW w \in Workers, wpc[w] # "idle", Release(w, FreeEntry),
         UNCHANGED <<jobVars, lateJobs, clientVars>>, Others'
  PROVE  IInv'
  BY FreeIsFree, ReleaseStep

\* Or have it wait again, having counted some attempts and stalls.
LEMMA WaitStep ==
  ASSUME IInv, NEW w \in Workers, wpc[w] # "idle",
         NEW e \in BullJob, e.made < MaxAttempts, e.job = Job(w),
         Release(w, e), UNCHANGED <<jobVars, lateJobs, clientVars>>, Others'
  PROVE  IInv'
  BY ReleaseStep

LEMMA DeliverStep ==
  ASSUME IInv, NEW b \in Entries, Take(b)
  PROVE  IInv'
  <1>1. CASE DeliverFinished(b)
    <2>1. Records' /\ Grows /\ Requests' /\ Others'
      BY <1>1, RecordsKept, RequestsKept, OthersKept DEF IInv, DeliverFinished, workerRest
    <2>2. \A a \in Entries : entry'[a] = entry[a] \/ entry'[a] = FreeEntry
      BY <1>1 DEF DeliverFinished, IInv, Queues
    <2>3. entry' \in [Entries -> BullJob]
      BY <1>1, FreeIsFree DEF DeliverFinished, IInv, Queues
    <2>4. ASSUME NEW a \in Entries
          PROVE  /\ entry'[a].made < MaxAttempts
                 /\ entry'[a].state # "free" =>
                      entry'[a].job \in Jobs /\ Started(RunOf(entry[a].job))'
      <3>1. CASE entry'[a] = entry[a]
        BY <3>1, <2>1, OldEntries DEF IInv
      <3>2. CASE entry'[a] = FreeEntry
        BY <3>2, FreeIsFree
      <3>3. QED
        BY <3>1, <3>2, <2>2
    <2>5. Queues'
      BY <1>1, <2>3, <2>4 DEF DeliverFinished, IInv, Queues
    <2>6. Holders'
      <3>1. HeldKept
        BY <1>1 DEF DeliverFinished, HeldKept, IInv, Queues
      <3>2. QED
        BY <3>1, <1>1, HoldersKeepActive DEF IInv, DeliverFinished
    <2>7. QED
      BY <2>1, <2>5, <2>6 DEF IInv
  <1>2. ASSUME NEW w \in Workers, Deliver(w, b)
        PROVE  IInv'
    <2>1. Records' /\ Grows /\ Requests' /\ Others'
      BY <1>2, RecordsKept, RequestsKept, OthersKept DEF IInv, Deliver, workerRest
    <2> DEFINE e == [entry[b] EXCEPT !.state = "active"]
    <2>2. /\ e \in BullJob /\ e.made = entry[b].made /\ e.job = entry[b].job
          /\ e.state = "active"
      BY DEF IInv, Queues, BullJob
    <2>3. /\ entry' \in [Entries -> BullJob]
          /\ \A a \in Entries : entry'[a] = IF a = b THEN e ELSE entry[a]
      BY <1>2, <2>2 DEF Deliver, IInv, Queues
    <2>4. ASSUME NEW a \in Entries
          PROVE  /\ entry'[a].made < MaxAttempts
                 /\ entry'[a].state # "free" =>
                      entry'[a].job \in Jobs /\ Started(RunOf(entry[a].job))'
      <3>1. CASE a = b
        <4>1. entry'[a] = e /\ entry[b].state # "free"
          BY <3>1, <2>3, <1>2 DEF Deliver
        <4>2. /\ entry[b].job \in Jobs /\ RunOf(entry[b].job) \in Runs
              /\ Started(RunOf(entry[b].job)) /\ entry[b].made < MaxAttempts
          BY <4>1, JobParts DEF IInv, Queues
        <4>3. QED
          BY <4>1, <4>2, <2>1, <2>2 DEF Grows, Started
      <3>2. CASE a # b
        BY <3>2, <2>1, <2>3, OldEntries DEF IInv
      <3>3. QED
        BY <3>1, <3>2
    <2>5. Queues'
      BY <1>2, <2>3, <2>4 DEF Deliver, IInv, Queues
    <2>6. Holders'
      <3>1. /\ wpc' \in [Workers -> WorkerSteps]
            /\ wentry' \in [Workers -> Entries \cup {NoEntry}]
            /\ wnext' = wnext /\ aborted' = aborted
        BY <1>2 DEF Deliver, IInv, Holders, WorkerSteps
      <3>2. /\ wpc'[w] = "control" /\ wentry'[w] = b
            /\ \A v \in Workers : v # w => wpc'[v] = wpc[v] /\ wentry'[v] = wentry[v]
        BY <1>2 DEF Deliver, IInv, Holders
      <3>3. ASSUME NEW v \in Workers, v # w, wpc'[v] # "idle"
            PROVE  /\ wentry[v] \in Entries /\ entry[wentry[v]].state = "active"
                   /\ wentry[v] # b /\ entry'[wentry[v]] = entry[wentry[v]]
                   /\ wpc'[v] = "throw" => entry[wentry[v]].made + 1 < MaxAttempts
        BY <3>2, <3>3, <2>3, <1>2 DEF Deliver, IInv, Holders
      <3>4. ASSUME NEW v \in Workers, wpc'[v] # "idle"
            PROVE  /\ wentry'[v] \in Entries
                   /\ entry'[wentry'[v]].state = "active"
                   /\ wpc'[v] = "throw" => entry'[wentry'[v]].made + 1 < MaxAttempts
        <4>1. CASE v = w
          BY <4>1, <3>2, <2>2, <2>3
        <4>2. CASE v # w
          BY <4>2, <3>2, <3>3, <3>4
        <4>3. QED
          BY <4>1, <4>2
      <3>5. ASSUME NEW u \in Workers, NEW v \in Workers,
                   wpc'[u] # "idle", wpc'[v] # "idle", wentry'[u] = wentry'[v]
            PROVE  u = v
        BY <3>2, <3>3, <3>5 DEF IInv, Holders
      <3>6. QED
        BY <3>1, <3>4, <3>5 DEF IInv, Holders
    <2>7. QED
      BY <2>1, <2>5, <2>6 DEF IInv
  <1>3. QED
    BY <1>1, <1>2 DEF Take

\* One step per action of a worker slot.
LEMMA WorkStep ==
  ASSUME IInv, NEW w \in Workers, Work(w)
  PROVE  IInv'
  <1>1. CASE ReadControl(w)
    <2>1. Records' /\ Grows /\ Others'
      BY <1>1, RecordsKept, OthersKept DEF IInv, ReadControl, workerRest
    <2>2. QED
      BY <1>1, <2>1, GotoStep DEF ReadControl, WorkerSteps, workerRest
  <1>2. CASE CancelSeen(w)
    <2>1. Records' /\ Grows /\ Others'
      BY <1>2, RecordsCancelled, OthersKept DEF IInv, CancelSeen, workerRest
    <2>2. QED
      BY <1>2, <2>1, GotoStep DEF CancelSeen, WorkerSteps, workerRest
  <1>3. CASE Delay(w)
    <2>1. Records' /\ Grows /\ Others'
      BY <1>3, RecordsSet, HeldJob, OthersKept DEF IInv, Delay, workerRest, Active
    <2>2. QED
      BY <1>3, <2>1, GotoStep DEF Delay, WorkerSteps, workerRest
  <1>4. CASE MoveDelayed(w)
    <2> DEFINE e == [entry[wentry[w]] EXCEPT !.state = "waiting"]
    <2>1. e \in BullJob /\ e.made < MaxAttempts /\ e.job = Job(w)
      BY <1>4, HeldJob DEF MoveDelayed, BullJob, Job
    <2>2. Others'
      BY <1>4, OthersKept DEF IInv, MoveDelayed, workerRest
    <2>3. QED
      BY <1>4, <2>1, <2>2, WaitStep DEF MoveDelayed, workerRest
  <1>5. CASE MarkRunning(w)
    <2>1. Grows
      BY <1>5, HeldJob, FirstStage DEF IInv, Records, Grows, Started, MarkRunning
    <2>2. Records'
      BY <1>5, <2>1, HeldJob, JobParts
      DEF IInv, Records, Grows, MarkRunning, Statuses, Active
    <2>3. Others'
      BY <1>5, OthersKept DEF IInv, MarkRunning, workerRest
    <2>4. QED
      BY <1>5, <2>1, <2>2, <2>3, GotoStep DEF MarkRunning, WorkerSteps, workerRest
  <1>6. ASSUME NEW k \in Stages, StageProceeds(w, k)
        PROVE  IInv'
    <2>1. Records' /\ Grows /\ Others'
      BY <1>6, RecordsClosed, HeldJob, OthersKept
      DEF IInv, StageProceeds, workerRest, Finished
    <2>2. Holders'
      BY <1>6 DEF IInv, StageProceeds, Holders, WorkerSteps, queueVars
    <2>3. QED
      BY <1>6, <2>1, <2>2, QueuesKept, RequestsKept DEF IInv, StageProceeds, workerRest
  <1>7. ASSUME NEW next \in {"none", "set"}, ScheduleNext(w, next)
        PROVE  IInv'
    <2>1. Records' /\ Grows
      BY <1>7, RecordsKept DEF IInv, ScheduleNext
    <2>2. Others'
      BY <1>7 DEF IInv, Others, ScheduleNext, controlVars
    <2>3. QED
      BY <1>7, <2>1, <2>2, GotoStep DEF ScheduleNext, WorkerSteps
  <1>8. CASE SingleJobEnds(w)
    <2>1. Records' /\ Grows /\ Others'
      BY <1>8, RecordsKept, OthersKept DEF IInv, SingleJobEnds, workerRest
    <2>2. QED
      BY <1>8, <2>1, GotoStep DEF SingleJobEnds, WorkerSteps, workerRest
  <1>9. CASE CompleteLast(w)
    <2>1. Records' /\ Grows /\ Others'
      BY <1>9, RecordsClosed, HeldJob, OthersKept
      DEF IInv, CompleteLast, workerRest, Finished
    <2>2. QED
      BY <1>9, <2>1, GotoStep DEF CompleteLast, WorkerSteps, workerRest
  <1>10. CASE CheckCancelled(w)
    <2>1. Records' /\ Grows /\ Others'
      BY <1>10, RecordsKept, OthersKept DEF IInv, CheckCancelled, workerRest
    <2>2. QED
      BY <1>10, <2>1, GotoStep DEF CheckCancelled, WorkerSteps, workerRest
  <1>11. CASE CreateStage(w)
    <2>1. Records' /\ Grows /\ Others'
      BY <1>11, NextJobParts, RecordsCreated, OthersKept
      DEF IInv, CreateStage, workerRest
    <2>2. QED
      BY <1>11, <2>1, GotoStep DEF CreateStage, WorkerSteps, workerRest
  <1>12. CASE StageSlotTaken(w)
    <2>1. Records' /\ Grows /\ Others'
      BY <1>12, RecordsKept, OthersKept DEF IInv, StageSlotTaken, workerRest
    <2>2. QED
      BY <1>12, <2>1, GotoStep DEF StageSlotTaken, WorkerSteps, workerRest
  <1>13. CASE EnqueueNext(w)
    <2>1. Records' /\ Grows /\ Others'
      BY <1>13, RecordsKept, OthersKept DEF IInv, EnqueueNext, workerRest
    <2>2. Queues' /\ HeldKept
      BY <1>13, <2>1, NextJobParts, AddHolds DEF IInv, EnqueueNext
    <2>3. Holders'
      BY <1>13, <2>2, GotoHolds DEF IInv, EnqueueNext, WorkerSteps
    <2>4. QED
      BY <1>13, <2>1, <2>2, <2>3, RequestsKept DEF IInv, EnqueueNext, workerRest
  <1>14. CASE Return(w)
    <2>1. Others'
      BY <1>14, OthersKept DEF IInv, Return, workerRest
    <2>2. QED
      BY <1>14, <2>1, FreeStep DEF Return, workerRest
  <1>15. CASE StageDelays(w)
    <2>1. Records' /\ Grows
      BY <1>15, RecordsKept DEF IInv, StageDelays
    <2>2. Others'
      BY <1>15, Spent DEF IInv, Others, StageDelays, controlVars, Events
    <2>3. QED
      BY <1>15, <2>1, <2>2, GotoStep DEF StageDelays, WorkerSteps
  <1>16. CASE StageStops(w)
    <2>1. Records' /\ Grows /\ Others'
      BY <1>16, RecordsKept, OthersKept DEF IInv, StageStops, workerRest
    <2>2. QED
      BY <1>16, <2>1, GotoStep DEF StageStops, WorkerSteps, workerRest
  <1>17. CASE ReadStop(w)
    <2>1. Records' /\ Grows /\ Others'
      BY <1>17, RecordsKept, OthersKept DEF IInv, ReadStop, workerRest
    <2>2. QED
      BY <1>17, <2>1, GotoStep DEF ReadStop, WorkerSteps, workerRest
  <1>18. CASE StopCancel(w)
    <2>1. Records' /\ Grows /\ Others'
      BY <1>18, RecordsCancelled, OthersKept DEF IInv, StopCancel, workerRest
    <2>2. QED
      BY <1>18, <2>1, GotoStep DEF StopCancel, WorkerSteps, workerRest
  <1>19. CASE StopRemove(w)
    <2>1. Records' /\ Grows /\ Others'
      BY <1>19, RecordsKept, OthersKept DEF IInv, StopRemove, workerRest
    <2>2. Queues' /\ HeldKept
      BY <1>19, <2>1, DropHolds DEF IInv, StopRemove
    <2>3. Holders'
      BY <1>19, <2>2, GotoHolds DEF IInv, StopRemove, WorkerSteps
    <2>4. QED
      BY <1>19, <2>1, <2>2, <2>3, RequestsKept DEF IInv, StopRemove, workerRest
  <1>20. CASE FailRetry(w)
    <2>1. wpc[w] # "idle" /\ spent' \in [Events -> Nat]
      BY <1>20, Spent DEF IInv, Others, FailRetry, Fails, Events
    <2>2. Records' /\ Grows
      BY <1>20, <2>1, RecordsSet, HeldJob DEF IInv, FailRetry, Active
    <2>3. Others'
      BY <1>20, <2>1 DEF IInv, Others, FailRetry, controlVars
    <2>4. entry[wentry[w]].made + 1 < MaxAttempts
      BY <1>20, <2>1, HeldJob DEF FailRetry, LastAttempt
    <2>5. QED
      BY <1>20, <2>1, <2>2, <2>3, <2>4, GotoStep DEF FailRetry, WorkerSteps
  <1>21. CASE Rethrow(w)
    <2> DEFINE e == [entry[wentry[w]] EXCEPT !.state = "waiting", !.made = @ + 1]
    <2>1. wpc[w] # "idle" /\ entry[wentry[w]].made + 1 < MaxAttempts
      BY <1>21 DEF Rethrow, IInv, Holders
    <2>2. e \in BullJob /\ e.made < MaxAttempts /\ e.job = Job(w)
      <3>1. entry[wentry[w]].made + 1 \in 0 .. MaxAttempts
        BY <2>1, HeldJob
      <3>2. /\ e \in BullJob /\ e.made = entry[wentry[w]].made + 1
            /\ e.job = entry[wentry[w]].job
        BY <2>1, <3>1, HeldJob DEF BullJob
      <3>3. QED
        BY <2>1, <3>2 DEF Job
    <2>3. Others'
      BY <1>21, OthersKept DEF IInv, Rethrow, workerRest
    <2>4. QED
      BY <1>21, <2>1, <2>2, <2>3, WaitStep DEF Rethrow, workerRest
  <1>22. CASE FailForGood(w)
    <2>1. wpc[w] # "idle" /\ spent' \in [Events -> Nat]
      BY <1>22, Spent DEF IInv, Others, FailForGood, Fails, Events
    <2>2. Records' /\ Grows
      BY <1>22, <2>1, RecordsClosed, HeldJob DEF IInv, FailForGood, Finished
    <2>3. Others'
      BY <1>22, <2>1 DEF IInv, Others, FailForGood, controlVars
    <2>4. QED
      BY <1>22, <2>1, <2>2, <2>3, GotoStep DEF FailForGood, WorkerSteps
  <1>23. CASE FailOutOfAttempts(w)
    <2>1. wpc[w] # "idle" /\ spent' \in [Events -> Nat]
      BY <1>23, Spent DEF IInv, Others, FailOutOfAttempts, Fails, Events
    <2>2. Records' /\ Grows
      BY <1>23, <2>1, RecordsClosed, HeldJob DEF IInv, FailOutOfAttempts, Finished
    <2>3. Others'
      BY <1>23, <2>1 DEF IInv, Others, FailOutOfAttempts, controlVars
    <2>4. QED
      BY <1>23, <2>1, <2>2, <2>3, GotoStep DEF FailOutOfAttempts, WorkerSteps
  <1>24. CASE ScheduleAfterFailure(w)
    <2>1. Records' /\ Grows
      BY <1>24, RecordsKept DEF IInv, ScheduleAfterFailure
    <2>2. Others'
      BY <1>24 DEF IInv, Others, ScheduleAfterFailure, controlVars
    <2>3. QED
      BY <1>24, <2>1, <2>2, GotoStep DEF ScheduleAfterFailure, WorkerSteps
  <1>25. CASE DeadLetter(w)
    <2>1. Records' /\ Grows /\ Others'
      BY <1>25, RecordsKept, OthersKept DEF IInv, DeadLetter, workerRest
    <2>2. Queues'
      BY <1>25, <2>1, OldEntries, HeldJob DEF IInv, DeadLetter, Queues
    <2>3. Holders'
      BY <1>25, GotoHolds DEF IInv, DeadLetter, WorkerSteps, HeldKept
    <2>4. QED
      BY <1>25, <2>1, <2>2, <2>3, RequestsKept DEF IInv, DeadLetter, workerRest
  <1>26. QED
    BY <1>1, <1>2, <1>3, <1>4, <1>5, <1>6, <1>7, <1>8, <1>9, <1>10, <1>11, <1>12,
       <1>13, <1>14, <1>15, <1>16, <1>17, <1>18, <1>19, <1>20, <1>21, <1>22,
       <1>23, <1>24, <1>25 DEF Work

\* Outages and crashes at a worker slot.
LEMMA MishapStep ==
  ASSUME IInv, NEW w \in Workers,
         StoreFails(w) \/ WrapUpFails(w) \/ ProcessThrows(w) \/ Crash(w)
  PROVE  IInv'
  <1> DEFINE old == entry[wentry[w]]
  <1>1. CASE StoreFails(w)
    <2>1. Records' /\ Grows
      BY <1>1, RecordsKept DEF IInv, StoreFails
    <2>2. Others' /\ wpc[w] # "idle"
      BY <1>1, Spent DEF IInv, Others, StoreFails, controlVars, Events, InTry
    <2>3. QED
      BY <1>1, <2>1, <2>2, GotoStep DEF StoreFails, WorkerSteps
  <1>2. CASE ProcessThrows(w)
    <2>1. Others' /\ wpc[w] # "idle"
      BY <1>2, Spent DEF IInv, Others, ProcessThrows, controlVars, Events
    <2>2. CASE LastAttempt(w)
      BY <1>2, <2>1, <2>2, FreeStep DEF ProcessThrows
    <2>3. CASE ~LastAttempt(w)
      <3> DEFINE e == [old EXCEPT !.state = "waiting", !.made = @ + 1]
      <3>1. old.made + 1 \in 0 .. MaxAttempts /\ old.made + 1 < MaxAttempts
        BY <2>1, <2>3, HeldJob DEF LastAttempt
      <3>2. e \in BullJob /\ e.made = old.made + 1 /\ e.job = Job(w)
        BY <2>1, <3>1, HeldJob DEF BullJob, Job
      <3>3. QED
        BY <1>2, <2>1, <2>3, <3>1, <3>2, WaitStep DEF ProcessThrows
    <2>4. QED
      BY <2>2, <2>3
  <1>3. CASE Crash(w)
    <2>1. Others' /\ wpc[w] # "idle"
      BY <1>3, Spent DEF IInv, Others, Crash, controlVars, Events
    <2>2. CASE old.stalls < MaxStalls
      <3> DEFINE e == [old EXCEPT !.state = "waiting", !.stalls = @ + 1]
      <3>1. old.stalls + 1 \in 0 .. MaxStalls
        BY <2>1, <2>2, HeldJob, RunConstants DEF BullJob
      <3>2. e \in BullJob /\ e.made = old.made /\ e.job = Job(w)
        BY <2>1, <3>1, HeldJob DEF BullJob, Job
      <3>3. old.made < MaxAttempts
        BY <2>1, HeldJob
      <3>4. QED
        BY <1>3, <2>1, <2>2, <3>2, <3>3, WaitStep DEF Crash
    <2>3. CASE ~(old.stalls < MaxStalls)
      BY <1>3, <2>1, <2>3, FreeStep DEF Crash
    <2>4. QED
      BY <2>2, <2>3
  <1>4. CASE WrapUpFails(w)
    <2>1. wpc[w] # "idle"
      BY <1>4 DEF WrapUpFails
    <2>2. Records' /\ Grows
      BY <1>4, <2>1, RecordsClosed, HeldJob DEF IInv, WrapUpFails, Finished
    <2>3. Others'
      BY <1>4, Spent DEF IInv, Others, WrapUpFails, controlVars, Events
    <2>4. QED
      BY <1>4, <2>1, <2>2, <2>3, GotoStep DEF WrapUpFails, WorkerSteps
  <1>5. QED
    BY <1>1, <1>2, <1>3, <1>4

-----------------------------------------------------------------------------
(* Steps of the clients and of the system.                                  *)

LEMMA ClientStep ==
  ASSUME IInv, UNCHANGED <<workerVars, queueVars>>,
         Records', Grows, Requests', Others'
  PROVE  IInv'
  <1>1. Holders'
    BY HoldersKept DEF IInv, queueVars
  <1>2. QED
    BY <1>1, QueuesKept DEF IInv

\* A client moves to a step other than enqueueing.
LEMMA ClientGoes ==
  ASSUME IInv, Grows, NEW c \in Clients, NEW pc \in ClientSteps \ {"enqueue"},
         ClientGoto(c, pc)
  PROVE  Requests'
  <1>1. /\ cpc' \in [Clients -> ClientSteps]
        /\ cjob' \in [Clients -> Jobs \cup {NoJob}]
        /\ ctarget' \in [Clients -> Targets \cup {NoTarget}]
    BY DEF IInv, Requests, ClientGoto
  <1>2. ASSUME NEW d \in Clients, cpc'[d] = "enqueue"
        PROVE  cjob'[d] \in Jobs /\ Started(RunOf(cjob[d]))' 
    <2>1. d # c /\ cpc[d] = "enqueue" /\ cjob'[d] = cjob[d]
      BY <1>2 DEF IInv, Requests, ClientGoto
    <2>2. cjob[d] \in Jobs /\ Started(RunOf(cjob[d])) /\ RunOf(cjob[d]) \in Runs
      BY <2>1, JobParts DEF IInv, Requests
    <2>3. QED
      BY <2>1, <2>2 DEF Grows, Started
  <1>3. QED
    BY <1>1, <1>2 DEF Requests

\* A client is about to enqueue a job of a started run.
LEMMA ClientQueues ==
  ASSUME IInv, Grows, NEW c \in Clients, NEW j \in Jobs,
         cpc' = [cpc EXCEPT ![c] = "enqueue"], cjob' = [cjob EXCEPT ![c] = j],
         UNCHANGED ctarget, Started(RunOf(j))'
  PROVE  Requests'
  <1>1. /\ cpc' \in [Clients -> ClientSteps]
        /\ cjob' \in [Clients -> Jobs \cup {NoJob}]
        /\ ctarget' \in [Clients -> Targets \cup {NoTarget}]
    BY DEF IInv, Requests, ClientSteps
  <1>2. ASSUME NEW d \in Clients, cpc'[d] = "enqueue"
        PROVE  cjob'[d] \in Jobs /\ Started(RunOf(cjob[d]))'
    <2>1. CASE d = c
      <3>1. cjob'[d] = j
        BY <2>1 DEF IInv, Requests
      <3>2. QED
        BY <3>1 DEF Started
    <2>2. CASE d # c
      <3>1. cpc[d] = "enqueue" /\ cjob'[d] = cjob[d]
        BY <1>2, <2>2 DEF IInv, Requests
      <3>2. cjob[d] \in Jobs /\ Started(RunOf(cjob[d])) /\ RunOf(cjob[d]) \in Runs
        BY <3>1, JobParts DEF IInv, Requests
      <3>3. QED
        BY <3>1, <3>2 DEF Grows, Started
    <2>3. QED
      BY <2>1, <2>2
  <1>3. QED
    BY <1>1, <1>2 DEF Requests

\* A client turns to another step, and to another target or another job.
LEMMA ClientTurns ==
  ASSUME IInv, Grows, NEW c \in Clients, NEW pc \in ClientSteps \ {"enqueue"},
         NEW j \in Jobs \cup {NoJob}, NEW t,
         t \in Targets \cup {NoTarget},
         cpc' = [cpc EXCEPT ![c] = pc],
         cjob' \in {cjob, [cjob EXCEPT ![c] = j]},
         ctarget' \in {ctarget, [ctarget EXCEPT ![c] = t]}
  PROVE  Requests'
  <1>1. /\ cpc' \in [Clients -> ClientSteps]
        /\ cjob' \in [Clients -> Jobs \cup {NoJob}]
        /\ ctarget' \in [Clients -> Targets \cup {NoTarget}]
    BY DEF IInv, Requests
  <1>2. ASSUME NEW d \in Clients, cpc'[d] = "enqueue"
        PROVE  cjob'[d] \in Jobs /\ Started(RunOf(cjob[d]))'
    <2>1. d # c /\ cpc[d] = "enqueue" /\ cjob'[d] = cjob[d]
      BY <1>2 DEF IInv, Requests
    <2>2. cjob[d] \in Jobs /\ Started(RunOf(cjob[d])) /\ RunOf(cjob[d]) \in Runs
      BY <2>1, JobParts DEF IInv, Requests
    <2>3. QED
      BY <2>1, <2>2 DEF Grows, Started
  <1>3. QED
    BY <1>1, <1>2 DEF Requests

LEMMA FirstOfRun ==
  ASSUME NEW r \in Runs
  PROVE  <<r, 1>> \in Jobs /\ RunOf(<<r, 1>>) = r /\ StageOf(<<r, 1>>) = 1
  BY FirstStage DEF RunOf, StageOf

\* One step per action of a request that has begun.
LEMMA ProceedStep ==
  ASSUME IInv, NEW c \in Clients, Proceed(c)
  PROVE  IInv'
  <1>0. AfterStart(c) \in ClientSteps \ {"enqueue"} /\ "idle" \in ClientSteps \ {"enqueue"}
    BY DEF AfterStart, ClientSteps
  <1>1. CASE CreateRun(c)
    <2>1. PICK r \in Runs : /\ Create(<<r, 1>>, ctarget[c])
                            /\ cjob' = [cjob EXCEPT ![c] = <<r, 1>>]
      BY <1>1 DEF CreateRun
    <2>2. Records' /\ Grows /\ Started(RunOf(<<r, 1>>))'
      BY <2>1, FirstOfRun, RecordsCreated DEF IInv, Requests
    <2>3. Requests'
      BY <1>1, <2>1, <2>2, FirstOfRun, ClientQueues DEF CreateRun
    <2>4. Others'
      BY <1>1, OthersKept DEF IInv, CreateRun, clientRest
    <2>5. QED
      BY <1>1, <2>2, <2>3, <2>4, ClientStep DEF CreateRun, clientRest
  <1>2. CASE RunExists(c)
    <2>1. Records' /\ Grows /\ Others'
      BY <1>2, RecordsKept, OthersKept DEF IInv, RunExists, clientRest
    <2>2. Requests'
      BY <1>2, <2>1, ClientGoes DEF RunExists, ClientSteps
    <2>3. QED
      BY <1>2, <2>1, <2>2, ClientStep DEF RunExists, clientRest
  <1>3. CASE FindRun(c)
    <2>1. Records' /\ Grows /\ Others'
      BY <1>3, RecordsKept, OthersKept DEF IInv, FindRun, clientRest
    <2>2. Requests'
      BY <1>3, <1>0, <2>1, ClientGoes DEF FindRun
    <2>3. QED
      BY <1>3, <2>1, <2>2, ClientStep DEF FindRun, clientRest
  <1>4. CASE Enqueue(c)
    <2>1. Records' /\ Grows /\ Others'
      BY <1>4, RecordsKept, OthersKept DEF IInv, Enqueue, clientRest
    <2>2. Queues' /\ HeldKept
      BY <1>4, <2>1, AddHolds DEF IInv, Requests, Enqueue
    <2>3. Holders'
      BY <1>4, <2>2, HoldersKeepActive DEF IInv, Enqueue, clientRest
    <2>4. Requests'
      BY <1>4, <1>0, <2>1, ClientGoes DEF Enqueue
    <2>5. QED
      BY <2>1, <2>2, <2>3, <2>4 DEF IInv
  <1>5. CASE CancelJobs(c)
    <2>1. Records' /\ Grows /\ Others'
      BY <1>5, RecordsCancelled, OthersKept DEF IInv, CancelJobs, clientRest
    <2>2. Requests'
      BY <1>5, <2>1, ClientGoes DEF CancelJobs, ClientSteps
    <2>3. QED
      BY <1>5, <2>1, <2>2, ClientStep DEF CancelJobs, clientRest
  <1>6. CASE RemovePending(c)
    <2>1. Records' /\ Grows /\ Others'
      BY <1>6, RecordsKept, OthersKept DEF IInv, RemovePending, clientRest
    <2>2. Queues' /\ HeldKept
      BY <1>6, <2>1, DropHolds DEF IInv, RemovePending
    <2>3. Holders'
      BY <1>6, <2>2, HoldersKeepActive DEF IInv, RemovePending, clientRest
    <2>4. Requests'
      BY <1>6, <1>0, <2>1, ClientGoes DEF RemovePending
    <2>5. QED
      BY <2>1, <2>2, <2>3, <2>4 DEF IInv
  <1>7. CASE PauseQueues(c) \/ ResumeQueues(c)
    <2>1. Records' /\ Grows /\ Others'
      BY <1>7, RecordsKept, OthersKept DEF IInv, PauseQueues, ResumeQueues, clientRest
    <2>2. Requests'
      BY <1>7, <1>0, <2>1, ClientGoes DEF PauseQueues, ResumeQueues
    <2>3. Holders'
      BY <1>7, HoldersKept DEF IInv, PauseQueues, ResumeQueues, clientRest
    <2>4. Queues'
      BY <1>7, <2>1, OldEntries DEF IInv, Queues, PauseQueues, ResumeQueues
    <2>5. QED
      BY <2>1, <2>2, <2>3, <2>4 DEF IInv
  <1>8. QED
    BY <1>1, <1>2, <1>3, <1>4, <1>5, <1>6, <1>7 DEF Proceed

\* Requests and ticks that begin.
LEMMA BeginStep ==
  ASSUME IInv, NEW c \in Clients,
         \/ \E s \in Sites : StartRun(c, s)
         \/ \E k \in Keys : StartJob(c, k)
         \/ \E s \in Sites : c = Scheduler /\ Tick(s)
  PROVE  IInv'
  <1>1. Records' /\ Grows /\ Others'
    BY RecordsKept, OthersKept DEF IInv, StartRun, StartJob, Tick, clientRest
  <1>2. PICK t \in Targets, pc \in {"create", "start"} :
          /\ cpc' = [cpc EXCEPT ![c] = pc] /\ ctarget' = [ctarget EXCEPT ![c] = t]
          /\ UNCHANGED cjob
    BY DEF StartRun, StartJob, Tick, Targets
  <1>3. Requests'
    <2>1. pc \in ClientSteps \ {"enqueue"} /\ NoJob \in Jobs \cup {NoJob}
      BY DEF ClientSteps
    <2>2. QED
      BY <1>1, <1>2, <2>1, ClientTurns
  <1>4. QED
    BY <1>1, <1>3, ClientStep DEF StartRun, StartJob, Tick, clientRest

LEMMA RetryStep ==
  ASSUME IInv, NEW c \in Clients, NEW j \in Jobs, Retry(c, j)
  PROVE  IInv'
  <1>1. Started(RunOf(j)) /\ RunOf(j) \in Runs
    BY JobParts DEF IInv, Records, Retry
  <1>2. Grows
    BY FirstStage DEF IInv, Records, Grows, Started, Retry
  <1>3. Started(RunOf(j))'
    BY <1>1, <1>2 DEF Grows, Started
  <1>4. Records'
    BY <1>1, <1>2, JobParts DEF IInv, Records, Grows, Retry, Statuses, Active
  <1>5. Requests'
    BY <1>2, <1>3, ClientQueues DEF Retry
  <1>6. Others'
    BY Spent DEF IInv, Others, Retry, controlVars, Events
  <1>7. QED
    BY <1>2, <1>4, <1>5, <1>6, ClientStep DEF Retry

\* Control requests: the flags, the records and the AbortControllers.
LEMMA ControlStep ==
  ASSUME IInv, NEW c \in Clients,
         (\E r \in Runs : CancelFlag(c, r)) \/ Halt(c) \/ Resume(c)
  PROVE  IInv'
  <1>1. Records' /\ Grows /\ Queues'
    BY RecordsKept, QueuesKept DEF IInv, CancelFlag, Halt, Resume
  <1>2. /\ aborted' \in [Workers -> BOOLEAN]
        /\ UNCHANGED <<wpc, wentry, wnext, entry>>
    BY DEF IInv, Holders, CancelFlag, Halt, Resume, workerVars, queueVars
  <1>3. Holders'
    BY <1>2 DEF IInv, Holders
  <1>4. Others'
    BY Spent DEF IInv, Others, CancelFlag, Halt, Resume, Events
  <1>5. Requests'
    <2>1. CASE \E r \in Runs : CancelFlag(c, r)
      <3>1. PICK r \in Runs : CancelFlag(c, r)
        BY <2>1
      <3>2. <<r, 1>> \in Jobs \cup {NoJob} /\ "cancelJobs" \in ClientSteps \ {"enqueue"}
        BY FirstStage DEF ClientSteps
      <3>3. /\ cjob' \in {cjob, [cjob EXCEPT ![c] = <<r, 1>>]}
            /\ cpc' = [cpc EXCEPT ![c] = "cancelJobs"]
            /\ UNCHANGED ctarget
        BY <3>1 DEF CancelFlag
      <3>4. QED
        BY <1>1, <3>2, <3>3, ClientTurns
    <2>2. CASE Halt(c) \/ Resume(c)
      BY <2>2, <1>1, ClientGoes DEF Halt, Resume, ClientSteps
    <2>3. QED
      BY <2>1, <2>2
  <1>6. QED
    BY <1>1, <1>3, <1>4, <1>5 DEF IInv

\* What is left: the scheduler's own steps, time, crashes and shutdowns.
LEMMA SystemStep ==
  ASSUME IInv,
         \/ TickFindsRun \/ MarkScheduled \/ Shutdown
         \/ \E s \in Sites : BecomeDue(s)
         \/ \E c \in Clients : ClientCrash(c)
  PROVE  IInv'
  <1>0. Scheduler \in Clients
    BY DEF Clients
  <1>1. Records' /\ Grows
    BY RecordsKept
    DEF IInv, TickFindsRun, MarkScheduled, Shutdown, BecomeDue, ClientCrash
  <1>2. CASE TickFindsRun
    <2>1. Others'
      BY <1>2, OthersKept DEF IInv, TickFindsRun, clientRest
    <2>2. Requests'
      BY <1>0, <1>1, <1>2, ClientGoes DEF TickFindsRun, ClientSteps
    <2>3. QED
      BY <1>1, <1>2, <2>1, <2>2, ClientStep DEF TickFindsRun, clientRest
  <1>3. CASE MarkScheduled
    <2>1. Others'
      BY <1>3 DEF IInv, Others, MarkScheduled, controlVars, clientRest
    <2>2. Requests'
      BY <1>0, <1>1, <1>3, ClientGoes DEF MarkScheduled, ClientSteps
    <2>3. QED
      BY <1>1, <1>3, <2>1, <2>2, ClientStep DEF MarkScheduled, clientRest
  <1>4. CASE Shutdown
    <2>1. Others'
      BY <1>4, Spent DEF IInv, Others, Shutdown, controlVars, Events
    <2>2. Holders'
      BY <1>4 DEF IInv, Holders, Shutdown, queueVars
    <2>3. Queues' /\ Requests'
      BY <1>1, <1>4, QueuesKept, RequestsKept DEF IInv, Shutdown
    <2>4. QED
      BY <1>1, <2>1, <2>2, <2>3 DEF IInv
  <1>5. ASSUME NEW s \in Sites, BecomeDue(s)
        PROVE  IInv'
    <2>1. Others'
      BY <1>5, Spent DEF IInv, Others, BecomeDue, controlVars, Events
    <2>2. Requests'
      BY <1>1, <1>5, RequestsKept DEF IInv, BecomeDue
    <2>3. QED
      BY <1>1, <1>5, <2>1, <2>2, ClientStep DEF BecomeDue
  <1>6. ASSUME NEW c \in Clients, ClientCrash(c)
        PROVE  IInv'
    <2>1. Others'
      BY <1>6, Spent DEF IInv, Others, ClientCrash, controlVars, Events
    <2>2. Requests'
      BY <1>1, <1>6, ClientGoes DEF ClientCrash, ClientSteps
    <2>3. QED
      BY <1>1, <1>6, <2>1, <2>2, ClientStep DEF ClientCrash
  <1>7. QED
    BY <1>2, <1>3, <1>4, <1>5, <1>6

-----------------------------------------------------------------------------
(* The invariant and type correctness.                                      *)

LEMMA InitIInv == Init => IInv
  <1> SUFFICES ASSUME Init PROVE IInv
    OBVIOUS
  <1>1. Records
    BY RunConstants DEF Init, Records, Statuses
  <1>2. Queues
    BY FreeIsFree DEF Init, Queues
  <1>3. Holders
    BY RunConstants DEF Init, Holders, WorkerSteps, Stages
  <1>4. Requests
    BY DEF Init, Requests, ClientSteps
  <1>5. Others
    BY DEF Init, Others
  <1>6. QED
    BY <1>1, <1>2, <1>3, <1>4, <1>5 DEF IInv

LEMMA StutterIInv ==
  ASSUME IInv, UNCHANGED vars
  PROVE  IInv'
  <1>1. Records' /\ Grows
    BY RecordsKept DEF IInv, vars
  <1>2. Others' /\ Requests'
    BY <1>1, OthersKept, RequestsKept DEF IInv, vars
  <1>3. QED
    BY <1>1, <1>2, ClientStep DEF vars

LEMMA NextIInv ==
  ASSUME IInv, Next
  PROVE  IInv'
  <1>0. Scheduler \in Clients /\ Admins \subseteq Clients
    BY DEF Clients
  <1>1. ASSUME NEW w \in Workers,
               \/ Work(w) \/ StoreFails(w) \/ WrapUpFails(w)
               \/ ProcessThrows(w) \/ Crash(w)
        PROVE  IInv'
    BY <1>1, WorkStep, MishapStep
  <1>2. ASSUME NEW b \in Entries, Take(b)
        PROVE  IInv'
    BY <1>2, DeliverStep
  <1>3. ASSUME NEW c \in Admins, Request(c)
        PROVE  IInv'
    <2>1. CASE (\E s \in Sites : StartRun(c, s)) \/ (\E k \in Keys : StartJob(c, k))
      BY <1>0, <2>1, BeginStep
    <2>2. CASE \E j \in Jobs : Retry(c, j)
      BY <1>0, <2>2, RetryStep
    <2>3. CASE (\E r \in Runs : CancelFlag(c, r)) \/ Halt(c) \/ Resume(c)
      BY <1>0, <2>3, ControlStep
    <2>4. QED
      BY <1>3, <2>1, <2>2, <2>3 DEF Request
  <1>4. ASSUME NEW c \in Clients, Proceed(c)
        PROVE  IInv'
    BY <1>4, ProceedStep
  <1>5. ASSUME NEW s \in Sites, Tick(s) \/ StartRun(Scheduler, s)
        PROVE  IInv'
    BY <1>0, <1>5, BeginStep
  <1>6. ASSUME NEW k \in Keys, StartJob(Scheduler, k)
        PROVE  IInv'
    BY <1>0, <1>6, BeginStep
  <1>7. CASE \/ TickFindsRun \/ MarkScheduled \/ Shutdown
             \/ \E s \in Sites : BecomeDue(s)
             \/ \E c \in Clients : ClientCrash(c)
    BY <1>7, SystemStep
  <1>8. QED
    BY <1>0, <1>1, <1>2, <1>3, <1>4, <1>5, <1>6, <1>7 DEF Next, SchedulerStep

LEMMA AlwaysIInv == Spec => []IInv
  <1>1. IInv /\ [Next]_vars => IInv'
    BY NextIInv, StutterIInv
  <1>2. QED
    BY <1>1, InitIInv, PTL DEF Spec

\* Type correctness of the import pipeline, whatever the number of runs, stages
\* and workers and whatever crashes, outages and admins do: in particular no
\* interleaving counts an attempt beyond JOB_RETRY.attempts.
THEOREM TypeCorrect == Spec => []TypeOK
  BY AlwaysIInv, IInvImpliesTypeOK, PTL

-----------------------------------------------------------------------------
(* The (stage, URL) slot, and stages created after their run was cancelled. *)
(* Every step changes the job records by one of a few operations            *)
(* (RecordOperation); the slot properties are preserved by each of them.    *)

\* The operations on the records, as far as status, slot and target go.
Keeps == UNCHANGED <<status, slot, target>>

Moves == \E j \in Jobs, s \in Active :
    /\ status' = [status EXCEPT ![j] = s]
    /\ UNCHANGED <<slot, target>>

Closes == \E j \in Jobs, s \in Finished :
    /\ status' = [status EXCEPT ![j] = s]
    /\ slot' = [slot EXCEPT ![j] = FALSE]
    /\ UNCHANGED target

Cancels == \E r \in Runs : CancelStages(r)

\* A record takes its slot: retried, created in its run, or the first of a run.
Takes(j, t) ==
    /\ ~SlotTaken(t, StageOf(j))
    /\ status' = [status EXCEPT ![j] = "queued"]
    /\ slot' = [slot EXCEPT ![j] = TRUE]
    /\ target' = [target EXCEPT ![RunOf(j)] = t]
    /\ t = TargetOf(j) \/ \A k \in Jobs : RunOf(k) = RunOf(j) => ~slot[k]

RecordOperation ==
    \/ Keeps \/ Moves \/ Closes \/ Cancels
    \/ \E j \in Jobs, t \in Targets \cup {NoTarget} : Takes(j, t)

-----------------------------------------------------------------------------
LEMMA WorkRecords ==
  ASSUME IInv, NEW w \in Workers, Work(w)
  PROVE  RecordOperation
  <1>1. CASE \/ ReadControl(w) \/ MoveDelayed(w) \/ SingleJobEnds(w)
             \/ CheckCancelled(w) \/ StageSlotTaken(w) \/ EnqueueNext(w)
             \/ Return(w) \/ StageDelays(w) \/ StageStops(w) \/ ReadStop(w)
             \/ StopRemove(w) \/ Rethrow(w) \/ ScheduleAfterFailure(w) \/ DeadLetter(w)
    BY <1>1 DEF RecordOperation, Keeps, jobVars, ReadControl, MoveDelayed, SingleJobEnds,
       CheckCancelled, StageSlotTaken, EnqueueNext, Return, StageDelays, StageStops,
       ReadStop, StopRemove, Rethrow, ScheduleAfterFailure, DeadLetter
  <1>2. ASSUME NEW next \in {"none", "set"}, ScheduleNext(w, next)
        PROVE  RecordOperation
    BY <1>2 DEF RecordOperation, Keeps, jobVars, ScheduleNext
  <1>3. CASE Delay(w) \/ MarkRunning(w) \/ FailRetry(w)
    <2>1. Job(w) \in Jobs
      BY <1>3, HeldJob DEF Delay, MarkRunning, FailRetry, Fails
    <2>2. QED
      BY <1>3, <2>1 DEF RecordOperation, Moves, Active, Delay, MarkRunning, FailRetry,
         SetStatus
  <1>4. ASSUME CompleteLast(w) \/ FailForGood(w) \/ FailOutOfAttempts(w)
               \/ \E k \in Stages : StageProceeds(w, k)
        PROVE  RecordOperation
    <2>1. Job(w) \in Jobs
      BY <1>4, HeldJob DEF CompleteLast, FailForGood, FailOutOfAttempts, StageProceeds, Fails
    <2>2. QED
      BY <1>4, <2>1 DEF RecordOperation, Closes, Finished, CompleteLast, FailForGood,
         FailOutOfAttempts, StageProceeds, Close
  <1>5. CASE CancelSeen(w) \/ StopCancel(w)
    <2>1. RunOf(Job(w)) \in Runs
      BY <1>5, HeldJob DEF CancelSeen, StopCancel
    <2>2. QED
      BY <1>5, <2>1 DEF RecordOperation, Cancels, CancelSeen, StopCancel
  <1>6. CASE CreateStage(w)
    <2> DEFINE j == NextJob(w)  t == TargetOf(Job(w))
    <2>1. /\ j \in Jobs /\ t \in Targets \cup {NoTarget} /\ t = TargetOf(j)
          /\ StageOf(j) = wnext[w]
      BY <1>6, NextJobParts DEF CreateStage, TargetOf, NextJob, StageOf
    <2>2. Takes(j, t)
      BY <1>6, <2>1 DEF Takes, CreateStage, Create
    <2>3. QED
      BY <2>1, <2>2 DEF RecordOperation
  <1>7. QED
    BY <1>1, <1>2, <1>3, <1>4, <1>5, <1>6 DEF Work

LEMMA ClientRecords ==
  ASSUME IInv, NEW c \in Clients,
         Proceed(c) \/ \E j \in Jobs : Retry(c, j)
  PROVE  RecordOperation
  <1>1. CASE \/ RunExists(c) \/ FindRun(c) \/ Enqueue(c) \/ RemovePending(c)
             \/ PauseQueues(c) \/ ResumeQueues(c)
    BY <1>1 DEF RecordOperation, Keeps, jobVars, RunExists, FindRun, Enqueue,
       RemovePending, PauseQueues, ResumeQueues
  <1>2. CASE CreateRun(c)
    <2>1. PICK r \in Runs : FreshRun(r) /\ Create(<<r, 1>>, ctarget[c])
      BY <1>2 DEF CreateRun
    <2>2. <<r, 1>> \in Jobs /\ RunOf(<<r, 1>>) = r /\ StageOf(<<r, 1>>) = 1
      BY FirstOfRun
    <2>3. \A k \in Jobs : RunOf(k) = r => ~slot[k]
      BY <2>1 DEF IInv, Records, FreshRun
    <2>4. Takes(<<r, 1>>, ctarget[c])
      BY <1>2, <2>1, <2>2, <2>3 DEF Takes, CreateRun, Create
    <2>5. QED
      BY <2>2, <2>4 DEF RecordOperation, IInv, Requests
  <1>3. CASE CancelJobs(c)
    <2>1. PICK r : CancelStages(r)
      BY <1>3 DEF CancelJobs
    <2>2. CASE r \in Runs
      BY <2>1, <2>2 DEF RecordOperation, Cancels
    <2>3. CASE r \notin Runs
      <3>1. \A j \in Jobs : j \notin Unfinished(r)
        BY <2>3, JobParts DEF Unfinished
      <3>2. status' = status /\ slot' = slot /\ target' = target
        BY <2>1, <3>1 DEF CancelStages, IInv, Records
      <3>3. QED
        BY <3>2 DEF RecordOperation, Keeps
    <2>4. QED
      BY <2>2, <2>3
  <1>4. ASSUME NEW j \in Jobs, Retry(c, j)
        PROVE  RecordOperation
    <2>1. TargetOf(j) \in Targets \cup {NoTarget} /\ RunOf(j) \in Runs
      BY JobParts DEF IInv, Records, TargetOf
    <2>2. target' = [target EXCEPT ![RunOf(j)] = TargetOf(j)]
      BY <1>4, <2>1 DEF Retry, TargetOf, IInv, Records
    <2>3. Takes(j, TargetOf(j))
      BY <1>4, <2>2 DEF Takes, Retry
    <2>4. QED
      BY <2>1, <2>3 DEF RecordOperation
  <1>5. QED
    BY <1>1, <1>2, <1>3, <1>4 DEF Proceed

LEMMA RecordSteps ==
  ASSUME IInv, [Next]_vars
  PROVE  RecordOperation
  <1>0. Scheduler \in Clients /\ Admins \subseteq Clients
    BY DEF Clients
  <1>1. ASSUME NEW w \in Workers,
               StoreFails(w) \/ WrapUpFails(w) \/ ProcessThrows(w) \/ Crash(w)
        PROVE  RecordOperation
    <2>1. CASE StoreFails(w) \/ ProcessThrows(w) \/ Crash(w)
      BY <2>1 DEF RecordOperation, Keeps, jobVars, StoreFails, ProcessThrows, Crash
    <2>2. CASE WrapUpFails(w)
      <3>1. Job(w) \in Jobs
        BY <2>2, HeldJob DEF WrapUpFails
      <3>2. QED
        BY <2>2, <3>1 DEF RecordOperation, Closes, Finished, WrapUpFails, Close
    <2>3. QED
      BY <1>1, <2>1, <2>2
  <1>2. ASSUME NEW b \in Entries, Take(b)
        PROVE  RecordOperation
    BY <1>2 DEF RecordOperation, Keeps, jobVars, Take, DeliverFinished, Deliver
  <1>3. ASSUME NEW c \in Clients,
               \/ \E s \in Sites : StartRun(c, s) \/ Tick(s) \/ BecomeDue(s)
               \/ \E k \in Keys : StartJob(c, k)
               \/ \E r \in Runs : CancelFlag(c, r)
               \/ Halt(c) \/ Resume(c) \/ ClientCrash(c)
        PROVE  RecordOperation
    BY <1>3 DEF RecordOperation, Keeps, jobVars, StartRun, Tick, BecomeDue, StartJob,
       CancelFlag, Halt, Resume, ClientCrash
  <1>4. CASE Shutdown \/ TickFindsRun \/ MarkScheduled \/ UNCHANGED vars
    BY <1>4 DEF RecordOperation, Keeps, jobVars, vars, Shutdown, TickFindsRun, MarkScheduled
  <1>5. QED
    BY <1>0, <1>1, <1>2, <1>3, <1>4, WorkRecords, ClientRecords
    DEF Next, SchedulerStep, Request

-----------------------------------------------------------------------------
(* The slot.                                                                *)

LEMMA OperationKeepsActive ==
  ASSUME IInv, SlotOnlyWhileActive, RecordOperation
  PROVE  SlotOnlyWhileActive'
  <1>1. CASE Keeps
    BY <1>1 DEF Keeps, SlotOnlyWhileActive
  <1>2. CASE Moves
    BY <1>2 DEF Moves, SlotOnlyWhileActive, IInv, Records
  <1>3. CASE Closes
    BY <1>3 DEF Closes, SlotOnlyWhileActive, IInv, Records
  <1>4. CASE Cancels
    BY <1>4 DEF Cancels, CancelStages, SlotOnlyWhileActive, IInv, Records
  <1>5. ASSUME NEW j \in Jobs, NEW t \in Targets \cup {NoTarget}, Takes(j, t)
        PROVE  SlotOnlyWhileActive'
    BY <1>5 DEF Takes, SlotOnlyWhileActive, Active, IInv, Records
  <1>6. QED
    BY <1>1, <1>2, <1>3, <1>4, <1>5 DEF RecordOperation

\* A finished stage never keeps the slot of its URL, whatever finished it, in
\* every interleaving of workers, cancels, retries, crashes and outages.
THEOREM SlotsOnlyWhileActive == Spec => []SlotOnlyWhileActive
  <1>1. Init => SlotOnlyWhileActive
    BY DEF Init, SlotOnlyWhileActive
  <1>2. IInv /\ SlotOnlyWhileActive /\ [Next]_vars => SlotOnlyWhileActive'
    BY RecordSteps, OperationKeepsActive
  <1>3. QED
    BY <1>1, <1>2, AlwaysIInv, PTL DEF Spec

\* What the unique index on activeKey says of the records.
OneHolderPerSlot ==
    \A j, k \in Jobs : slot[j] /\ slot[k] /\ SameKey(j, k) => j = k

LEMMA OperationKeepsHolder ==
  ASSUME IInv, OneHolderPerSlot, RecordOperation
  PROVE  OneHolderPerSlot'
  <1>1. CASE /\ target' = target
             /\ \A j \in Jobs : slot'[j] => slot[j]
    BY <1>1 DEF OneHolderPerSlot, SameKey, TargetOf
  <1>2. CASE Keeps \/ Moves \/ Closes \/ Cancels
    <2>1. target' = target
      BY <1>2 DEF Keeps, Moves, Closes, Cancels, CancelStages
    <2>2. \A j \in Jobs : slot'[j] => slot[j]
      BY <1>2 DEF Keeps, Moves, Closes, Cancels, CancelStages, IInv, Records
    <2>3. QED
      BY <1>1, <2>1, <2>2
  <1>3. ASSUME NEW j \in Jobs, NEW t \in Targets \cup {NoTarget}, Takes(j, t)
        PROVE  OneHolderPerSlot'
    <2>1. ASSUME NEW k \in Jobs, slot'[k], k # j
          PROVE  /\ slot[k] /\ target'[RunOf(k)] = target[RunOf(k)]
                 /\ ~(StageOf(k) = StageOf(j) /\ target'[RunOf(k)] = t)
      <3>1. slot[k]
        BY <1>3, <2>1 DEF Takes, IInv, Records
      <3>2. target'[RunOf(k)] = target[RunOf(k)]
        BY <1>3, <3>1, JobParts DEF Takes, IInv, Records, TargetOf
      <3>3. QED
        BY <1>3, <3>1, <3>2 DEF Takes, SlotTaken, TargetOf
    <2>2. target'[RunOf(j)] = t
      BY <1>3, JobParts DEF Takes, IInv, Records
    <2>3. ASSUME NEW k \in Jobs, NEW l \in Jobs, slot'[k], slot'[l],
                 StageOf(k) = StageOf(l), target'[RunOf(k)] = target'[RunOf(l)]
          PROVE  k = l
      <3>1. CASE k = j \/ l = j
        BY <2>1, <2>2, <2>3, <3>1
      <3>2. CASE k # j /\ l # j
        BY <2>1, <2>3, <3>2 DEF OneHolderPerSlot, SameKey, TargetOf
      <3>3. QED
        BY <3>1, <3>2
    <2>4. QED
      BY <2>3 DEF OneHolderPerSlot, SameKey, TargetOf
  <1>4. QED
    BY <1>2, <1>3 DEF RecordOperation

\* A run's target is fixed before any of its stages takes a slot, so the unique
\* index is kept; OneActivePerStage is proved from it.
LEMMA OneHolder == Spec => []OneHolderPerSlot
  <1>1. Init => OneHolderPerSlot
    BY DEF Init, OneHolderPerSlot
  <1>2. IInv /\ OneHolderPerSlot /\ [Next]_vars => OneHolderPerSlot'
    BY RecordSteps, OperationKeepsHolder
  <1>3. QED
    BY <1>1, <1>2, AlwaysIInv, PTL DEF Spec
=============================================================================
