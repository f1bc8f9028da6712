---------------------- MODULE ImportRunsContractProofs ----------------------
(***************************************************************************)
(* Proofs that import runs keep their contract: one worker per stage, every *)
(* stage created once and completed once, in order, none begun after a      *)
(* cancel, none left behind.                                                *)
(*                                                                         *)
(* InStep is what the records, the BullMQ jobs and the workers owe each     *)
(* other while they are Calm.  Its core is OneToken:                        *)
(* of the BullMQ jobs that may still have a job worked, and of those about  *)
(* to add one, there is at most one for each job.                           *)
(***************************************************************************)
EXTENDS ImportRunsStepProofs

Live(b) == entry[b].state # "free" /\ (spent["retry"] = 0 \/ ~Settled(b))
Tokens(j) ==
    {<<"entry", b>> : b \in {b \in Entries : Live(b) /\ EntryOf(b) = j}}
    \cup {<<"worker", w>> : w \in {w \in Workers : WorkerAdds(w, j)}}
    \cup {<<"client", c>> : c \in {c \in Clients : ClientAdds(c, j)}}

OneToken == \A j \in Jobs :
    RunOf(j) \notin cancelled => \A x, y \in Tokens(j) : x = y
OnePast == \A v, w \in Workers :
    wpc[v] \in Past /\ wpc[w] \in Past /\ Job(v) = Job(w) => v = w
OpenRecords == \A j \in Jobs : RunOf(j) \notin cancelled =>
    /\ \A w \in Workers :
        \/ wpc[w] \in {"control"} \cup Writing /\ Job(w) = j
        \/ WorkerAdds(w, j)
        => status[j] \in Active
    /\ \A c \in Clients : ClientAdds(c, j) => status[j] \in Active
    /\ \A b \in Entries :
        spent["crash"] = 0 /\ entry[b].state = "waiting" /\ EntryOf(b) = j =>
            status[j] \in Active
Progress == \A w \in Workers :
    /\ wpc[w] \in Writing => status[Job(w)] # "completed"
    /\ wpc[w] \in Creating =>
          status[Job(w)] = "completed" /\ wnext[w] \in NextStages(StageOf(Job(w)))
    /\ wpc[w] # "error"
Above(j, k) == RunOf(j) = RunOf(k) /\ StageOf(j) < StageOf(k)
Follows(j, k) == RunOf(j) = RunOf(k) /\ StageOf(k) \in NextStages(StageOf(j))
Chain ==
    /\ \A j, k \in Jobs : Above(j, k) /\ Exists(k) => status[j] \in {"none", "completed"}
    /\ \A w \in Workers : wpc[w] \in {"next", "create"} =>
        \A k \in Jobs : Above(Job(w), k) => ~Exists(k)
    /\ \A k \in Jobs : Exists(k) =>
          \/ StageOf(k) = 1
          \/ \E j \in Jobs : Follows(j, k) /\ status[j] = "completed"
Slots == \A j \in Jobs : status[j] \in Active /\ RunOf(j) \notin cancelled => slot[j]
Attempts ==
    /\ \A w \in Workers : wpc[w] \in {"run", "complete", "stopped", "fail"} =>
          attempts[Job(w)] = entry[wentry[w]].made + 1
    /\ \A j \in Jobs : status[j] = "dead_lettered" => attempts[j] = MaxAttempts

InStep == OneToken /\ OnePast /\ OpenRecords /\ Progress /\ Chain /\ Slots /\ Attempts
Uncancelled == spent["cancel"] = 0 => cancelled = {}
Backed(j) ==
    \/ \E b \in Entries : entry[b].state # "free" /\ EntryOf(b) = j /\ ~Settled(b)
    \/ BeingQueued(j)
Recorded ==
    /\ \A j \in Jobs : status[j] \in Active => Backed(j)
    /\ \A j \in Jobs : status[j] = "dead_lettered" =>
            \/ j \in deadLetter
            \/ \E w \in Workers : wpc[w] \in {"deadSite", "deadLetter"} /\ Job(w) = j

-----------------------------------------------------------------------------
(* One BullMQ job, or somebody about to add one, for each job.              *)

LEMMA CalmBefore ==
  ASSUME IInv, IInv', Calm', Grown
  PROVE  /\ Calm /\ spent["outage"] = 0 /\ spent'["outage"] = 0
         /\ spent'["crash"] = 0 => spent["crash"] = 0
         /\ spent'["retry"] = 0 => spent["retry"] = 0
         /\ spent'["crash"] = 0 \/ spent'["retry"] = 0
  <1>1. \A e \in {"outage", "crash", "retry"} :
          spent[e] \in Nat /\ spent'[e] \in Nat /\ spent'[e] >= spent[e]
    BY EventNames DEF IInv, Others, Grown
  <1>2. QED
    BY <1>1 DEF Calm

LEMMA DoneStays ==
  ASSUME StepKind, NEW w \in Workers, wpc[w] \in Done,
         spent'["crash"] = 0, spent'["outage"] = 0
  PROVE  \/ wpc'[w] \in Done /\ wentry'[w] = wentry[w]
         \/ \E e : LetGo(w, e) /\ e.state = "free"
  <1>1. CASE Same(w)
    BY <1>1 DEF Same
  <1>2. CASE WorkerKind(w)
    BY <1>2 DEF WorkerKind, Advance, LegalMove, Write, Finish, NewStage, WorkerQueues,
       LetGo, Goes, Done, Stopping, InTry
  <1>3. CASE Sweeps(w)
    BY <1>3 DEF Sweeps, Goes, Done, Stopping
  <1>4. ~\E b \in Entries : Receives(w, b)
    BY DEF Receives, Done, Stopping
  <1>5. QED
    BY <1>1, <1>2, <1>3, <1>4, WorkerTurn

LEMMA LetGoEntry ==
  ASSUME IInv, NEW w \in Workers, NEW e, LetGo(w, e)
  PROVE  entry'[wentry[w]] = e /\ wentry[w] \in Entries
  BY HeldJob DEF LetGo, IInv, Queues

LEMMA LiveBefore ==
  ASSUME IInv, IInv', Calm', Grown, StepKind, NEW b \in Entries, Live(b)'
  PROVE  \/ Live(b) /\ EntryOf(b)' = EntryOf(b)
         \/ /\ entry[b].state = "free"
            /\ \A a \in Entries : a # b => entry'[a] = entry[a]
            /\ Added(EntryOf(b)')
  <1>1. CASE entry'[b] = entry[b]
    <2>1. ASSUME spent["retry"] # 0, Settled(b)
          PROVE  FALSE
      <3>1. spent'["retry"] # 0 /\ spent'["crash"] = 0 /\ spent'["outage"] = 0
        BY <2>1, CalmBefore
      <3>2. PICK w \in Workers : wpc[w] \in Done /\ wentry[w] = b
        BY <2>1 DEF Settled
      <3>3. ~Settled(b)'
        BY <3>1 DEF Live
      <3>4. PICK e : LetGo(w, e) /\ e.state = "free"
        BY <3>1, <3>2, <3>3, DoneStays DEF Settled
      <3>5. QED
        BY <3>2, <3>4, LetGoEntry DEF Live
    <2>2. QED
      BY <1>1, <2>1 DEF Live, EntryOf
  <1>2. ASSUME entry'[b].state = "waiting", NEW w \in Workers, wpc[w] # "idle",
               wentry[w] = b, NEW e, LetGo(w, e)
        PROVE  Live(b)
    <2>1. entry[b].state = "active"
      BY <1>2, HeldJob
    <2>2. ASSUME spent["retry"] # 0
          PROVE  ~Settled(b)
      <3>1. spent'["crash"] = 0 /\ spent'["outage"] = 0
        BY <2>2, CalmBefore
      <3>2. e.state = "waiting"
        BY <1>2, LetGoEntry
      <3>3. wpc[w] \notin Done
        BY <1>2, <3>1, <3>2 DEF LetGo, Done, Stopping
      <3>4. QED
        BY <1>2, <3>3 DEF Settled, IInv, Holders, Done, Stopping
    <2>3. QED
      BY <2>1, <2>2 DEF Live
  <1>3. CASE entry[b].state = "waiting"
    <2>1. ~Settled(b)
      BY <1>3 DEF Settled, IInv, Holders, Done, Stopping
    <2>2. QED
      BY <1>1, <1>3, <2>1, EntryChanges DEF EntryChange, Live
  <1>4. QED
    BY <1>1, <1>2, <1>3, EntryChanges DEF EntryChange, Live

LEMMA TokenIs ==
  ASSUME NEW j, NEW x \in Tokens(j)
  PROVE  \/ \E b \in Entries : x = <<"entry", b>> /\ Live(b) /\ EntryOf(b) = j
         \/ \E w \in Workers : x = <<"worker", w>> /\ WorkerAdds(w, j)
         \/ \E c \in Clients : x = <<"client", c>> /\ ClientAdds(c, j)
  BY DEF Tokens

LEMMA NextTokenIs ==
  ASSUME NEW j, NEW x \in Tokens(j)'
  PROVE  \/ \E b \in Entries : x = <<"entry", b>> /\ Live(b)' /\ EntryOf(b)' = j
         \/ \E w \in Workers : x = <<"worker", w>> /\ wpc'[w] = "enqueue" /\ NextJob(w)' = j
         \/ \E c \in Clients : x = <<"client", c>> /\ cpc'[c] = "enqueue" /\ cjob'[c] = j
  BY DEF Tokens, WorkerAdds, ClientAdds

LEMMA TokenOf ==
  /\ \A b \in Entries : Live(b) => <<"entry", b>> \in Tokens(EntryOf(b))
  /\ \A w \in Workers : wpc[w] = "enqueue" => <<"worker", w>> \in Tokens(NextJob(w))
  /\ \A c \in Clients : cpc[c] = "enqueue" => <<"client", c>> \in Tokens(cjob[c])
  BY DEF Tokens, WorkerAdds, ClientAdds

LEMMA NoTokens ==
  ASSUME Backing, NEW j, ~Exists(j)
  PROVE  Tokens(j) = {}
  <1>1. SUFFICES ASSUME NEW x \in Tokens(j) PROVE FALSE
    OBVIOUS
  <1>2. QED
    BY TokenIs DEF Backing, Live, WorkerAdds, ClientAdds

\* A worker that is not done with its job stands for it.
LEMMA WorkerToken ==
  ASSUME IInv, NEW w \in Workers, wpc[w] # "idle", wpc[w] \notin Done
  PROVE  /\ wentry[w] \in Entries /\ EntryOf(wentry[w]) = Job(w)
         /\ Live(wentry[w]) /\ <<"entry", wentry[w]>> \in Tokens(Job(w))
  <1>1. /\ wentry[w] \in Entries /\ EntryOf(wentry[w]) = Job(w)
        /\ entry[wentry[w]].state = "active"
    BY HeldJob DEF EntryOf, Job
  <1>2. ~Settled(wentry[w])
    BY DEF Settled, IInv, Holders, Done, Stopping
  <1>3. QED
    BY <1>1, <1>2, TokenOf DEF Live

LEMMA OneWorker ==
  ASSUME IInv, OneToken, NEW v \in Workers, wpc[v] # "idle", wpc[v] \notin Done,
         RunOf(Job(v)) \notin cancelled
  PROVE  /\ \A w \in Workers : wpc[w] # "idle" /\ wpc[w] \notin Done /\ Job(w) = Job(v) => w = v
         /\ \A w \in Workers : ~WorkerAdds(w, Job(v))
         /\ \A c \in Clients : ~ClientAdds(c, Job(v))
         /\ \A b \in Entries : entry[b].state = "waiting" => EntryOf(b) # Job(v)
  <1>1. Job(v) \in Jobs /\ \A x, y \in Tokens(Job(v)) : x = y
    BY HeldJob DEF OneToken
  <1>2. <<"entry", wentry[v]>> \in Tokens(Job(v)) /\ entry[wentry[v]].state = "active"
    BY WorkerToken, HeldJob
  <1>3. ASSUME NEW w \in Workers, wpc[w] # "idle", wpc[w] \notin Done, Job(w) = Job(v)
        PROVE  w = v
    <2>1. <<"entry", wentry[w]>> \in Tokens(Job(v))
      BY <1>3, WorkerToken
    <2>2. wentry[w] = wentry[v]
      BY <1>1, <1>2, <2>1
    <2>3. QED
      BY <1>3, <2>2 DEF IInv, Holders
  <1>4. ASSUME NEW w \in Workers, WorkerAdds(w, Job(v)) PROVE FALSE
    <2>1. <<"worker", w>> \in Tokens(Job(v))
      BY <1>4, TokenOf DEF WorkerAdds
    <2>2. QED
      BY <1>1, <1>2, <2>1
  <1>5. ASSUME NEW c \in Clients, ClientAdds(c, Job(v)) PROVE FALSE
    <2>1. <<"client", c>> \in Tokens(Job(v))
      BY <1>5, TokenOf DEF ClientAdds
    <2>2. QED
      BY <1>1, <1>2, <2>1
  <1>6. ASSUME NEW b \in Entries, entry[b].state = "waiting", EntryOf(b) = Job(v) PROVE FALSE
    <2>1. ~Settled(b)
      BY <1>6 DEF Settled, IInv, Holders, Done, Stopping
    <2>2. <<"entry", b>> \in Tokens(Job(v))
      BY <1>6, <2>1, TokenOf DEF Live
    <2>3. QED
      BY <1>1, <1>2, <1>6, <2>2
  <1>7. QED
    BY <1>3, <1>4, <1>5, <1>6

\* A step after which the system is still Calm.
CalmStep ==
    /\ IInv /\ IInv' /\ Standing /\ InStep /\ StepKind
    /\ Calm' /\ Grown

LEMMA CalmFacts ==
  ASSUME CalmStep
  PROVE  /\ IInv /\ StepKind /\ Backing /\ Flags
         /\ OneToken /\ OnePast /\ OpenRecords /\ Progress /\ Chain /\ Slots /\ Attempts
         /\ spent["outage"] = 0 /\ spent'["outage"] = 0
         /\ spent'["crash"] = 0 => spent["crash"] = 0
         /\ spent'["retry"] = 0 => spent["retry"] = 0
         /\ spent'["crash"] = 0 \/ spent'["retry"] = 0
         /\ cancelled \subseteq cancelled'
         /\ \A w \in Workers : wpc[w] # "error"
  BY CalmBefore, CancelledGrows DEF CalmStep, Standing, InStep, Progress

\* A job that has a new token after the step has no other.
LEMMA EntryTokenNew ==
  ASSUME CalmStep, NEW j \in Jobs, RunOf(j) \notin cancelled,
         NEW b \in Entries, entry[b].state = "free", Live(b)', EntryOf(b)' = j,
         NEW y \in Tokens(j)'
  PROVE  y = <<"entry", b>>
  <1>1. /\ \A a \in Entries : a # b => entry'[a] = entry[a]
        /\ Added(j) /\ entry' # entry
    BY LiveBefore DEF CalmStep, Live
  <1>2. PICK x \in Tokens(j) : x \notin Tokens(j)'
    <2>1. ASSUME NEW w \in Workers, wpc[w] = "enqueue", wpc'[w] = "return", j = NextJob(w)
          PROVE  <<"worker", w>> \in Tokens(j) /\ <<"worker", w>> \notin Tokens(j)'
      <3>1. <<"worker", w>> \in Tokens(j)
        BY <2>1, TokenOf
      <3>2. ASSUME <<"worker", w>> \in Tokens(j)' PROVE FALSE
        BY <2>1, <3>2, NextTokenIs
      <3>3. QED
        BY <3>1, <3>2
    <2>2. ASSUME NEW c \in Clients, cpc[c] = "enqueue", cpc'[c] # "enqueue", j = cjob[c]
          PROVE  <<"client", c>> \in Tokens(j) /\ <<"client", c>> \notin Tokens(j)'
      <3>1. <<"client", c>> \in Tokens(j)
        BY <2>2, TokenOf
      <3>2. ASSUME <<"client", c>> \in Tokens(j)' PROVE FALSE
        BY <2>2, <3>2, NextTokenIs
      <3>3. QED
        BY <3>1, <3>2
    <2>3. QED
      BY <1>1, <2>1, <2>2 DEF Added
  <1>3. y \notin Tokens(j)
    BY <1>2, CalmFacts DEF OneToken
  <1>4. ASSUME NEW a \in Entries, y = <<"entry", a>>, Live(a)', EntryOf(a)' = j
        PROVE  a = b
    <2>1. SUFFICES ASSUME a # b PROVE FALSE
      OBVIOUS
    <2>2. entry'[a] = entry[a]
      BY <1>1, <2>1
    <2>3. Live(a) /\ EntryOf(a) = j
      BY <1>4, <2>2, LiveBefore DEF CalmStep, Live, EntryOf
    <2>4. QED
      BY <1>3, <1>4, <2>3, TokenOf
  <1>5. ASSUME NEW w \in Workers, y = <<"worker", w>>, wpc'[w] = "enqueue",
               NextJob(w)' = j
        PROVE  FALSE
    <2>1. ~NewStage(w)
      BY <1>1 DEF NewStage
    <2>2. wpc[w] = "enqueue" /\ NextJob(w) = j
      BY <1>5, <2>1, WorkerAddsBefore, CalmFacts
    <2>3. QED
      BY <1>3, <1>5, <2>2, TokenOf
  <1>6. ASSUME NEW c \in Clients, y = <<"client", c>>, cpc'[c] = "enqueue", cjob'[c] = j
        PROVE  FALSE
    <2>1. (\A r \in Runs : ~NewRun(c, r)) /\ \A k \in Jobs : ~Retries(c, k)
      BY <1>1 DEF NewRun, Retries
    <2>2. cpc[c] = "enqueue" /\ cjob[c] = j
      BY <1>6, <2>1, ClientAddsBefore, CalmFacts
    <2>3. QED
      BY <1>3, <1>6, <2>2, TokenOf
  <1>7. QED
    BY <1>4, <1>5, <1>6, NextTokenIs

LEMMA SameEntryToken ==
  ASSUME CalmStep, entry' = entry, NEW b \in Entries, Live(b)'
  PROVE  Live(b) /\ EntryOf(b)' = EntryOf(b)
  BY LiveBefore DEF CalmStep, Live

\* A record is written for a job of which there is none yet, ...
LEMMA NewTokenOnly ==
  ASSUME CalmStep, NEW j \in Jobs, ~Exists(j),
         (\E w \in Workers : NewStage(w) /\ NextJob(w) = j)
           \/ (\E c \in Clients, r \in Runs : NewRun(c, r) /\ j = <<r, 1>>),
         NEW x \in Tokens(j)', NEW y \in Tokens(j)'
  PROVE  x = y
  <1>1. Tokens(j) = {}
    BY NoTokens, CalmFacts
  <1>2. ASSUME NEW w \in Workers, NewStage(w), NextJob(w) = j, NEW z \in Tokens(j)'
        PROVE  z = <<"worker", w>>
    <2>1. ~\E b \in Entries : Live(b)' /\ EntryOf(b)' = j
      BY <1>1, <1>2, SameEntryToken, TokenOf DEF NewStage
    <2>2. ASSUME NEW v \in Workers, wpc'[v] = "enqueue", NextJob(v)' = j, v # w
          PROVE  FALSE
      <3>1. wpc[v] = "enqueue" /\ NextJob(v) = j
        BY <1>2, <2>2, SameJob DEF NewStage, Goes, OthersSame, Same
      <3>2. QED
        BY <1>1, <3>1, TokenOf
    <2>3. ~\E c \in Clients : cpc'[c] = "enqueue" /\ cjob'[c] = j
      BY <1>1, <1>2, TokenOf DEF NewStage, Goes, ClientsSame
    <2>4. QED
      BY <1>2, <2>1, <2>2, <2>3, NextTokenIs
  <1>3. ASSUME NEW c \in Clients, NEW r \in Runs, NewRun(c, r), j = <<r, 1>>,
               NEW z \in Tokens(j)'
        PROVE  z = <<"client", c>>
    <2>1. ~\E b \in Entries : Live(b)' /\ EntryOf(b)' = j
      BY <1>1, <1>3, SameEntryToken, TokenOf DEF NewRun
    <2>2. ASSUME NEW v \in Workers, wpc'[v] = "enqueue", NextJob(v)' = j
          PROVE  FALSE
      <3>1. wpc[v] = "enqueue" /\ NextJob(v) = j
        BY <1>3, <2>2, SameJob DEF NewRun, Turns, AllSame, Same
      <3>2. QED
        BY <1>1, <3>1, TokenOf
    <2>3. ASSUME NEW d \in Clients, cpc'[d] = "enqueue", cjob'[d] = j, d # c
          PROVE  FALSE
      BY <1>1, <1>3, <2>3, TokenOf DEF NewRun, Turns
    <2>4. QED
      BY <1>3, <2>1, <2>2, <2>3, NextTokenIs
  <1>4. QED
    BY <1>2, <1>3

\* ... or a finished record is retried, which no BullMQ job stands for any more.
LEMMA RetriedToken ==
  ASSUME CalmStep, NEW j \in Jobs, RunOf(j) \notin cancelled,
         NEW c \in Clients, Retries(c, j), NEW y \in Tokens(j)'
  PROVE  y = <<"client", c>>
  <1>1. status[j] \notin Active /\ status[j] # "completed"
    BY DEF Retries, Active
  <1>2. ASSUME NEW b \in Entries, Live(b)', EntryOf(b)' = j
        PROVE  FALSE
    <2>1. entry' = entry /\ AllSame /\ spent'["retry"] # 0
      BY <1>2 DEF Retries, Turns
    <2>2. ~Settled(b)' /\ spent'["crash"] = 0 /\ spent["crash"] = 0
      BY <1>2, <2>1, CalmFacts DEF Live
    <2>3. ~Settled(b)
      BY <2>1, <2>2 DEF Settled, AllSame, Same
    <2>4. EntryOf(b) = j /\ entry[b].state # "free"
      BY <1>2, <2>1 DEF EntryOf, Live
    <2>5. CASE entry[b].state = "waiting"
      BY <1>1, <2>2, <2>4, <2>5, CalmFacts DEF OpenRecords
    <2>6. CASE entry[b].state = "active"
      <3>1. PICK w \in Workers : wpc[w] # "idle" /\ wentry[w] = b
        BY <2>6, CalmFacts DEF Backing, Held
      <3>2. Job(w) = j
        BY <2>4, <3>1 DEF Job, EntryOf
      <3>3. wpc[w] \notin Done /\ wpc[w] # "error"
        BY <2>3, <3>1, CalmFacts DEF Settled
      <3>4. wpc[w] \in {"control"} \cup Writing \cup Creating
        BY <3>1, <3>3, CalmFacts
        DEF IInv, Holders, WorkerSteps, Done, Stopping, Writing, Creating
      <3>5. QED
        BY <1>1, <3>2, <3>4, CalmFacts DEF OpenRecords, Progress
    <2>7. QED
      BY <2>4, <2>5, <2>6, CalmFacts DEF IInv, Queues, BullJob
  <1>3. ASSUME NEW v \in Workers, wpc'[v] = "enqueue", NextJob(v)' = j
        PROVE  FALSE
    <2>1. WorkerAdds(v, j)
      BY <1>3, SameJob DEF Retries, Turns, AllSame, Same, WorkerAdds
    <2>2. QED
      BY <1>1, <2>1, CalmFacts DEF OpenRecords
  <1>4. ASSUME NEW d \in Clients, cpc'[d] = "enqueue", cjob'[d] = j, d # c
        PROVE  FALSE
    <2>1. ClientAdds(d, j)
      BY <1>4 DEF Retries, Turns, ClientAdds
    <2>2. QED
      BY <1>1, <2>1, CalmFacts DEF OpenRecords
  <1>5. QED
    BY <1>2, <1>3, <1>4, NextTokenIs

LEMMA OneTokenKept ==
  ASSUME CalmStep
  PROVE  OneToken'
  <1>1. SUFFICES ASSUME NEW j \in Jobs, RunOf(j) \notin cancelled',
                        NEW x \in Tokens(j)', NEW y \in Tokens(j)'
                 PROVE  x = y
    BY DEF OneToken, RunOf
  <1>2. RunOf(j) \notin cancelled
    BY <1>1, CalmFacts
  <1>3. ASSUME NEW z \in Tokens(j)', z \notin Tokens(j), NEW u \in Tokens(j)'
        PROVE  u = z
    <2>1. ASSUME NEW b \in Entries, z = <<"entry", b>>, Live(b)', EntryOf(b)' = j
          PROVE  u = z
      <3>1. ~Live(b) \/ EntryOf(b)' # EntryOf(b)
        BY <1>3, <2>1, TokenOf
      <3>2. entry[b].state = "free"
        BY <2>1, <3>1, LiveBefore DEF CalmStep
      <3>3. QED
        BY <1>2, <1>3, <2>1, <3>2, EntryTokenNew
    <2>2. ASSUME NEW w \in Workers, z = <<"worker", w>>, wpc'[w] = "enqueue",
                 NextJob(w)' = j
          PROVE  u = z
      <3>1. NextJob(w) = j /\ (wpc[w] = "enqueue" \/ NewStage(w))
        BY <2>2, WorkerAddsBefore, CalmFacts
      <3>2. NewStage(w)
        BY <1>3, <2>2, <3>1, TokenOf
      <3>3. ~Exists(j)
        BY <3>1, <3>2 DEF NewStage, Exists
      <3>4. QED
        BY <1>3, <3>1, <3>2, <3>3, NewTokenOnly
    <2>3. ASSUME NEW c \in Clients, z = <<"client", c>>, cpc'[c] = "enqueue", cjob'[c] = j
          PROVE  u = z
      <3>1. ~(cpc[c] = "enqueue" /\ cjob'[c] = cjob[c])
        BY <1>3, <2>3, TokenOf
      <3>2. CASE \E r \in Runs : NewRun(c, r)
        <4>1. PICK r \in Runs : NewRun(c, r)
          BY <3>2
        <4>2. j = <<r, 1>> /\ ~Exists(j)
          BY <2>3, <4>1 DEF NewRun, FreshRun, Started, Exists
        <4>3. QED
          BY <1>3, <4>1, <4>2, NewTokenOnly
      <3>3. CASE \E k \in Jobs : Retries(c, k)
        <4>1. Retries(c, j)
          BY <2>3, <3>3 DEF Retries
        <4>2. QED
          BY <1>2, <1>3, <2>3, <4>1, RetriedToken
      <3>4. QED
        BY <2>3, <3>1, <3>2, <3>3, ClientAddsBefore, CalmFacts
    <2>4. QED
      BY <2>1, <2>2, <2>3, NextTokenIs
  <1>4. CASE x \in Tokens(j) /\ y \in Tokens(j)
    BY <1>2, <1>4, CalmFacts DEF OneToken
  <1>5. QED
    BY <1>3, <1>4

LEMMA OnePastKept ==
  ASSUME CalmStep
  PROVE  OnePast'
  <1>1. ASSUME NEW v \in Workers, NEW w \in Workers, wpc'[v] \in Past, wpc'[w] \in Past,
               Job(v)' = Job(w)', wpc[v] \notin Past
        PROVE  v = w
    <2>1. /\ Job(v) = Job(w) /\ wpc[v] = "control" /\ RunOf(Job(v)) \notin cancelled
          /\ Advance(v, wpc'[v]) /\ wpc[w] # "idle"
      BY <1>1, PastBefore, CalmFacts DEF CalmStep
    <2>2. SUFFICES ASSUME v # w PROVE FALSE
      OBVIOUS
    <2>3. wpc[w] = wpc'[w]
      BY <2>1, <2>2 DEF Advance, Goes, OthersSame, Same
    <2>4. QED
      BY <1>1, <2>1, <2>2, <2>3, OneWorker, CalmFacts
      DEF Past, Writing, Creating, Done, Stopping
  <1>2. ASSUME NEW v \in Workers, NEW w \in Workers, wpc'[v] \in Past, wpc'[w] \in Past,
               Job(v)' = Job(w)', wpc[v] \in Past, wpc[w] \in Past
        PROVE  v = w
    BY <1>2, PastBefore, CalmFacts DEF OnePast
  <1>3. QED
    BY <1>1, <1>2 DEF OnePast

LEMMA SweptCancelled ==
  ASSUME Flags, NEW r, SweepRecords(r) \/ SweepQueues(r)
  PROVE  r \in cancelled
  BY DEF Flags, SweepRecords, SweepQueues, SweptBy, Stopping

\* Who writes a record that stands for work, in a Calm step.
LEMMA CalmWriters ==
  ASSUME CalmStep, NEW j \in Jobs, status'[j] # status[j] \/ attempts'[j] # attempts[j]
  PROVE  \/ \E w \in Workers, p \in WorkerSteps :
              Write(w, p) /\ Job(w) = j /\ wpc[w] \in Writing /\ status'[j] \in Active
         \/ \E w \in Workers, p \in WorkerSteps, s \in Finished :
              Finish(w, p, s) /\ Job(w) = j /\ wpc[w] \in Writing /\ status'[j] = s
                /\ attempts' = attempts
         \/ /\ status[j] = "none" /\ status'[j] = "queued" /\ attempts' = attempts
            /\ \/ \E w \in Workers : NewStage(w) /\ NextJob(w) = j
               \/ \E c \in Clients, r \in Runs : NewRun(c, r) /\ j = <<r, 1>>
         \/ /\ status[j] \in {"failed", "dead_lettered", "cancelled"}
            /\ status'[j] = "queued" /\ attempts' = attempts
            /\ \E c \in Clients : Retries(c, j)
         \/ /\ status[j] \in Active /\ status'[j] = "cancelled" /\ attempts' = attempts
            /\ RunOf(j) \in cancelled
  <1>0. status \in [Jobs -> Statuses]
    BY DEF CalmStep, IInv, Records
  <1>1. ASSUME NEW w \in Workers, NEW p \in WorkerSteps, Write(w, p), Job(w) = j
        PROVE  wpc[w] \in Writing /\ status'[j] \in Active
    <2>1. wpc[w] \in Writing
      BY <1>1, WritersPast, CalmFacts
    <2>2. PICK s \in Active : status' = [status EXCEPT ![Job(w)] = s]
      BY <1>1 DEF Write
    <2>3. QED
      BY <1>0, <1>1, <2>1, <2>2
  <1>2. ASSUME NEW w \in Workers, NEW p \in WorkerSteps, NEW s \in Finished,
               Finish(w, p, s), Job(w) = j
        PROVE  wpc[w] \in Writing /\ status'[j] = s /\ attempts' = attempts
    BY <1>0, <1>2, WritersPast, CalmFacts DEF Finish, Close
  <1>3. SweepRecords(RunOf(j)) => RunOf(j) \in cancelled
    BY SweptCancelled, CalmFacts
  <1>4. IInv /\ StepKind
    BY CalmFacts
  <1>5. QED
    BY <1>1, <1>2, <1>3, <1>4, RecordWriters

\* Where a worker that may write to its record was before.
LEMMA WritingBefore ==
  ASSUME CalmStep, NEW w \in Workers, wpc'[w] \in Writing
  PROVE  /\ Job(w)' = Job(w) /\ wentry'[w] = wentry[w]
         /\ \/ wpc[w] \in Writing
            \/ /\ wpc[w] = "control" /\ RunOf(Job(w)) \notin cancelled
               /\ RecordsSame /\ wpc'[w] \in {"delay", "mark"}
  <1>1. /\ Job(w)' = Job(w) /\ wentry'[w] = wentry[w]
        /\ \/ wpc[w] \in Past
           \/ /\ wpc[w] = "control" /\ wpc'[w] \in {"delay", "mark"}
              /\ Advance(w, wpc'[w]) /\ RunOf(Job(w)) \notin cancelled
    BY PastBefore, CalmFacts DEF Past
  <1>2. CASE wpc[w] \in Creating
    <2>1. Same(w) \/ WorkerKind(w)
      BY <1>2, WorkerTurn, CalmFacts DEF Sweeps, Receives, Creating, Stopping
    <2>2. wpc'[w] \notin Writing
      BY <1>2, <2>1, CalmFacts DEF Same, WorkerKind, Advance, LegalMove, Write, Finish,
         NewStage, WorkerQueues, LetGo, Goes, Creating, Writing
    <2>3. QED
      BY <2>2
  <1>3. QED
    BY <1>1, <1>2 DEF Past, Advance

LEMMA OpenRecordsKept ==
  ASSUME CalmStep
  PROVE  OpenRecords'
  <1>1. SUFFICES ASSUME NEW j \in Jobs, RunOf(j) \notin cancelled'
        PROVE  /\ \A w \in Workers :
                   wpc'[w] \in {"control"} \cup Writing /\ Job(w)' = j =>
                     status'[j] \in Active
               /\ \A w \in Workers : wpc'[w] = "enqueue" /\ NextJob(w)' = j =>
                     status'[j] \in Active
               /\ \A c \in Clients : cpc'[c] = "enqueue" /\ cjob'[c] = j =>
                     status'[j] \in Active
               /\ \A b \in Entries :
                   spent'["crash"] = 0 /\ entry'[b].state = "waiting" /\ EntryOf(b)' = j =>
                     status'[j] \in Active
    BY DEF OpenRecords, WorkerAdds, ClientAdds, RunOf
  <1>2. RunOf(j) \notin cancelled
    BY <1>1, CalmFacts
  <1>3. CASE status'[j] = status[j]
    <2>1. ASSUME NEW w \in Workers, wpc'[w] \in {"control"} \cup Writing, Job(w)' = j
          PROVE  status[j] \in Active
      <3>1. ASSUME NEW b \in Entries, Receives(w, b)
            PROVE  status[j] \in Active
        <4>1. EntryOf(b) = j
          BY <2>1, <3>1 DEF Receives, Job, EntryOf, CalmStep, IInv, Queues, BullJob
        <4>2. Exists(j) /\ status[j] \notin Finished
          BY <3>1, <4>1, CalmFacts DEF Receives, Backing
        <4>3. QED
          BY <4>2 DEF CalmStep, IInv, Records, Statuses, Exists
      <3>2. CASE wpc'[w] \in Writing
        BY <1>2, <2>1, <3>2, WritingBefore, CalmFacts DEF OpenRecords
      <3>3. CASE wpc'[w] = "control" /\ ~\E b \in Entries : Receives(w, b)
        <4>1. Same(w)
          BY <3>3, WorkerTurn, CalmFacts DEF Sweeps, WorkerKind, Advance, LegalMove, Write,
             Finish, NewStage, WorkerQueues, LetGo, Goes
        <4>2. wpc[w] = "control" /\ Job(w) = j
          BY <2>1, <3>3, <4>1, SameJob DEF Same
        <4>3. QED
          BY <1>2, <4>2, CalmFacts DEF OpenRecords
      <3>4. QED
        BY <2>1, <3>1, <3>2, <3>3
    <2>2. ASSUME NEW w \in Workers, wpc'[w] = "enqueue", NextJob(w)' = j
          PROVE  status'[j] \in Active
      <3>1. NextJob(w) = j /\ (wpc[w] = "enqueue" \/ NewStage(w))
        BY <2>2, WorkerAddsBefore, CalmFacts
      <3>2. CASE NewStage(w)
        BY <3>1, <3>2 DEF NewStage, Create, Active, CalmStep, IInv, Records
      <3>3. CASE wpc[w] = "enqueue"
        BY <1>2, <1>3, <3>1, <3>3, CalmFacts DEF OpenRecords, WorkerAdds
      <3>4. QED
        BY <3>1, <3>2, <3>3
    <2>3. ASSUME NEW c \in Clients, cpc'[c] = "enqueue", cjob'[c] = j
          PROVE  status'[j] \in Active
      <3>1. CASE cpc[c] = "enqueue" /\ cjob'[c] = cjob[c]
        BY <1>2, <1>3, <2>3, <3>1, CalmFacts DEF OpenRecords, ClientAdds
      <3>2. ASSUME NEW r \in Runs, NewRun(c, r)
            PROVE  status'[j] \in Active
        BY <2>3, <3>2 DEF NewRun, Create, Active, CalmStep, IInv, Records
      <3>3. ASSUME NEW k \in Jobs, Retries(c, k)
            PROVE  status'[j] \in Active
        BY <2>3, <3>3 DEF Retries, Active, CalmStep, IInv, Records
      <3>4. QED
        BY <2>3, <3>1, <3>2, <3>3, ClientAddsBefore, CalmFacts
    <2>4. ASSUME NEW b \in Entries, spent'["crash"] = 0, entry'[b].state = "waiting",
                 EntryOf(b)' = j
          PROVE  status[j] \in Active
      <3>0. spent["crash"] = 0 /\ spent'["outage"] = 0
        BY <2>4, CalmFacts
      <3>1. CASE entry'[b] = entry[b]
        BY <1>2, <2>4, <3>0, <3>1, CalmFacts DEF OpenRecords, EntryOf
      <3>2. ASSUME NEW w \in Workers, wpc[w] # "idle", wentry[w] = b, NEW e, LetGo(w, e),
                   EntryOf(b)' = EntryOf(b)
            PROVE  status[j] \in Active
        <4>1. e.state = "waiting" /\ Job(w) = j
          BY <2>4, <3>2, LetGoEntry, CalmFacts DEF Job, EntryOf
        <4>2. wpc[w] \in Writing
          BY <2>4, <3>0, <3>2, <4>1 DEF LetGo, Writing
        <4>3. QED
          BY <1>2, <4>1, <4>2, CalmFacts DEF OpenRecords
      <3>3. CASE Added(j)
        BY <1>2, <3>3, CalmFacts DEF Added, OpenRecords, WorkerAdds, ClientAdds
      <3>4. EntryChange(b)
        BY EntryChanges, CalmFacts
      <3>5. QED
        BY <2>4, <3>1, <3>2, <3>3, <3>4 DEF EntryChange, EntryOf
    <2>5. QED
      BY <1>3, <2>1, <2>2, <2>3, <2>4
  <1>4. CASE status'[j] # status[j] /\ status'[j] \notin Active
    <2>1. PICK w \in Workers, p \in WorkerSteps, s \in Finished :
            Finish(w, p, s) /\ Job(w) = j /\ wpc[w] \in Writing
      BY <1>2, <1>4, CalmWriters DEF Active
    <2>2. wpc[w] # "idle" /\ wpc[w] \notin Done /\ RunOf(Job(w)) \notin cancelled
      BY <1>2, <2>1 DEF Writing, Done, Stopping
    <2>3. wpc'[w] \notin {"control", "enqueue"} \cup Writing /\ OthersSame(w)
          /\ entry' = entry /\ ClientsSame
      BY <1>2, <2>1, CalmFacts DEF Finish, Goes, Writing
    <2>4. ASSUME NEW v \in Workers, wpc'[v] \in {"control"} \cup Writing, Job(v)' = j
          PROVE  FALSE
      <3>1. v # w /\ wpc[v] = wpc'[v] /\ Job(v) = j
        BY <2>3, <2>4, SameJob DEF OthersSame, Same, Writing
      <3>2. QED
        BY <2>1, <2>2, <2>4, <3>1, OneWorker, CalmFacts DEF Writing, Done, Stopping
    <2>5. ASSUME NEW v \in Workers, wpc'[v] = "enqueue", NextJob(v)' = j
          PROVE  FALSE
      <3>1. v # w /\ WorkerAdds(v, j)
        BY <2>3, <2>5, SameJob DEF OthersSame, Same, WorkerAdds
      <3>2. QED
        BY <2>1, <2>2, <3>1, OneWorker, CalmFacts
    <2>6. ASSUME NEW c \in Clients, cpc'[c] = "enqueue", cjob'[c] = j
          PROVE  FALSE
      BY <2>1, <2>2, <2>3, <2>6, OneWorker, CalmFacts DEF ClientsSame, ClientAdds
    <2>7. ASSUME NEW b \in Entries, entry'[b].state = "waiting", EntryOf(b)' = j
          PROVE  FALSE
      BY <2>1, <2>2, <2>3, <2>7, OneWorker, CalmFacts DEF EntryOf
    <2>8. QED
      BY <2>4, <2>5, <2>6, <2>7
  <1>5. QED
    BY <1>3, <1>4

-----------------------------------------------------------------------------
(* The stages of a run, in order and once.                                  *)

LEMMA HeldExists ==
  ASSUME IInv, Backing, NEW w \in Workers, wpc[w] # "idle"
  PROVE  Job(w) \in Jobs /\ Exists(Job(w))
  BY HeldJob DEF Backing, Job, EntryOf

LEMMA CompletedStays ==
  ASSUME CalmStep, NEW j \in Jobs, status[j] = "completed"
  PROVE  status'[j] = "completed"
  BY CalmWriters, CalmFacts DEF Progress, Active

LEMMA ProgressKept ==
  ASSUME CalmStep
  PROVE  Progress'
  <1>1. SUFFICES ASSUME NEW w \in Workers
        PROVE  /\ wpc'[w] \in Writing => status'[Job(w)'] # "completed"
               /\ wpc'[w] \in Creating =>
                    /\ status'[Job(w)'] = "completed"
                    /\ wnext'[w] \in NextStages(StageOf(Job(w)'))
               /\ wpc'[w] # "error"
    BY DEF Progress, NextStages, StageOf
  <1>2. wpc'[w] # "error"
    BY WorkerTurn, CalmFacts DEF Same, Sweeps, Receives, WorkerKind, Advance, LegalMove,
       Write, Finish, NewStage, WorkerQueues, LetGo, Goes
  <1>3. ASSUME wpc'[w] \in Writing
        PROVE  status'[Job(w)'] # "completed"
    <2>1. Job(w)' = Job(w) /\ Job(w) \in Jobs
      BY <1>3, WritingBefore, HeldExists, CalmFacts DEF Writing
    <2>2. status[Job(w)] # "completed"
      BY <1>3, <2>1, WritingBefore, CalmFacts DEF OpenRecords, Progress, Active
    <2>3. ASSUME status'[Job(w)] = "completed"
          PROVE  FALSE
      <3>1. PICK v \in Workers, p \in WorkerSteps, s \in Finished :
              Finish(v, p, s) /\ Job(v) = Job(w) /\ wpc[v] \in Writing
        BY <2>1, <2>2, <2>3, CalmWriters DEF Active
      <3>2. wpc[w] \in Writing
        BY <1>3, <2>2, <2>3, WritingBefore DEF RecordsSame
      <3>3. v = w
        BY <3>1, <3>2, CalmFacts DEF OnePast, Past
      <3>4. QED
        BY <1>3, <3>1, <3>3, CalmFacts DEF Finish, Goes, Writing
    <2>4. QED
      BY <2>1, <2>3
  <1>4. ASSUME wpc'[w] \in Creating
        PROVE  /\ status'[Job(w)'] = "completed"
               /\ wnext'[w] \in NextStages(StageOf(Job(w)'))
    <2>1. Job(w)' = Job(w) /\ wpc[w] # "idle"
      BY <1>4, HeldBefore, CalmFacts DEF Creating
    <2>2. Job(w) \in Jobs
      BY <2>1, HeldExists, CalmFacts
    <2>3. CASE wpc[w] \in Creating
      <3>1. wnext'[w] = wnext[w]
        BY <1>4, <2>3, WorkerTurn, CalmFacts DEF Same, Sweeps, Receives, WorkerKind, Advance,
           LegalMove, Write, Finish, NewStage, WorkerQueues, LetGo, Goes, Creating
      <3>2. QED
        BY <2>1, <2>2, <2>3, <3>1, CompletedStays, CalmFacts DEF Progress
    <2>4. CASE wpc[w] \notin Creating
      <3>1. WorkerKind(w)
        BY <1>4, <2>1, <2>4, WorkerTurn, CalmFacts DEF Same, Sweeps, Receives, Goes, Creating
      <3>2. PICK p \in WorkerSteps, s \in Finished : Finish(w, p, s)
        BY <1>4, <2>4, <3>1 DEF WorkerKind, Advance, LegalMove, Write, NewStage,
           WorkerQueues, LetGo, Goes, Creating
      <3>3. p = "next" /\ s = "completed" /\ wnext'[w] \in NextStages(StageOf(Job(w)))
        BY <1>4, <3>2 DEF Finish, Goes, Creating
      <3>4. status'[Job(w)] = "completed"
        BY <2>2, <3>2, <3>3 DEF Finish, Close, CalmStep, IInv, Records
      <3>5. QED
        BY <2>1, <3>3, <3>4
    <2>5. QED
      BY <2>3, <2>4
  <1>5. QED
    BY <1>2, <1>3, <1>4

LEMMA StageOrder ==
  /\ \A j \in Jobs : RunOf(j) \in Nat /\ StageOf(j) \in Nat /\ StageOf(j) >= 1
  /\ \A j, k \in Jobs : RunOf(j) = RunOf(k) /\ StageOf(j) = StageOf(k) => j = k
  /\ \A k \in Nat : \A n \in NextStages(k) : n = k + 1 \/ n = k + 2
  BY RunConstants DEF Jobs, RunOf, StageOf, Runs, Stages, NextStages

\* A stage that exists is above those that follow.
LEMMA NewStagePlace ==
  ASSUME CalmStep, NEW w \in Workers, NewStage(w)
  PROVE  /\ Job(w) \in Jobs /\ NextJob(w) \in Jobs
         /\ status[Job(w)] = "completed" /\ Exists(Job(w))
         /\ Follows(Job(w), NextJob(w)) /\ Above(Job(w), NextJob(w))
         /\ \A k \in Jobs : Above(Job(w), k) => ~Exists(k)
         /\ wpc[w] = "create" /\ wpc'[w] = "enqueue"
  <1>1. wpc[w] = "create" /\ wpc'[w] = "enqueue"
    BY DEF NewStage, Goes
  <1>2. Job(w) \in Jobs /\ NextJob(w) \in Jobs /\ Exists(Job(w))
    BY <1>1, HeldExists, NextJobParts, CalmFacts
  <1>3. status[Job(w)] = "completed" /\ wnext[w] \in NextStages(StageOf(Job(w)))
    BY <1>1, CalmFacts DEF Progress, Creating
  <1>4. RunOf(NextJob(w)) = RunOf(Job(w)) /\ StageOf(NextJob(w)) = wnext[w]
    BY DEF NextJob, RunOf, StageOf
  <1>5. Follows(Job(w), NextJob(w)) /\ Above(Job(w), NextJob(w))
    BY <1>2, <1>3, <1>4, StageOrder DEF Follows, Above
  <1>6. QED
    BY <1>1, <1>2, <1>3, <1>5, CalmFacts DEF Chain

LEMMA NewRunPlace ==
  ASSUME CalmStep, NEW c \in Clients, NEW r \in Runs, NewRun(c, r)
  PROVE  /\ <<r, 1>> \in Jobs /\ StageOf(<<r, 1>>) = 1
         /\ \A k \in Jobs : RunOf(k) = r => ~Exists(k)
  BY FirstOfRun DEF NewRun, FreshRun, CalmStep, IInv, Records, Exists

LEMMA NewRecord ==
  ASSUME CalmStep, NEW k \in Jobs, Exists(k)', ~Exists(k)
  PROVE  \/ \E w \in Workers : NewStage(w) /\ NextJob(w) = k
         \/ \E c \in Clients, r \in Runs : NewRun(c, r) /\ k = <<r, 1>>
  <1>1. status'[k] # status[k] /\ status[k] = "none"
    BY DEF Exists
  <1>2. \A w \in Workers : wpc[w] \in Writing => Exists(Job(w))
    BY HeldExists, CalmFacts DEF Writing
  <1>3. QED
    BY <1>1, <1>2, CalmWriters DEF Exists, Active

LEMMA ChainKept ==
  ASSUME CalmStep
  PROVE  Chain'
  <1>0. \A w \in Workers : wpc[w] \in Writing =>
            /\ Job(w) \in Jobs /\ status[Job(w)] \notin {"none", "completed"}
    BY HeldExists, CalmFacts DEF Writing, Progress, Exists
  <1>1. ASSUME NEW j \in Jobs, NEW k \in Jobs, Above(j, k), Exists(k)'
        PROVE  status'[j] \in {"none", "completed"}
    <2>1. CASE Exists(k)
      <3>1. status[j] \in {"none", "completed"}
        BY <1>1, <2>1, CalmFacts DEF Chain
      <3>2. CASE status'[j] # status[j]
        <4>1. ASSUME NEW w \in Workers, NewStage(w), NextJob(w) = j
              PROVE  FALSE
          <5>1. Above(Job(w), k) /\ ~Exists(k)
            BY <1>1, <4>1, NewStagePlace, StageOrder DEF Above
          <5>2. QED
            BY <2>1, <5>1
        <4>2. ASSUME NEW c \in Clients, NEW r \in Runs, NewRun(c, r), j = <<r, 1>>
              PROVE  FALSE
          BY <1>1, <2>1, <4>2, NewRunPlace, FirstOfRun DEF Above
        <4>3. QED
          BY <1>0, <3>1, <3>2, <4>1, <4>2, CalmWriters DEF Active
      <3>3. QED
        BY <3>1, <3>2
    <2>2. CASE ~Exists(k)
      <3>1. ASSUME NEW w \in Workers, NewStage(w), NextJob(w) = k
            PROVE  status'[j] \in {"none", "completed"}
        <4>1. j # k
          BY <1>1, StageOrder DEF Above
        <4>2. status'[j] = status[j]
          BY <3>1, <4>1, NewStagePlace DEF NewStage, Create, CalmStep, IInv, Records
        <4>3. \/ Above(j, Job(w)) \/ j = Job(w) \/ Above(Job(w), j)
          BY <1>1, <3>1, NewStagePlace, StageOrder DEF Above
        <4>4. status[j] \in {"none", "completed"}
          BY <3>1, <4>3, NewStagePlace, CalmFacts DEF Chain, Exists
        <4>5. QED
          BY <4>2, <4>4
      <3>2. ~\E c \in Clients, r \in Runs : NewRun(c, r) /\ k = <<r, 1>>
        BY <1>1, FirstOfRun, StageOrder DEF Above
      <3>3. QED
        BY <1>1, <2>2, <3>1, <3>2, NewRecord
    <2>3. QED
      BY <2>1, <2>2
  <1>2. ASSUME NEW w \in Workers, wpc'[w] \in {"next", "create"},
               NEW k \in Jobs, Above(Job(w)', k)
        PROVE  ~Exists(k)'
    <2>1. Job(w)' = Job(w) /\ wpc[w] # "idle"
      BY <1>2, HeldBefore, CalmFacts
    <2>2. Job(w) \in Jobs /\ Exists(Job(w)) /\ Above(Job(w), k)
      BY <1>2, <2>1, HeldExists, CalmFacts
    <2>3. ~Exists(k)
      <3>1. CASE wpc[w] \in {"next", "create"}
        BY <2>2, <3>1, CalmFacts DEF Chain
      <3>2. CASE wpc[w] \notin {"next", "create"}
        <4>1. \E p \in WorkerSteps, s \in Finished : Finish(w, p, s)
          BY <1>2, <2>1, <3>2, WorkerTurn, CalmFacts DEF Same, Sweeps, Receives, WorkerKind,
             Advance, LegalMove, Write, NewStage, WorkerQueues, LetGo, Goes
        <4>2. wpc[w] \in Writing
          BY <4>1, WritersPast, CalmFacts
        <4>3. QED
          BY <1>0, <2>2, <4>2, CalmFacts DEF Chain
      <3>3. QED
        BY <3>1, <3>2
    <2>4. ASSUME NEW v \in Workers, NewStage(v), NextJob(v) = k
          PROVE  FALSE
      <3>1. v # w /\ wpc[w] = wpc'[w]
        BY <1>2, <2>4, NewStagePlace DEF NewStage, Goes, OthersSame, Same
      <3>2. \/ Above(Job(v), Job(w)) \/ Job(v) = Job(w) \/ Above(Job(w), Job(v))
        BY <2>2, <2>4, NewStagePlace, StageOrder DEF Above
      <3>3. Job(v) # Job(w)
        BY <1>2, <2>4, <3>1, NewStagePlace, CalmFacts DEF OnePast, Past, Creating
      <3>4. ~Above(Job(v), Job(w))
        BY <2>2, <2>4, NewStagePlace
      <3>5. ~Above(Job(w), Job(v))
        BY <1>2, <2>4, <3>1, NewStagePlace, CalmFacts DEF Chain
      <3>6. QED
        BY <3>2, <3>3, <3>4, <3>5
    <2>5. ~\E c \in Clients, r \in Runs : NewRun(c, r) /\ k = <<r, 1>>
      BY <2>2, FirstOfRun, StageOrder DEF Above
    <2>6. QED
      BY <2>3, <2>4, <2>5, NewRecord
  <1>3. ASSUME NEW k \in Jobs, Exists(k)'
        PROVE  \/ StageOf(k) = 1
               \/ \E j \in Jobs : Follows(j, k) /\ status'[j] = "completed"
    <2>1. CASE Exists(k)
      BY <2>1, CompletedStays, CalmFacts DEF Chain
    <2>2. CASE ~Exists(k)
      BY <1>3, <2>2, NewRecord, NewStagePlace, NewRunPlace, CompletedStays
    <2>3. QED
      BY <2>1, <2>2
  <1>4. QED
    BY <1>1, <1>2, <1>3 DEF Chain, Above, Follows, RunOf, StageOf, NextStages

LEMMA SlotsKept ==
  ASSUME CalmStep
  PROVE  Slots'
  <1>1. SUFFICES ASSUME NEW j \in Jobs, status'[j] \in Active, RunOf(j) \notin cancelled'
                 PROVE  slot'[j]
    BY DEF Slots, RunOf
  <1>2. RunOf(j) \notin cancelled
    BY <1>1, CalmFacts
  <1>t. status \in [Jobs -> Statuses] /\ slot \in [Jobs -> BOOLEAN]
    BY DEF CalmStep, IInv, Records
  <1>3. CASE status[j] \in Active
    <2>1. slot[j]
      BY <1>2, <1>3, CalmFacts DEF Slots
    <2>2. ASSUME NEW w \in Workers, WorkerKind(w)
          PROVE  slot'[j]
      <3>1. ASSUME NEW p \in WorkerSteps, NEW s \in Finished, Finish(w, p, s)
            PROVE  Job(w) # j
        BY <1>1, <1>t, <3>1 DEF Finish, Close, Active, Finished
      <3>2. QED
        BY <1>t, <2>1, <2>2, <3>1 DEF WorkerKind, Advance, Write, Finish, Close, NewStage,
           Create, WorkerQueues, LetGo, RecordsSame
    <2>3. ASSUME NEW c \in Clients, ClientKind(c)
          PROVE  slot'[j]
      BY <1>t, <2>1, <2>3 DEF ClientKind, NewRun, FlagsRun, ClientQueuesJob, Retries,
         Create, RecordsSame
    <2>4. ASSUME NEW r, SweepRecords(r)
          PROVE  slot'[j]
      BY <1>1, <2>1, <2>4 DEF SweepRecords, CancelStages, Active
    <2>5. QED
      BY <2>1, <2>2, <2>3, <2>4, CalmFacts DEF StepKind, SweepQueues, ReceivesFinished,
         Receives, Elsewhere, RecordsSame
  <1>4. CASE status[j] \notin Active
    <2>1. ASSUME NEW w \in Workers, Job(w) = j, wpc[w] \in Writing
          PROVE  FALSE
      BY <1>2, <1>4, <2>1, CalmFacts DEF OpenRecords
    <2>2. status'[j] # status[j]
      BY <1>1, <1>4
    <2>3. ASSUME NEW w \in Workers, NewStage(w), NextJob(w) = j
          PROVE  slot'[j]
      BY <1>t, <2>3 DEF NewStage, Create
    <2>4. ASSUME NEW c \in Clients, NEW r \in Runs, NewRun(c, r), j = <<r, 1>>
          PROVE  slot'[j]
      BY <1>t, <2>4 DEF NewRun, Create
    <2>5. ASSUME NEW c \in Clients, Retries(c, j)
          PROVE  slot'[j]
      BY <1>t, <2>5 DEF Retries
    <2>6. QED
      BY <1>4, <2>1, <2>2, <2>3, <2>4, <2>5, CalmWriters
  <1>5. QED
    BY <1>3, <1>4

LEMMA AttemptsKept ==
  ASSUME CalmStep
  PROVE  Attempts'
  <1> DEFINE Counted == {"run", "complete", "stopped", "fail"}
  <1>t. /\ status \in [Jobs -> Statuses] /\ attempts \in [Jobs -> 0 .. MaxAttempts]
        /\ MaxAttempts \in Nat
    BY RunConstants DEF CalmStep, IInv, Records
  <1>1. ASSUME NEW w \in Workers, wpc'[w] \in Counted
        PROVE  attempts'[Job(w)'] = entry'[wentry'[w]].made + 1
    <2>1. /\ Job(w)' = Job(w) /\ wentry'[w] = wentry[w] /\ wpc[w] \in Writing
          /\ Job(w) \in Jobs
      BY <1>1, WritingBefore, HeldExists, CalmFacts DEF Writing
    <2>2. Same(w) \/ WorkerKind(w)
      BY <2>1, WorkerTurn, CalmFacts DEF Writing, Sweeps, Stopping, Receives
    <2>3. entry'[wentry[w]] = entry[wentry[w]]
      BY <1>1, <2>1, <2>2 DEF Same, WorkerKind, Advance, Write, Finish, NewStage,
         WorkerQueues, LetGo, Goes, Writing
    <2>4. CASE wpc[w] \in Counted
      <3>1. ASSUME attempts'[Job(w)] # attempts[Job(w)]
            PROVE  FALSE
        <4>1. PICK v \in Workers, p \in WorkerSteps :
                Write(v, p) /\ Job(v) = Job(w) /\ wpc[v] \in Writing
          BY <2>1, <3>1, CalmWriters
        <4>2. v = w
          BY <2>1, <4>1, CalmFacts DEF OnePast, Past
        <4>3. QED
          BY <2>4, <3>1, <4>1, <4>2 DEF Write
      <3>2. QED
        BY <2>1, <2>3, <2>4, <3>1, CalmFacts DEF Attempts
    <2>5. CASE wpc[w] \notin Counted
      <3>1. Write(w, "run")
        BY <1>1, <2>1, <2>2, <2>5, CalmFacts DEF Same, WorkerKind, Advance, LegalMove,
           Write, Finish, NewStage, WorkerQueues, LetGo, Goes, Writing
      <3>2. attempts' = [attempts EXCEPT ![Job(w)] = entry[wentry[w]].made + 1]
        BY <3>1 DEF Write
      <3>3. QED
        BY <1>t, <2>1, <2>3, <3>2
    <2>6. QED
      BY <2>4, <2>5
  <1>2. ASSUME NEW j \in Jobs, status'[j] = "dead_lettered"
        PROVE  attempts'[j] = MaxAttempts
    <2>1. CASE status[j] = "dead_lettered"
      <3>1. attempts'[j] = attempts[j]
        BY <1>2, CalmWriters DEF Active
      <3>2. QED
        BY <2>1, <3>1, CalmFacts DEF Attempts
    <2>2. CASE status[j] # "dead_lettered"
      <3>1. PICK w \in Workers, p \in WorkerSteps :
              /\ Finish(w, p, "dead_lettered") /\ Job(w) = j
              /\ attempts' = attempts
        BY <1>2, <2>2, CalmWriters DEF Active
      <3>2. wpc[w] \in Counted /\ LastAttempt(w)
        BY <3>1, CalmFacts DEF Finish
      <3>3. attempts[j] = entry[wentry[w]].made + 1
        BY <3>1, <3>2, CalmFacts DEF Attempts
      <3>4. entry[wentry[w]].made \in Nat /\ entry[wentry[w]].made < MaxAttempts
        BY <3>2, HeldJob, CalmFacts
      <3>5. QED
        BY <1>t, <3>1, <3>2, <3>3, <3>4 DEF LastAttempt
    <2>3. QED
      BY <2>1, <2>2
  <1>3. QED
    BY <1>1, <1>2 DEF Attempts

-----------------------------------------------------------------------------
LEMMA InitInStep == Init => InStep
  <1>1. SUFFICES ASSUME Init PROVE InStep
    OBVIOUS
  <1>2. \A j \in Jobs : Tokens(j) = {}
    <2>1. Backing /\ \A j \in Jobs : ~Exists(j)
      BY <1>1, InitStanding DEF Standing, Init, Exists
    <2>2. QED
      BY <2>1, NoTokens
  <1>3. OneToken
    BY <1>2 DEF OneToken
  <1>4. OnePast /\ OpenRecords /\ Progress
    BY <1>1 DEF Init, OnePast, OpenRecords, Progress, Past, Writing, Creating, WorkerAdds,
       ClientAdds, FreeEntry
  <1>5. Chain /\ Slots /\ Attempts
    BY <1>1 DEF Init, Chain, Slots, Attempts, Active, Exists
  <1>6. QED
    BY <1>3, <1>4, <1>5 DEF InStep

CalmInv == Calm => InStep

LEMMA NextCalm ==
  ASSUME IInv, IInv', Standing, CalmInv, [Next]_vars
  PROVE  CalmInv'
  <1>1. SUFFICES ASSUME Calm' PROVE InStep'
    BY DEF CalmInv
  <1>2. StepKind /\ Grown
    BY StepKinds, SpentGrows
  <1>3. CalmStep
    BY <1>1, <1>2, CalmBefore DEF CalmStep, CalmInv
  <1>4. QED
    BY <1>3, OneTokenKept, OnePastKept, OpenRecordsKept, ProgressKept, ChainKept, SlotsKept,
       AttemptsKept DEF InStep

LEMMA AlwaysInStep == Spec => [](IInv /\ Standing /\ CalmInv)
  <1>1. Init => CalmInv
    BY InitInStep DEF CalmInv
  <1>2. IInv /\ Standing /\ IInv' /\ CalmInv /\ [Next]_vars => CalmInv'
    BY NextCalm
  <1>3. QED
    BY <1>1, <1>2, AlwaysStanding, PTL DEF Spec

\* While Calm, two workers never execute the same stage of a run at once: they
\* would hold two BullMQ jobs for it.
THEOREM OneWorkerEach == Spec => []OneWorkerPerStage
  <1>1. CalmInv => OneWorkerPerStage
    BY DEF CalmInv, InStep, OnePast, OneWorkerPerStage, AtWork, Past, Writing
  <1>2. QED
    BY <1>1, AlwaysInStep, PTL

\* While Calm, a run never has the same stage twice: the stage a worker is about
\* to create does not exist, also after its parent was delivered again.
THEOREM CreatedOnce == Spec => []StageCreatedOnce
  <1>1. IInv /\ Standing /\ CalmInv => StageCreatedOnce
    <2>1. SUFFICES ASSUME IInv, Standing, InStep, NEW w \in Workers, wpc[w] = "create"
                   PROVE  status[NextJob(w)] = "none"
      BY DEF CalmInv, StageCreatedOnce
    <2>2. Job(w) \in Jobs /\ NextJob(w) \in Jobs
      BY <2>1, HeldExists, NextJobParts DEF Standing
    <2>3. wnext[w] \in NextStages(StageOf(Job(w)))
      BY <2>1 DEF InStep, Progress, Creating
    <2>4. Above(Job(w), NextJob(w))
      BY <2>2, <2>3, StageOrder DEF Above, NextJob, RunOf, StageOf
    <2>5. QED
      BY <2>1, <2>2, <2>4 DEF InStep, Chain, Exists
  <1>2. QED
    BY <1>1, AlwaysInStep, PTL

\* While Calm, an active record without its slot belongs to a cancelled run:
\* no interleaving of status writes brings a finished stage back to life.
THEOREM SlotsLostOnlyByCancel == Spec => []SlotLostOnlyByCancel
  <1>1. CalmInv => SlotLostOnlyByCancel
    BY DEF CalmInv, InStep, Slots, SlotLostOnlyByCancel
  <1>2. QED
    BY <1>1, AlwaysInStep, PTL

\* While Calm, cancelled runs aside, one URL never has two active jobs of one stage.
THEOREM OneActive == Spec => []OneActivePerStage
  <1>1. CalmInv /\ OneHolderPerSlot => OneActivePerStage
    BY DEF CalmInv, InStep, Slots, OneHolderPerSlot, OneActivePerStage
  <1>2. QED
    BY <1>1, AlwaysInStep, OneHolder, PTL

\* While Calm, only a job whose last attempt was used up is dead-lettered.
THEOREM DeadAfterLastAttempt == Spec => []DeadOnlyAfterLastAttempt
  <1>1. CalmInv => DeadOnlyAfterLastAttempt
    BY DEF CalmInv, InStep, Attempts, DeadOnlyAfterLastAttempt
  <1>2. QED
    BY <1>1, AlwaysInStep, PTL

-----------------------------------------------------------------------------
(* The contract of RunContract, step by step.                               *)

WorkSteps == {"mark", "run", "complete"}
Finishers == {j \in Jobs : status[j] = "completed"}
Worked    == {j \in Jobs : Working(j)}

LEMMA WorkingIs ==
  /\ \A j : Working(j) <=> \E w \in Workers : wpc[w] \in WorkSteps /\ Job(w) = j
  /\ \A j : Working(j)' <=> \E w \in Workers : wpc'[w] \in WorkSteps /\ Job(w)' = j
  BY DEF Working, AtWork, WorkSteps

LEMMA SameWork ==
  ASSUME NEW v \in Workers, Same(v), NEW j
  PROVE  (wpc'[v] \in WorkSteps /\ Job(v)' = j) <=> (wpc[v] \in WorkSteps /\ Job(v) = j)
  BY SameJob DEF Same, WorkSteps

LEMMA AllSameWork ==
  ASSUME AllSame
  PROVE  Worked' = Worked
  BY WorkingIs, SameWork DEF Worked, AllSame

LEMMA StaysAtWork ==
  ASSUME NEW w \in Workers, OthersSame(w),
         wpc[w] \in WorkSteps <=> wpc'[w] \in WorkSteps,
         wpc[w] \in WorkSteps => Job(w)' = Job(w)
  PROVE  Worked' = Worked
  <1>1. ASSUME NEW j \in Jobs
        PROVE  Working(j)' <=> Working(j)
    BY WorkingIs, SameWork DEF OthersSame
  <1>2. QED
    BY <1>1 DEF Worked

LEMMA EntersWork ==
  ASSUME NEW w \in Workers, OthersSame(w), Job(w)' = Job(w), Job(w) \in Jobs,
         wpc[w] \notin WorkSteps, wpc'[w] \in WorkSteps
  PROVE  Worked' = Worked \cup {Job(w)}
  <1>1. ASSUME NEW j \in Jobs
        PROVE  Working(j)' <=> Working(j) \/ j = Job(w)
    BY WorkingIs, SameWork DEF OthersSame
  <1>2. QED
    BY <1>1 DEF Worked

LEMMA LeavesWork ==
  ASSUME OnePast, NEW w \in Workers, OthersSame(w), Job(w) \in Jobs,
         wpc[w] \in WorkSteps, wpc'[w] \notin WorkSteps
  PROVE  Job(w) \in Worked /\ Worked' = Worked \ {Job(w)}
  <1>1. ASSUME NEW v \in Workers, wpc[v] \in WorkSteps, Job(v) = Job(w)
        PROVE  v = w
    BY <1>1 DEF OnePast, Past, Writing, WorkSteps
  <1>2. ASSUME NEW j \in Jobs
        PROVE  Working(j)' <=> Working(j) /\ j # Job(w)
    BY <1>1, WorkingIs, SameWork DEF OthersSame
  <1>3. QED
    BY <1>2, WorkingIs DEF Worked

LEMMA FinishersStay ==
  ASSUME CalmStep,
         \A w \in Workers, p \in WorkerSteps : ~Finish(w, p, "completed")
  PROVE  Finishers' = Finishers
  <1>1. ASSUME NEW j \in Jobs
        PROVE  status'[j] = "completed" <=> status[j] = "completed"
    BY CompletedStays, CalmWriters DEF Active
  <1>2. QED
    BY <1>1 DEF Finishers

LEMMA FinishersGrow ==
  ASSUME CalmStep, NEW w \in Workers, NEW p \in WorkerSteps, Finish(w, p, "completed")
  PROVE  Finishers' = Finishers \cup {Job(w)} /\ Job(w) \in Jobs
  <1>1. Job(w) \in Jobs
    BY HeldExists, CalmFacts DEF Finish, Goes
  <1>2. status' = [status EXCEPT ![Job(w)] = "completed"]
    BY DEF Finish, Close
  <1>3. QED
    BY <1>1, <1>2 DEF Finishers, CalmStep, IInv, Records

\* What a step of the system is in the contract.
ContractStep ==
    \/ UNCHANGED <<Finishers, Worked, cancelled>>
    \/ \E j \in Jobs :
        /\ RunOf(j) \notin cancelled /\ j \notin Worked \cup Finishers
        /\ \/ StageOf(j) = 1
           \/ \E k \in Finishers : Follows(k, j)
        /\ Worked' = Worked \cup {j} /\ UNCHANGED <<Finishers, cancelled>>
    \/ \E j \in Worked :
        /\ Worked' = Worked \ {j} /\ UNCHANGED cancelled
        /\ Finishers' \in {Finishers, Finishers \cup {j}}
    \/ \E r \in Runs :
        /\ cancelled' = cancelled \cup {r} /\ UNCHANGED <<Finishers, Worked>>

LEMMA WorkerContract ==
  ASSUME CalmStep, NEW w \in Workers, WorkerKind(w)
  PROVE  ContractStep
  <1>1. OthersSame(w) /\ cancelled' = cancelled /\ wpc[w] # "idle"
    BY DEF WorkerKind, Advance, Write, Finish, NewStage, WorkerQueues, LetGo, Goes
  <1>2. Job(w) \in Jobs /\ Exists(Job(w))
    BY <1>1, HeldExists, CalmFacts
  <1>3. ASSUME NEW p \in WorkerSteps, Finish(w, p, "completed")
        PROVE  ContractStep
    <2>1. wpc[w] \in WorkSteps /\ wpc'[w] \notin WorkSteps
      BY <1>3 DEF Finish, Goes, WorkSteps
    <2>2. Job(w) \in Worked /\ Worked' = Worked \ {Job(w)}
      BY <1>1, <1>2, <2>1, LeavesWork, CalmFacts
    <2>3. QED
      BY <1>1, <1>3, <2>2, FinishersGrow DEF ContractStep
  <1>4. CASE \A p \in WorkerSteps : ~Finish(w, p, "completed")
    <2>0. \A v \in Workers, p \in WorkerSteps : ~Finish(v, p, "completed")
      <3>1. SUFFICES ASSUME NEW v \in Workers, v # w, NEW p \in WorkerSteps,
                            Finish(v, p, "completed")
                     PROVE  FALSE
        BY <1>4
      <3>2. wpc'[v] = wpc[v]
        BY <1>1, <3>1 DEF OthersSame, Same
      <3>3. QED
        BY <3>1, <3>2 DEF Finish, Goes
    <2>1. Finishers' = Finishers
      BY <2>0, FinishersStay
    <2>2. CASE wpc[w] \in WorkSteps /\ wpc'[w] \notin WorkSteps
      BY <1>1, <1>2, <2>1, <2>2, LeavesWork, CalmFacts DEF ContractStep
    <2>3. CASE wpc[w] \notin WorkSteps /\ wpc'[w] \in WorkSteps
      <3>1. Advance(w, "mark") /\ wpc[w] = "control" /\ RunOf(Job(w)) \notin cancelled
        BY <2>3, CalmFacts DEF WorkerKind, Advance, LegalMove, Write, Finish, NewStage,
           WorkerQueues, LetGo, Goes, WorkSteps
      <3>2. Worked' = Worked \cup {Job(w)}
        BY <1>1, <1>2, <2>3, <3>1, GoesJob, EntersWork DEF Advance
      <3>3. Job(w) \notin Finishers
        BY <1>2, <3>1, CalmFacts DEF OpenRecords, Finishers, Active
      <3>4. Job(w) \notin Worked
        <4>1. ASSUME NEW v \in Workers, wpc[v] \in WorkSteps, Job(v) = Job(w)
              PROVE  FALSE
          BY <3>1, <4>1, OneWorker, CalmFacts DEF WorkSteps, Done, Stopping
        <4>2. QED
          BY <4>1, WorkingIs DEF Worked
      <3>5. StageOf(Job(w)) = 1 \/ \E k \in Finishers : Follows(k, Job(w))
        BY <1>2, CalmFacts DEF Chain, Finishers
      <3>6. QED
        BY <1>1, <1>2, <2>1, <3>1, <3>2, <3>3, <3>4, <3>5 DEF ContractStep
    <2>4. CASE wpc[w] \in WorkSteps <=> wpc'[w] \in WorkSteps
      <3>1. wpc[w] \in WorkSteps => Job(w)' = Job(w)
        BY <2>4, HeldBefore, CalmFacts DEF WorkSteps
      <3>2. QED
        BY <1>1, <2>1, <2>4, <3>1, StaysAtWork DEF ContractStep
    <2>5. QED
      BY <2>2, <2>3, <2>4
  <1>5. QED
    BY <1>3, <1>4

LEMMA EveryContractStep ==
  ASSUME CalmStep
  PROVE  ContractStep
  <1>1. ASSUME \A v \in Workers, p \in WorkerSteps : ~Finish(v, p, "completed"),
               Worked' = Worked, cancelled' = cancelled
        PROVE  ContractStep
    BY <1>1, FinishersStay DEF ContractStep
  <1>2. ASSUME AllSame
        PROVE  /\ \A v \in Workers, p \in WorkerSteps : ~Finish(v, p, "completed")
               /\ Worked' = Worked
    BY <1>2, AllSameWork DEF AllSame, Same, Finish, Goes
  <1>3. ASSUME NEW c \in Clients, ClientKind(c)
        PROVE  ContractStep
    <2>1. AllSame
      BY <1>3 DEF ClientKind, NewRun, FlagsRun, ClientQueuesJob, Retries, Turns
    <2>2. Finishers' = Finishers /\ Worked' = Worked
      BY <1>2, <2>1, FinishersStay
    <2>3. QED
      BY <1>3, <2>2 DEF ContractStep, ClientKind, NewRun, FlagsRun, ClientQueuesJob, Retries
  <1>4. ASSUME NEW w \in Workers, OthersSame(w), wpc[w] \notin WorkSteps,
               wpc[w] \notin {"fail", "error"}, wpc'[w] \notin WorkSteps,
               cancelled' = cancelled
        PROVE  ContractStep
    <2>1. \A v \in Workers, p \in WorkerSteps : ~Finish(v, p, "completed")
      BY <1>4 DEF OthersSame, Same, Finish, Goes, WorkSteps
    <2>2. Worked' = Worked
      BY <1>4, StaysAtWork
    <2>3. QED
      BY <1>1, <1>4, <2>1, <2>2
  <1>5. ASSUME NEW r, SweepRecords(r) \/ SweepQueues(r)
        PROVE  ContractStep
    <2>1. CASE AllSame /\ cancelled' = cancelled
      BY <1>1, <1>2, <2>1
    <2>2. ASSUME NEW w \in Workers, wpc[w] \in {"cancelSeen", "stopCancel", "stopRemove"},
                 NEW p \in {"return", "stopRemove"}, Goes(w, p)
          PROVE  ContractStep
      BY <1>4, <2>2 DEF Goes, WorkSteps
    <2>3. QED
      BY <1>5, <2>1, <2>2 DEF SweepRecords, SweepQueues, SweptBy, Turns
  <1>6. ASSUME NEW b \in Entries, NEW w \in Workers, Receives(w, b)
        PROVE  ContractStep
    BY <1>4, <1>6 DEF Receives, WorkSteps
  <1>7. CASE Elsewhere \/ \E b \in Entries : ReceivesFinished(b)
    BY <1>1, <1>2, <1>7 DEF Elsewhere, ReceivesFinished
  <1>8. QED
    BY <1>3, <1>5, <1>6, <1>7, WorkerContract, CalmFacts DEF StepKind

LEMMA ContractStepMaps ==
  ASSUME ContractStep
  PROVE  [Contract!Next]_(Contract!vars)
  <1>0. Contract!Jobs = Jobs
    BY DEF Contract!Jobs, Jobs, Stages
  <1>1. CASE UNCHANGED <<Finishers, Worked, cancelled>>
    BY <1>1 DEF Contract!vars, Finishers, Worked
  <1>2. ASSUME NEW j \in Jobs,
               RunOf(j) \notin cancelled, j \notin Worked \cup Finishers,
               StageOf(j) = 1 \/ \E k \in Finishers : Follows(k, j),
               Worked' = Worked \cup {j}, UNCHANGED <<Finishers, cancelled>>
        PROVE  Contract!Next
    <2>1. Contract!Reachable(j)
      <3>1. ASSUME NEW k \in Finishers, Follows(k, j)
            PROVE  Contract!Reachable(j)
        <4>1. k \in Jobs /\ k = <<RunOf(j), StageOf(k)>> /\ status[k] = "completed"
          BY <3>1, JobParts DEF Finishers, Follows
        <4>2. \/ StageOf(j) = StageOf(k) + 1
              \/ StageOf(j) = StageOf(k) + 2 /\ StageOf(k) + 1 \in Optional
          BY <3>1 DEF Follows, NextStages
        <4>3. StageOf(k) \in Nat
          BY <4>1, StageOrder
        <4>4. \/ StageOf(k) = StageOf(j) - 1
              \/ StageOf(k) = StageOf(j) - 2 /\ StageOf(j) - 1 \in Optional
          BY <4>2, <4>3
        <4>5. QED
          BY <4>1, <4>4 DEF Contract!Reachable, RunOf, StageOf
      <3>2. QED
        BY <1>2, <3>1 DEF Contract!Reachable, StageOf
    <2>2. Contract!Begin(j)
      BY <1>2, <2>1 DEF Contract!Begin, Finishers, Worked, RunOf
    <2>3. QED
      BY <1>0, <2>2 DEF Contract!Next
  <1>3. ASSUME NEW j \in Worked, Worked' = Worked \ {j}, UNCHANGED cancelled,
               Finishers' \in {Finishers, Finishers \cup {j}}
        PROVE  Contract!Next
    <2>1. j \in Jobs
      BY DEF Worked
    <2>2. Contract!Complete(j) \/ Contract!GiveUp(j)
      BY <1>3 DEF Contract!Complete, Contract!GiveUp, Finishers, Worked
    <2>3. QED
      BY <1>0, <2>1, <2>2 DEF Contract!Next
  <1>4. ASSUME NEW r \in Runs, cancelled' = cancelled \cup {r},
               UNCHANGED <<Finishers, Worked>>
        PROVE  Contract!Next
    BY <1>4 DEF Contract!Next, Contract!Stop, Finishers, Worked
  <1>5. QED
    BY <1>1, <1>2, <1>3, <1>4 DEF ContractStep

\* While Calm, the records, queues and workers implement the contract: stages
\* are begun in pipeline order, each by one worker, complete at most once, and
\* none is begun once its run is cancelled.
THEOREM Refinement == Spec /\ []Calm => KeepsContract
  <1>1. Init => Contract!Init
    BY DEF Init, Contract!Init, Working, AtWork
  <1>2. IInv /\ IInv' /\ Standing /\ CalmInv /\ Calm /\ Calm' /\ [Next]_vars
          => [Contract!Next]_(Contract!vars)
    <2>1. SUFFICES ASSUME IInv, IInv', Standing, CalmInv, Calm, Calm', [Next]_vars
                   PROVE  [Contract!Next]_(Contract!vars)
      OBVIOUS
    <2>2. CalmStep
      BY <2>1, StepKinds, SpentGrows DEF CalmStep, CalmInv
    <2>3. QED
      BY <2>2, EveryContractStep, ContractStepMaps
  <1>3. QED
    BY <1>1, <1>2, AlwaysInStep, PTL DEF Spec, KeepsContract, Contract!Spec

-----------------------------------------------------------------------------
(* While nothing crashes, fails or is cancelled, every active stage keeps a  *)
(* BullMQ job that is not about to go, and every dead letter is recorded.    *)

StillInv == Undisturbed => Recorded
StillStep ==
    /\ CalmStep /\ Undisturbed' /\ Recorded
    /\ cancelled = {} /\ cancelled' = {}

LEMMA StillFacts ==
  ASSUME StillStep
  PROVE  /\ CalmStep
         /\ spent'["crash"] = 0 /\ spent'["outage"] = 0 /\ spent'["cancel"] = 0
         /\ \A j \in Jobs : RunOf(j) \notin cancelled
  BY DEF StillStep, Undisturbed

\* No worker or client is on its way through a cancel.
LEMMA NobodyStops ==
  ASSUME StillStep
  PROVE  /\ \A w \in Workers : wpc[w] \notin Stopping
         /\ \A c \in Clients : cpc[c] \notin {"cancelJobs", "removePending"}
         /\ \A r : ~SweepRecords(r) /\ ~SweepQueues(r)
  <1>1. /\ \A w \in Workers : wpc[w] \notin Stopping
        /\ \A c \in Clients : cpc[c] \notin {"cancelJobs", "removePending"}
    BY CalmFacts DEF StillStep, Flags
  <1>2. QED
    BY <1>1 DEF SweepRecords, SweepQueues, SweptBy, Stopping

\* A job whose record stays open has no worker that is done with it afterwards,
\* unless there was one before.
LEMMA SettledBefore ==
  ASSUME StillStep, NEW b \in Entries, Settled(b)',
         status'[EntryOf(b)] \in Active
  PROVE  Settled(b)
  <1>1. PICK w \in Workers : wpc'[w] \in Done /\ wentry'[w] = b
    BY DEF Settled
  <1>2. wpc[w] # "idle" /\ wentry[w] = b /\ Job(w)' = Job(w) /\ Job(w) = EntryOf(b)
    BY <1>1, HeldBefore, StillFacts, CalmFacts DEF Done, Stopping, Job, EntryOf
  <1>3. SUFFICES ASSUME wpc[w] \notin Done PROVE FALSE
    BY <1>1, <1>2 DEF Settled
  <1>4. WorkerKind(w)
    BY <1>1, <1>2, <1>3, WorkerTurn, NobodyStops, StillFacts, CalmFacts
    DEF Same, Sweeps, Receives, Stopping
  <1>5. Job(w) \in Jobs /\ RunOf(Job(w)) \notin cancelled
    BY <1>2, HeldExists, StillFacts, CalmFacts
  <1>6. status[Job(w)] # "completed"
    BY <1>2, <1>5, CompletedStays, StillFacts DEF Active
  <1>7. wpc[w] \notin Creating
    BY <1>6, StillFacts, CalmFacts DEF Progress
  <1>8. ~\E p \in WorkerSteps, s \in Finished : Finish(w, p, s)
    BY <1>2, <1>5 DEF Finish, Close, Active, Finished, StillStep, CalmStep, IInv, Records
  <1>9. QED
    BY <1>1, <1>3, <1>4, <1>5, <1>7, <1>8, StillFacts
    DEF WorkerKind, Advance, LegalMove, Write, NewStage, WorkerQueues, LetGo, Goes, Done,
        Stopping, Creating

\* ... and its BullMQ job does not go either.
LEMMA EntryStays ==
  ASSUME StillStep, NEW b \in Entries, entry[b].state # "free", ~Settled(b),
         status'[EntryOf(b)] \in Active
  PROVE  entry'[b].state # "free" /\ EntryOf(b)' = EntryOf(b)
  <1>0. entry \in [Entries -> BullJob] /\ status \in [Jobs -> Statuses]
        /\ \A a \in Entries : entry[a].state # "free" => EntryOf(a) \in Jobs
    BY DEF StillStep, CalmStep, IInv, Queues, Records, EntryOf
  <1>1. ASSUME NEW w \in Workers, NEW e, LetGo(w, e)
        PROVE  entry'[b].state # "free" /\ EntryOf(b)' = EntryOf(b)
    <2>1. wentry[w] \in Entries /\ Job(w) = EntryOf(wentry[w])
      BY <1>1, HeldJob, StillFacts, CalmFacts DEF LetGo, Job, EntryOf
    <2>2. CASE wentry[w] = b
      BY <1>0, <1>1, <2>1, <2>2, StillFacts DEF LetGo, Settled, Done, EntryOf
    <2>3. CASE wentry[w] # b
      BY <1>0, <1>1, <2>1, <2>3 DEF LetGo, EntryOf
    <2>4. QED
      BY <2>2, <2>3
  <1>2. ASSUME NEW a \in Entries, NEW w \in Workers, Receives(w, a)
        PROVE  entry'[b].state # "free" /\ EntryOf(b)' = EntryOf(b)
    BY <1>0, <1>2 DEF Receives, EntryOf, BullJob
  <1>3. ASSUME NEW a \in Entries, ReceivesFinished(a)
        PROVE  entry'[b].state # "free" /\ EntryOf(b)' = EntryOf(b)
    <2>1. a # b
      BY <1>0, <1>3 DEF ReceivesFinished, RecordsSame, Active, Finished
    <2>2. QED
      BY <1>0, <1>3, <2>1 DEF ReceivesFinished, EntryOf
  <1>4. ASSUME NEW j, AddEntry(j)
        PROVE  entry'[b].state # "free" /\ EntryOf(b)' = EntryOf(b)
    BY <1>0, <1>4 DEF AddEntry, EntryOf
  <1>5. QED
    BY <1>1, <1>2, <1>3, <1>4, NobodyStops, StillFacts, CalmFacts DEF StepKind, WorkerKind,
       ClientKind, Advance, Write, Finish, NewStage, WorkerQueues, NewRun, FlagsRun,
       ClientQueuesJob, Retries, Elsewhere, EntryOf

\* A stage on its way to BullMQ stays so, or is there.
LEMMA BeingQueuedStays ==
  ASSUME StillStep, NEW j \in Jobs, BeingQueued(j)
  PROVE  Backed(j)'
  <1>1. ASSUME AddEntry(j)
        PROVE  Backed(j)'
    <2>1. PICK b \in Entries :
            /\ entry[b].state = "free"
            /\ entry'[b].state = "waiting" /\ EntryOf(b)' = j
      BY <1>1, AddedEntry, StillFacts, CalmFacts
    <2>2. ASSUME Settled(b)'
          PROVE  FALSE
      <3>1. PICK w \in Workers : wpc'[w] \in Done /\ wentry'[w] = b
        BY <2>2 DEF Settled
      <3>2. wpc[w] # "idle" /\ wentry[w] = b
        BY <3>1, HeldBefore, StillFacts, CalmFacts DEF Done, Stopping
      <3>3. QED
        BY <2>1, <3>2, StillFacts, CalmFacts DEF IInv, Holders
    <2>3. QED
      BY <2>1, <2>2 DEF Backed
  <1>2. ASSUME NEW w \in Workers, wpc[w] = "enqueue", NextJob(w) = j
        PROVE  Backed(j)'
    <2>1. CASE Same(w)
      BY <1>2, <2>1, SameJob DEF Same, Backed, BeingQueued
    <2>2. CASE WorkerKind(w)
      BY <1>1, <1>2, <2>2, StillFacts DEF WorkerKind, Advance, LegalMove, Write, Finish,
         NewStage, WorkerQueues, LetGo
    <2>3. QED
      BY <1>2, <2>1, <2>2, WorkerTurn, NobodyStops, StillFacts, CalmFacts
      DEF Sweeps, Receives, Stopping, Goes
  <1>3. ASSUME NEW c \in Clients, cpc[c] = "enqueue", cjob[c] = j
        PROVE  Backed(j)'
    <2>1. CASE cpc'[c] = "enqueue" /\ cjob'[c] = j
      BY <2>1 DEF Backed, BeingQueued
    <2>2. ASSUME NEW d \in Clients, ClientKind(d)
          PROVE  Backed(j)'
      <3>1. CASE d = c
        BY <1>1, <1>3, <2>2, <3>1, StillFacts DEF ClientKind, NewRun, FlagsRun,
           ClientQueuesJob, Retries
      <3>2. CASE d # c
        BY <1>3, <2>1, <2>2, <3>2 DEF ClientKind, NewRun, FlagsRun, ClientQueuesJob, Retries,
           Turns
      <3>3. QED
        BY <3>1, <3>2
    <2>3. CASE Elsewhere
      BY <1>3, <2>1, <2>3, StillFacts DEF Elsewhere
    <2>4. QED
      BY <1>3, <2>1, <2>2, <2>3, NobodyStops, StillFacts, CalmFacts DEF StepKind, WorkerKind,
         Advance, Write, Finish, NewStage, WorkerQueues, LetGo, ReceivesFinished, Receives,
         Goes, ClientsSame
  <1>4. QED
    BY <1>2, <1>3 DEF BeingQueued

LEMMA BackedKept ==
  ASSUME StillStep, NEW j \in Jobs, status'[j] \in Active
  PROVE  Backed(j)'
  <1>1. CASE status[j] \in Active
    <2>1. Backed(j)
      BY <1>1 DEF StillStep, Recorded
    <2>2. ASSUME NEW b \in Entries, entry[b].state # "free", EntryOf(b) = j, ~Settled(b)
          PROVE  Backed(j)'
      BY <2>2, EntryStays, SettledBefore DEF Backed
    <2>3. QED
      BY <2>1, <2>2, BeingQueuedStays DEF Backed
  <1>2. ASSUME NEW w \in Workers, NEW p \in WorkerSteps, Write(w, p), Job(w) = j
        PROVE  Backed(j)'
    <2>1. /\ wpc[w] # "idle" /\ wpc'[w] = p /\ p \notin Done /\ entry' = entry
          /\ wentry'[w] = wentry[w] /\ OthersSame(w)
      BY <1>2 DEF Write, Goes, Done, Stopping
    <2>2. wentry[w] \in Entries /\ entry[wentry[w]].state = "active" /\ EntryOf(wentry[w]) = j
      BY <1>2, <2>1, StillFacts, CalmFacts DEF IInv, Holders, EntryOf, Job
    <2>3. \A v \in Workers : wpc[v] # "idle" /\ wentry[v] = wentry[w] => v = w
      BY <2>1, StillFacts, CalmFacts DEF IInv, Holders
    <2>4. ~Settled(wentry[w])'
      BY <2>1, <2>3 DEF Settled, OthersSame, Same, Done, Stopping
    <2>5. QED
      BY <2>1, <2>2, <2>4 DEF Backed, EntryOf
  <1>3. ASSUME NEW w \in Workers, NewStage(w), NextJob(w) = j
        PROVE  Backed(j)'
    BY <1>3, GoesJob DEF NewStage, Goes, Backed, BeingQueued
  <1>4. ASSUME NEW c \in Clients, Retries(c, j) \/ \E r \in Runs : NewRun(c, r) /\ j = <<r, 1>>
        PROVE  Backed(j)'
    BY <1>4 DEF Retries, NewRun, Turns, Backed, BeingQueued
  <1>5. QED
    BY <1>1, <1>2, <1>3, <1>4, CalmWriters, StillFacts DEF Active, Finished

LEMMA DeadLettersStay ==
  ASSUME StepKind
  PROVE  deadLetter \subseteq deadLetter'
  BY DEF StepKind, WorkerKind, ClientKind, Advance, Write, Finish, NewStage, WorkerQueues,
     LetGo, NewRun, FlagsRun, ClientQueuesJob, Retries, SweepRecords, SweepQueues,
     ReceivesFinished, Receives, Elsewhere, AddEntry, DropPending

LEMMA DeadRecorded ==
  ASSUME StillStep, NEW j \in Jobs, status'[j] = "dead_lettered"
  PROVE  \/ j \in deadLetter'
         \/ \E w \in Workers : wpc'[w] \in {"deadSite", "deadLetter"} /\ Job(w)' = j
  <1>1. CASE status[j] = "dead_lettered"
    <2>1. CASE j \in deadLetter
      BY <2>1, DeadLettersStay, StillFacts, CalmFacts
    <2>2. ASSUME NEW w \in Workers, wpc[w] \in {"deadSite", "deadLetter"}, Job(w) = j
          PROVE  \/ j \in deadLetter'
                 \/ wpc'[w] \in {"deadSite", "deadLetter"} /\ Job(w)' = j
      <3>1. CASE Same(w)
        BY <2>2, <3>1, SameJob DEF Same
      <3>2. ASSUME NEW p \in WorkerSteps, Advance(w, p)
            PROVE  \/ j \in deadLetter'
                   \/ wpc'[w] \in {"deadSite", "deadLetter"} /\ Job(w)' = j
        BY <2>2, <3>2, GoesJob DEF Advance, LegalMove, Goes, InTry
      <3>3. CASE WorkerKind(w)
        BY <2>2, <3>2, <3>3, StillFacts DEF WorkerKind, Write, Finish, NewStage, WorkerQueues,
           LetGo
      <3>4. QED
        BY <2>2, <3>1, <3>3, WorkerTurn, NobodyStops, StillFacts, CalmFacts
        DEF Sweeps, Receives, Stopping, Goes
    <2>3. QED
      BY <1>1, <2>1, <2>2 DEF StillStep, Recorded
  <1>2. CASE status[j] # "dead_lettered"
    <2>1. PICK w \in Workers, p \in WorkerSteps : Finish(w, p, "dead_lettered") /\ Job(w) = j
      BY <1>2, CalmWriters, StillFacts DEF Active
    <2>2. QED
      BY <2>1, GoesJob DEF Finish, Goes
  <1>3. QED
    BY <1>1, <1>2

\* Nobody has cancelled a run as long as no cancel is counted.
LEMMA UncancelledKept ==
  ASSUME IInv, Uncancelled, StepKind, Grown
  PROVE  Uncancelled'
  <1>1. spent'["cancel"] = 0 => spent["cancel"] = 0
    BY DEF Grown, Events, IInv, Others
  <1>2. cancelled' = cancelled \/ spent'["cancel"] # 0
    BY DEF StepKind, WorkerKind, ClientKind, Advance, Write, Finish, NewStage, WorkerQueues,
       LetGo, NewRun, FlagsRun, ClientQueuesJob, Retries, SweepRecords, SweepQueues, SweptBy,
       ReceivesFinished, Receives, Elsewhere, Goes
  <1>3. QED
    BY <1>1, <1>2 DEF Uncancelled

LEMMA NextStill ==
  ASSUME IInv, IInv', Standing, CalmInv, Uncancelled, StillInv, [Next]_vars
  PROVE  Uncancelled' /\ StillInv'
  <1>1. StepKind /\ Grown
    BY StepKinds, SpentGrows
  <1>2. Uncancelled'
    BY <1>1, UncancelledKept
  <1>3. SUFFICES ASSUME Undisturbed' PROVE Recorded'
    BY <1>2 DEF StillInv
  <1>4. Calm' /\ spent'["cancel"] = 0
    BY <1>3 DEF Undisturbed, Calm
  <1>5. CalmStep
    BY <1>1, <1>4, CalmBefore DEF CalmStep, CalmInv
  <1>6. Undisturbed
    BY <1>1, <1>3 DEF Undisturbed, Grown, Events, IInv, Others
  <1>7. StillStep
    BY <1>2, <1>3, <1>4, <1>5, <1>6 DEF StillStep, StillInv, Uncancelled, Undisturbed
  <1>8. QED
    BY <1>7, BackedKept, DeadRecorded DEF Recorded

LEMMA AlwaysStill == Spec => []StillInv
  <1>1. Init => Uncancelled /\ StillInv
    BY DEF Init, Uncancelled, StillInv, Recorded, Active
  <1>2. IInv /\ IInv' /\ Standing /\ CalmInv /\ Uncancelled /\ StillInv /\ [Next]_vars
          => Uncancelled' /\ StillInv'
    BY NextStill
  <1>3. QED
    BY <1>1, <1>2, AlwaysInStep, PTL DEF Spec

\* While nothing crashes, fails or is cancelled, every active record is backed
\* by a BullMQ job or by somebody about to add one: no stage stays behind to
\* block its website.
THEOREM NothingStranded == Spec => []NoStrandedStage
  <1>1. StillInv => NoStrandedStage
    BY DEF StillInv, Recorded, Backed, NoStrandedStage, HasEntry, EntryOf
  <1>2. QED
    BY <1>1, AlwaysStill, PTL

\* ... and a dead-lettered job is on the dead-letter queue or on its way there.
THEOREM DeadLettersKept == Spec => []DeadLettersRecorded
  <1>1. StillInv => DeadLettersRecorded
    BY DEF StillInv, Recorded, DeadLettersRecorded
  <1>2. QED
    BY <1>1, AlwaysStill, PTL
=============================================================================
