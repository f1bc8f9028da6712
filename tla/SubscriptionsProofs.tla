------------------------- MODULE SubscriptionsProofs -------------------------
(***************************************************************************)
(* Proofs about Subscriptions, for any number of callers, subscriptions,    *)
(* requests, renewals and mishaps: its type invariant, that the copies of   *)
(* Stripe's subscriptions stay in step, that one plan runs, that Stripe     *)
(* charges for the plan, and that the webhook lowers none.                  *)
(*                                                                         *)
(* IInv holds in every behaviour: what a request knows (Sound), and how far *)
(* a subscription is at Stripe, here and in the events between (Sale).      *)
(* InStep and OneRuns hold while no event is lost and events and requests   *)
(* are handled one after the other.  InStep says of each subscription what  *)
(* its copy will be once the events on their way are handled (Told), and    *)
(* that nobody ends a plan here that still runs at Stripe (Heard).  OneRuns *)
(* says that whoever makes room for a plan knows all that run.  InPrice     *)
(* holds while no request dies besides, of subscriptions of which no stale  *)
(* event was handled: it relates Stripe's price to the plan and the plan    *)
(* that waits, through the updates and saves still to come (Fits).          *)
(***************************************************************************)
EXTENDS Subscriptions, SequenceTheorems, FiniteSetTheorems, TLAPS

\* What a request may have to do yet, and how far it is then.
Activation == {<<"others">>, <<"replace">>, <<"end">>, <<"create">>}
Todos == {<<>>, <<"save">>, <<"cancel", "save">>, <<"change", "save">>, <<"ending", "save">>,
          <<"price", "save">>, <<"price", "ending", "save">>} \cup Activation

Hook(p, k)    == request[p].by = "hook" /\ request[p].id = k
Visitor(p, k) == request[p].by \in {"person", "job"} /\ request[p].id = k
Activates(p)  == request[p].todo \in Activation
Replaces(p)   == request[p].todo \in Activation \ {<<"others">>}
Saves(p)      == request[p].todo = <<"save">>

\* A request knows the subscription it is about, and what it is to do to it: only an
\* event makes a plan active or past due, and nobody but an event changes the status
\* of a plan otherwise than by ending it.
Sound(r) ==
    /\ r.todo \in Todos
    /\ r.todo = <<>> => r = Idle
    /\ r.by = "none" <=> r.todo = <<>>
    /\ r.todo \notin Activation /\ r.todo # <<>> => r.id \in Subs
    /\ r.by = "hook" => r.id \in Subs /\ r.todo \in Activation \cup {<<"save">>}
                        /\ r.new.status # "none"
    /\ r.by = "hook" /\ r.todo \in Activation => ~r.new.comp
    /\ r.by \in {"person", "job"} /\ r.todo \in Activation =>
            r.id = 0 /\ r.new.comp /\ r.new.status = "active"
    /\ r.by \in {"person", "job"} /\ r.todo \notin Activation /\ "status" \in r.paths =>
            r.new.status = "cancelled"
    /\ r.todo \in Activation => r.new.status # "none"
    /\ r.todo = <<"end">> => r.other \in r.others

\* How far a subscription is, at Stripe and here.
Sold(k)   == remote[k].status \notin {"none", "open"}
Begun(k)  == sub[k].status # "none"
Paying(k) == remote[k].status \in Granting

WellFormed(e) ==
    /\ e.type = "failed" => e.status = "past_due"
    /\ e.type = "deleted" <=> e.status = "canceled"
    /\ e.type = "paid" => e.status = "active"

\* Stripe knows the subscriptions that were bought and no others; the requests and
\* jobs are about what has begun here, and so are the plans that make room for another.
Sale(k) ==
    /\ sub[k].comp => remote[k].status = "none" /\ Begun(k)
    /\ ~Sold(k) => events[k] = <<>> /\ (Begun(k) => sub[k].comp)
    /\ \A p \in Callers : /\ Hook(p, k) => Sold(k)
                          /\ Hook(p, k) /\ ~Activates(p) => Begun(k)
                          /\ Visitor(p, k) => Begun(k)
                          /\ k \in request[p].others => Begun(k)
    /\ \A i \in DOMAIN events[k] :
            /\ WellFormed(events[k][i])
            /\ events[k][i].status = "canceled" => remote[k].status = "canceled"

IInv == /\ TypeOK
        /\ \A p \in Callers : Sound(request[p])
        /\ \A k \in Subs : Sale(k)

-----------------------------------------------------------------------------
(* Requests and documents.                                                  *)

LEMMA TodoSteps ==
  /\ Todos \subseteq Seq(Steps)
  /\ Head(<<"save">>) = "save" /\ Tail(<<"save">>) = <<>>
  /\ \A s \in {"cancel", "change", "ending", "price"} :
        /\ Head(<<s, "save">>) = s /\ Tail(<<s, "save">>) = <<"save">>
        /\ <<s, "save">> \notin Activation
        /\ <<s, "save">> # <<>> /\ <<s, "save">> # <<"price", "ending", "save">>
  /\ Head(<<"price", "ending", "save">>) = "price"
  /\ Tail(<<"price", "ending", "save">>) = <<"ending", "save">>
  /\ <<"price", "ending", "save">> \notin Activation \cup {<<>>}
  /\ <<"save">> \notin Activation \cup {<<>>}
  /\ \A s \in {"others", "replace", "end", "create"} : Head(<<s>>) = s /\ Tail(<<s>>) = <<>>
  BY DEF Todos, Activation, Steps

LEMMA IdleType == Idle \in Request /\ Sound(Idle) /\ Idle.todo = <<>> /\ Idle.by = "none"
                  /\ Idle.id = 0 /\ Idle.others = {}
  <1>1. NoDoc \in Doc
    BY DEF NoDoc, Doc, Granting, Plans, Since
  <1>2. <<>> \in Seq(Steps)
    OBVIOUS
  <1>3. Idle \in Request
    BY <1>1, <1>2 DEF Idle, Request, Plans
  <1>4. Sound(Idle)
    BY DEF Idle, Sound, Todos, Activation
  <1>5. QED
    BY <1>3, <1>4 DEF Idle

\* What a caller is to do next says what is left of its work.
LEMMA AtStep ==
  ASSUME IInv, NEW p \in Callers, NEW step, At(p, step)
  PROVE  /\ request[p] \in Request /\ Sound(request[p])
         /\ step = "save" => request[p].todo = <<"save">>
         /\ step = "cancel" => request[p].todo = <<"cancel", "save">>
         /\ step = "change" => request[p].todo = <<"change", "save">>
         /\ step = "ending" => request[p].todo = <<"ending", "save">>
         /\ step = "price" => request[p].todo \in {<<"price", "save">>,
                                                   <<"price", "ending", "save">>}
         /\ step \in {"others", "replace", "end", "create"} => request[p].todo = <<step>>
  <1> DEFINE todo == request[p].todo
  <1>1. todo \in Todos /\ todo # <<>> /\ Head(todo) = step
    BY DEF IInv, Sound, At, Busy
  <1>2. request[p] \in Request /\ Sound(request[p])
    BY DEF IInv, TypeOK
  <1>3. QED
    BY <1>1, <1>2, TodoSteps DEF Todos, Activation

Requests == request \in [Callers -> Request] /\ \A p \in Callers : Sound(request[p])
Counts ==
    /\ begun \in 0 .. MaxRequests
    /\ invoices \in 0 .. MaxInvoices
    /\ mishaps \in 0 .. MaxMishaps
    /\ tangles \in 0 .. MaxTangles
    /\ lost \in BOOLEAN /\ overlapped \in BOOLEAN
    /\ overtaken \subseteq Subs
AtStripe == remote \in [Subs -> Remote] /\ events \in [Subs -> Seq(Event)]
Documents == sub \in [Subs -> Doc]
Sales == \A k \in Subs : Sale(k)

LEMMA Parts == IInv <=> Requests /\ Counts /\ AtStripe /\ Documents /\ Sales
  BY DEF IInv, TypeOK, Requests, Counts, AtStripe, Documents, Sales

LEMMA DocType ==
  ASSUME NEW d \in Doc, NEW status \in {"none", "cancelled"} \cup Granting, NEW plan \in Plans,
         NEW pending \in Plans \cup {0}, NEW ending \in BOOLEAN, NEW since \in Since
  PROVE  [d EXCEPT !.status = status, !.plan = plan, !.pending = pending,
                   !.ending = ending, !.since = since] \in Doc
  BY DEF Doc

\* A caller turns to what is to do next, or is done.
LEMMA TurnKeeps ==
  ASSUME IInv, NEW p \in Callers, NEW r \in Request, r.todo # <<>> => Sound(r), Turn(p, r)
  PROVE  /\ Requests'
         /\ request'[p] = IF r.todo = <<>> THEN Idle ELSE r
         /\ \A q \in Callers : q # p => request'[q] = request[q]
  <1>1. (IF r.todo = <<>> THEN Idle ELSE r) \in Request
        /\ Sound(IF r.todo = <<>> THEN Idle ELSE r)
    BY IdleType
  <1>2. request' = [request EXCEPT ![p] = IF r.todo = <<>> THEN Idle ELSE r]
    BY DEF Turn
  <1>3. request \in [Callers -> Request] /\ \A q \in Callers : Sound(request[q])
    BY DEF IInv, TypeOK
  <1>4. QED
    BY <1>1, <1>2, <1>3 DEF Requests

LEMMA AdvanceKeeps ==
  ASSUME IInv, NEW p \in Callers, NEW step \in {"price", "ending", "change", "cancel", "save"},
         At(p, step), Advance(p)
  PROVE  /\ Requests'
         /\ request'[p] = IF step = "save" THEN Idle ELSE After(p)
         /\ After(p) = [request[p] EXCEPT !.todo = IF step = "save" THEN <<>>
                            ELSE IF request[p].todo = <<"price", "ending", "save">>
                                 THEN <<"ending", "save">> ELSE <<"save">>]
         /\ \A q \in Callers : q # p => request'[q] = request[q]
  <1> DEFINE r == request[p]
             todo == IF step = "save" THEN <<>>
                     ELSE IF request[p].todo = <<"price", "ending", "save">>
                          THEN <<"ending", "save">> ELSE <<"save">>
  <1>1. r \in Request /\ Sound(r) /\ Tail(r.todo) = todo /\ r.todo \notin Activation
        /\ r.todo # <<>>
    <2>1. r \in Request /\ Sound(r)
      BY AtStep
    <2>2. CASE step = "save"
      <3>1. r.todo = <<"save">>
        BY <2>2, AtStep
      <3>2. QED
        BY <2>1, <2>2, <3>1, TodoSteps DEF Activation
    <2>3. CASE step \in {"cancel", "change", "ending"}
      <3>1. r.todo = <<step, "save">>
        BY <2>3, AtStep
      <3>2. QED
        BY <2>1, <2>3, <3>1, TodoSteps
    <2>4. CASE step = "price"
      <3>1. r.todo = <<"price", "save">> \/ r.todo = <<"price", "ending", "save">>
        BY <2>4, AtStep
      <3>2. QED
        BY <2>1, <2>4, <3>1, TodoSteps
    <2>5. QED
      BY <2>2, <2>3, <2>4
  <1>2. todo \in Seq(Steps) /\ todo \in Todos /\ todo \notin Activation
    BY TodoSteps DEF Todos, Activation
  <1>3. After(p) = [r EXCEPT !.todo = todo]
    BY <1>1 DEF After
  <1>4. After(p) \in Request
    BY <1>1, <1>2, <1>3 DEF Request
  <1>5. /\ After(p).todo = todo /\ After(p).by = r.by /\ After(p).id = r.id
        /\ After(p).new = r.new /\ After(p).paths = r.paths /\ After(p).other = r.other
        /\ After(p).others = r.others
    BY <1>1, <1>3 DEF Request
  <1>6. todo # <<>> => Sound(After(p))
    <2>1. todo # <<>> => r.by # "hook"
      BY <1>1, AtStep DEF Sound, Activation
    <2>2. QED
      BY <1>1, <1>2, <1>5, <2>1 DEF Sound
  <1>7. todo = <<>> <=> step = "save"
    OBVIOUS
  <1>8. QED
    BY <1>3, <1>4, <1>5, <1>6, <1>7, TurnKeeps DEF Advance

\* A request about a subscription that has begun.
LEMMA AboutType ==
  ASSUME IInv, NEW k \in Subs, NEW by \in {"person", "hook", "job"}, NEW new \in Doc,
         NEW todo \in Todos \ (Activation \cup {<<>>}),
         by # "hook" /\ new.status # sub[k].status => new.status = "cancelled",
         by = "hook" => todo = <<"save">> /\ new.status # "none"
  PROVE  LET r == About(k, by, new, todo)
         IN  /\ r \in Request /\ Sound(r)
             /\ r.todo = todo /\ r.by = by /\ r.id = k /\ r.new = new
             /\ r.paths = {f \in Paths : new[f] # sub[k][f]}
             /\ r.plan = new.plan /\ r.ending = new.ending /\ r.others = {} /\ r.other = 0
  <1> DEFINE r == About(k, by, new, todo)
  <1>1. todo \in Seq(Steps)
    BY TodoSteps
  <1>2. Idle \in Request /\ new.plan \in Plans /\ new.ending \in BOOLEAN
    BY IdleType DEF Doc
  <1>3. /\ r.todo = todo /\ r.by = by /\ r.id = k /\ r.new = new
        /\ r.paths = {f \in Paths : new[f] # sub[k][f]}
        /\ r.plan = new.plan /\ r.ending = new.ending
        /\ r.others = {} /\ r.other = 0
    BY DEF About, Idle
  <1>4. r \in Request
    BY <1>1, <1>2 DEF About, Request
  <1>5. "status" \in r.paths => new.status # sub[k].status
    BY <1>3
  <1>6. Sound(r)
    BY <1>3, <1>5 DEF Sound, Activation
  <1>7. QED
    BY <1>3, <1>4, <1>6

LEMMA BeginKeeps ==
  ASSUME IInv, NEW p \in Callers, NEW r \in Request, Sound(r), r.todo # <<>>, Begin(p, r)
  PROVE  /\ Requests' /\ Counts'
         /\ request[p] = Idle
         /\ request'[p] = r
         /\ \A q \in Callers : q # p => request'[q] = request[q]
         /\ UNCHANGED <<remote, sub, events, invoices, mishaps, history>>
         /\ tangles' \in {tangles, tangles + 1}
         /\ tangles' = tangles /\ r.id # 0 =>
                \A q \in Callers : ~(request[q].by \in {"person", "job"} /\ request[q].id = r.id)
  <1>1. Turn(p, r) /\ request[p] = Idle
    BY DEF Begin, Busy, IInv, Sound
  <1>2. /\ begun' = begun + 1 /\ begun < MaxRequests
        /\ UNCHANGED <<remote, sub, events, invoices, mishaps, history>>
    BY DEF Begin
  <1>3. Tangled(\E q \in Callers : r.id # 0 /\ request[q].id = r.id
                                   /\ request[q].by \in {"person", "job"})
    BY DEF Begin
  <1>4. Counts
    BY Parts
  <1>5. /\ tangles' \in {tangles, tangles + 1} /\ tangles' \in 0 .. MaxTangles
        /\ tangles' = tangles /\ r.id # 0 =>
               \A q \in Callers : ~(request[q].by \in {"person", "job"} /\ request[q].id = r.id)
    BY <1>3, <1>4, SubscriptionConstants DEF Tangled, Counts
  <1>6. Counts'
    BY <1>2, <1>4, <1>5, SubscriptionConstants DEF Counts, history
  <1>7. QED
    BY <1>1, <1>2, <1>5, <1>6, TurnKeeps

Types == {"completed", "updated", "deleted", "paid", "failed"}

\* What Stripe sends follows what it has sent before.
Message(type, r) == [type |-> type, status |-> r.status, plan |-> r.plan, ending |-> r.ending]

LEMMA SentAfter ==
  ASSUME AtStripe, NEW k \in Subs, NEW types \in Seq(Types), NEW r \in Remote,
         r.status \in {"canceled"} \cup Granting, Becomes(k, r, types)
  PROVE  /\ AtStripe'
         /\ remote'[k] = r
         /\ \A j \in Subs : j # k => remote'[j] = remote[j] /\ events'[j] = events[j]
         /\ Len(events[k]) \in Nat
         /\ DOMAIN events[k] = 1 .. Len(events[k])
         /\ Len(events'[k]) = Len(events[k]) + Len(types)
         /\ DOMAIN events'[k] = 1 .. Len(events'[k])
         /\ \A i \in DOMAIN events[k] : events'[k][i] = events[k][i]
         /\ \A i \in 1 .. Len(types) :
                events'[k][Len(events[k]) + i] = Message(types[i], r)
  <1> DEFINE s == events[k]
             t == [i \in DOMAIN types |-> Message(types[i], r)]
  <1>1. s \in Seq(Event) /\ Len(s) \in Nat /\ DOMAIN s = 1 .. Len(s)
    BY LenProperties DEF AtStripe
  <1>2. Len(types) \in Nat /\ DOMAIN types = 1 .. Len(types)
    BY LenProperties
  <1>3. \A i \in 1 .. Len(types) : Message(types[i], r) \in Event
    <2>1. \A i \in 1 .. Len(types) : types[i] \in Types
      BY ElementOfSeq
    <2>2. QED
      BY <2>1 DEF Message, Event, Remote, Types
  <1>4. /\ t \in Seq(Event) /\ Len(t) = Len(types)
        /\ \A i \in 1 .. Len(types) : t[i] = Message(types[i], r)
    BY <1>2, <1>3
  <1>5. events' = [events EXCEPT ![k] = s \o t] /\ remote' = [remote EXCEPT ![k] = r]
    BY DEF Becomes, Sent, Message
  <1> HIDE DEF s, t
  <1>6. /\ s \o t \in Seq(Event)
        /\ Len(s \o t) = Len(s) + Len(t)
        /\ \A i \in 1 .. Len(s) + Len(t) :
              (s \o t)[i] = IF i <= Len(s) THEN s[i] ELSE t[i - Len(s)]
    BY <1>1, <1>4, ConcatProperties
  <1>7. DOMAIN (s \o t) = 1 .. Len(s \o t)
    BY <1>6, LenProperties
  <1>8. \A i \in DOMAIN s : (s \o t)[i] = s[i]
    BY <1>1, <1>2, <1>4, <1>6
  <1>9. ASSUME NEW i \in 1 .. Len(types)
        PROVE  (s \o t)[Len(s) + i] = Message(types[i], r)
    <2>1. Len(s) + i \in 1 .. Len(s) + Len(t) /\ ~(Len(s) + i <= Len(s))
          /\ Len(s) + i - Len(s) = i
      BY <1>1, <1>2, <1>4
    <2>2. QED
      BY <1>4, <1>6, <2>1
  <1> DEFINE u == s \o t
  <1>10. /\ u \in Seq(Event) /\ Len(u) = Len(s) + Len(types) /\ DOMAIN u = 1 .. Len(u)
         /\ \A i \in DOMAIN s : u[i] = s[i]
         /\ \A i \in 1 .. Len(types) : u[Len(s) + i] = Message(types[i], r)
         /\ events' = [events EXCEPT ![k] = u]
    BY <1>4, <1>5, <1>6, <1>7, <1>8, <1>9
  <1> HIDE DEF u
  <1>11. events'[k] = u /\ remote'[k] = r /\ AtStripe'
         /\ \A j \in Subs : j # k => remote'[j] = remote[j] /\ events'[j] = events[j]
    BY <1>5, <1>10 DEF AtStripe
  <1>12. QED
    BY <1>1, <1>10, <1>11 DEF s

\* What is left when the event of place i is taken.
LEMMA Taken ==
  ASSUME NEW S, NEW s \in Seq(S), NEW i \in DOMAIN s
  PROVE  LET t == RemoveAt(s, i)
         IN  /\ t \in Seq(S)
             /\ Len(s) \in Nat /\ Len(s) > 0
             /\ Len(t) = Len(s) - 1
             /\ DOMAIN t = 1 .. Len(s) - 1
             /\ \A j \in DOMAIN t : t[j] = IF j < i THEN s[j] ELSE s[j + 1]
  <1> DEFINE a == SubSeq(s, 1, i - 1)
             b == SubSeq(s, i + 1, Len(s))
  <1>1. Len(s) \in Nat /\ DOMAIN s = 1 .. Len(s) /\ i \in 1 .. Len(s)
        /\ \A j \in 1 .. Len(s) : s[j] \in S
    BY LenProperties, ElementOfSeq
  <1>2. /\ a \in Seq(S)
        /\ Len(a) = i - 1
        /\ \A j \in 1 .. i - 1 : a[j] = s[j]
    <2>1. \A j \in 1 .. i - 1 : s[j] \in S
      BY <1>1
    <2>2. /\ a \in Seq(S)
          /\ Len(a) = IF 1 <= i - 1 THEN (i - 1) - 1 + 1 ELSE 0
          /\ \A j \in 1 .. (i - 1) - 1 + 1 : a[j] = s[1 + j - 1]
      BY <1>1, <2>1, SubSeqProperties
    <2> HIDE DEF a
    <2>3. QED
      BY <1>1, <2>2
  <1>3. /\ b \in Seq(S)
        /\ Len(b) = Len(s) - i
        /\ \A j \in 1 .. Len(s) - i : b[j] = s[j + i]
    <2>1. \A j \in i + 1 .. Len(s) : s[j] \in S
      BY <1>1
    <2>2. /\ b \in Seq(S)
          /\ Len(b) = IF i + 1 <= Len(s) THEN Len(s) - (i + 1) + 1 ELSE 0
          /\ \A j \in 1 .. Len(s) - (i + 1) + 1 : b[j] = s[i + 1 + j - 1]
      BY <1>1, <2>1, SubSeqProperties
    <2> HIDE DEF b
    <2>3. \A j \in 1 .. Len(s) - i : b[j] = s[j + i]
      <3> SUFFICES ASSUME NEW j \in 1 .. Len(s) - i
                   PROVE  b[j] = s[j + i]
        OBVIOUS
      <3>1. Len(s) - (i + 1) + 1 = Len(s) - i /\ i + 1 + j - 1 = j + i
        BY <1>1
      <3>2. QED
        BY <2>2, <3>1
    <2>4. QED
      BY <1>1, <2>2, <2>3
  <1> HIDE DEF a, b
  <1>4. /\ a \o b \in Seq(S)
        /\ Len(a \o b) = Len(a) + Len(b)
        /\ \A j \in 1 .. Len(a) + Len(b) :
              (a \o b)[j] = IF j <= Len(a) THEN a[j] ELSE b[j - Len(a)]
    BY <1>2, <1>3, ConcatProperties
  <1>5. DOMAIN (a \o b) = 1 .. Len(a \o b)
    BY <1>4, LenProperties
  <1>6. RemoveAt(s, i) = a \o b
    BY DEF RemoveAt, a, b
  <1>7. Len(a \o b) = Len(s) - 1 /\ Len(a) + Len(b) = Len(s) - 1
    BY <1>1, <1>2, <1>3, <1>4
  <1>8. \A j \in 1 .. Len(s) - 1 : (a \o b)[j] = IF j < i THEN s[j] ELSE s[j + 1]
    <2> SUFFICES ASSUME NEW j \in 1 .. Len(s) - 1
                 PROVE  (a \o b)[j] = IF j < i THEN s[j] ELSE s[j + 1]
      OBVIOUS
    <2>1. (a \o b)[j] = IF j <= i - 1 THEN a[j] ELSE b[j - (i - 1)]
      BY <1>2, <1>4, <1>7
    <2>2. CASE j < i
      BY <1>1, <1>2, <2>1, <2>2
    <2>3. CASE ~(j < i)
      <3>1. j - (i - 1) \in 1 .. Len(s) - i /\ ~(j <= i - 1) /\ j - (i - 1) + i = j + 1
        BY <1>1, <2>3
      <3>2. QED
        BY <1>3, <2>1, <2>3, <3>1
    <2>4. QED
      BY <2>2, <2>3
  <1>9. DOMAIN (a \o b) = 1 .. Len(s) - 1 /\ Len(s) \in Nat /\ Len(s) > 0
    <2>1. Len(s) \in Nat /\ Len(s) > 0
      BY <1>1
    <2>2. DOMAIN (a \o b) = 1 .. Len(s) - 1
      BY <1>5, <1>7, Zenon
    <2>3. QED
      BY <2>1, <2>2
  <1>10. QED
    <2> DEFINE t == a \o b
    <2>1. t \in Seq(S) /\ Len(t) = Len(s) - 1 /\ DOMAIN t = 1 .. Len(s) - 1
          /\ \A j \in DOMAIN t : t[j] = IF j < i THEN s[j] ELSE s[j + 1]
      BY <1>4, <1>7, <1>8, <1>9
    <2> HIDE DEF t
    <2>2. QED
      BY <1>6, <1>9, <2>1 DEF t

\* What a save leaves of a document.
LEMMA SavedType ==
  ASSUME Documents, NEW k \in Subs, NEW new \in Doc, NEW paths \in SUBSET Paths
  PROVE  LET d == Saved(k, new, paths)
         IN  /\ d \in Doc
             /\ d.comp = sub[k].comp
             /\ d.status = IF "status" \in paths THEN new.status ELSE sub[k].status
             /\ d.ending = IF "ending" \in paths THEN new.ending ELSE sub[k].ending
             /\ d.plan = IF "plan" \in paths THEN new.plan ELSE sub[k].plan
             /\ d.pending = IF "pending" \in paths THEN new.pending ELSE sub[k].pending
  <1> DEFINE d == Saved(k, new, paths)
             old == sub[k]
             since == IF "since" \in paths THEN new.since
                      ELSE IF paths # {} /\ old.since = "lapsed" THEN "no" ELSE old.since
             pick(f) == IF f \in paths THEN new[f] ELSE old[f]
  <1>1. old \in Doc /\ DOMAIN old = {"status", "plan", "pending", "ending", "comp", "since"}
    BY DEF Documents, Doc
  <1>2. "comp" \notin paths
    BY DEF Paths
  <1>3. d = [f \in {"status", "plan", "pending", "ending", "comp", "since"} |->
               IF f \in paths THEN new[f]
               ELSE IF f = "since" /\ paths # {} /\ old.since = "lapsed" THEN "no" ELSE old[f]]
    BY <1>1 DEF Saved
  <1>4. /\ d["status"] = pick("status") /\ d["plan"] = pick("plan")
        /\ d["pending"] = pick("pending") /\ d["ending"] = pick("ending")
        /\ d["comp"] = old["comp"] /\ d["since"] = since
        /\ DOMAIN d = {"status", "plan", "pending", "ending", "comp", "since"}
    BY <1>2, <1>3
  <1>5. d = [status |-> pick("status"), plan |-> pick("plan"), pending |-> pick("pending"),
             ending |-> pick("ending"), comp |-> old.comp, since |-> since]
    BY <1>3, <1>4
  <1>6. since \in Since
    BY <1>1 DEF Doc, Since
  <1>7. /\ pick("status") \in {"none", "cancelled"} \cup Granting /\ pick("plan") \in Plans
        /\ pick("pending") \in Plans \cup {0} /\ pick("ending") \in BOOLEAN
        /\ old.comp \in BOOLEAN
    BY <1>1 DEF Doc
  <1>8. d \in Doc
    BY <1>5, <1>6, <1>7 DEF Doc
  <1>9. QED
    BY <1>4, <1>8

-----------------------------------------------------------------------------
(* What the steps have in common.                                           *)

\* A request that goes on, or is over, is about nothing else than before.
NoMore(q, j) ==
    /\ Hook(q, j)' => Hook(q, j) /\ (Activates(q)' <=> Activates(q))
    /\ Visitor(q, j)' => Visitor(q, j)
    /\ (j \in request[q].others)' => j \in request[q].others

LEMMA SaleStays ==
  ASSUME IInv, NEW j \in Subs, \A q \in Callers : NoMore(q, j),
         remote'[j] = remote[j], events'[j] = events[j],
         sub'[j].comp = sub[j].comp, Begun(j)' <=> Begun(j)
  PROVE  Sale(j)'
  <1>1. Sale(j)
    BY DEF IInv
  <1>2. Sold(j)' <=> Sold(j)
    BY DEF Sold
  <1>3. QED
    BY <1>1, <1>2 DEF Sale, NoMore, WellFormed

\* What Stripe makes of a subscription, and the events it sends then.
Announces(k, r, types) ==
    /\ r \in Remote /\ r.status \in {"canceled"} \cup Granting
    /\ \/ /\ remote[k].status = "open" /\ types = <<"completed">>
          /\ r.status = "active"
       \/ /\ remote[k].status \in Granting
          /\ types \in {<<"updated">>, <<"deleted">>, <<"updated", "failed">>,
                        <<"failed">>, <<"updated", "paid">>}
    /\ types = <<"deleted">> <=> r.status = "canceled"
    /\ types = <<"updated", "failed">> => r.status = "past_due"
    /\ types = <<"failed">> => r.status = "past_due" /\ remote[k].status = "past_due"
    /\ types = <<"updated", "paid">> => r.status = "active"
    /\ r.plan # remote[k].plan \/ r.ending # remote[k].ending => types = <<"updated">>
    /\ types = <<"updated">> => r.status = remote[k].status

Bulletins == {<<"completed">>, <<"updated">>, <<"deleted">>, <<"failed">>,
              <<"updated", "failed">>, <<"updated", "paid">>}

LEMMA BulletinTypes == \A types \in Bulletins : types \in Seq(Types) /\ Len(types) \in 1 .. 2
  <1>1. <<"completed">> \in Seq(Types) /\ Len(<<"completed">>) \in 1 .. 2
    BY DEF Types
  <1>2. <<"updated">> \in Seq(Types) /\ Len(<<"updated">>) \in 1 .. 2
    BY DEF Types
  <1>3. <<"deleted">> \in Seq(Types) /\ Len(<<"deleted">>) \in 1 .. 2
    BY DEF Types
  <1>4. <<"updated", "failed">> \in Seq(Types) /\ Len(<<"updated", "failed">>) \in 1 .. 2
    BY DEF Types
  <1>5. <<"updated", "paid">> \in Seq(Types) /\ Len(<<"updated", "paid">>) \in 1 .. 2
    BY DEF Types
  <1>6. <<"failed">> \in Seq(Types) /\ Len(<<"failed">>) \in 1 .. 2
    BY DEF Types
  <1>7. QED
    BY <1>1, <1>2, <1>3, <1>4, <1>5, <1>6 DEF Bulletins

LEMMA Announced ==
  ASSUME AtStripe, NEW k \in Subs, NEW r, NEW types, Announces(k, r, types), Becomes(k, r, types)
  PROVE  /\ AtStripe'
         /\ remote'[k] = r
         /\ \A j \in Subs : j # k => remote'[j] = remote[j] /\ events'[j] = events[j]
         /\ Len(events[k]) \in Nat
         /\ DOMAIN events[k] = 1 .. Len(events[k])
         /\ Len(types) \in 1 .. 2
         /\ Len(events'[k]) = Len(events[k]) + Len(types)
         /\ DOMAIN events'[k] = 1 .. Len(events'[k])
         /\ \A i \in DOMAIN events[k] : events'[k][i] = events[k][i]
         /\ \A i \in 1 .. Len(types) :
                events'[k][Len(events[k]) + i] = Message(types[i], r)
  <1>1. types \in Seq(Types) /\ Len(types) \in 1 .. 2
    <2>1. types \in Bulletins
      BY DEF Announces, Bulletins
    <2>2. QED
      BY <2>1, BulletinTypes
  <1>2. r \in Remote /\ r.status \in {"canceled"} \cup Granting
    BY DEF Announces
  <1>3. QED
    BY <1>1, <1>2, SentAfter

\* Each of the events is well formed.
LEMMA AnnouncedEvents ==
  ASSUME NEW k \in Subs, NEW r, NEW types, Announces(k, r, types), NEW i \in 1 .. Len(types)
  PROVE  WellFormed(Message(types[i], r))
  <1>1. CASE types \in {<<"completed">>, <<"updated">>, <<"deleted">>, <<"failed">>}
    BY <1>1 DEF Announces, WellFormed, Message, Granting
  <1>2. CASE types \in {<<"updated", "failed">>, <<"updated", "paid">>}
    BY <1>2 DEF Announces, WellFormed, Message, Granting
  <1>3. QED
    BY <1>1, <1>2 DEF Announces

LEMMA SaleAnnounced ==
  ASSUME IInv, NEW k \in Subs, NEW r, NEW types, Announces(k, r, types), Becomes(k, r, types),
         sub' = sub, \A q \in Callers, j \in Subs : NoMore(q, j)
  PROVE  Sales'
  <1>1. AtStripe /\ Sale(k)
    BY Parts DEF Sales
  <1>2. ASSUME NEW j \in Subs, j # k
        PROVE  Sale(j)'
    BY <1>1, <1>2, Announced, SaleStays DEF Begun
  <1>3. remote'[k] = r /\ r.status \notin {"none", "open"}
        /\ remote[k].status \notin {"none", "canceled"}
    BY <1>1, Announced DEF Announces, Granting
  <1>4. ASSUME NEW i \in DOMAIN events'[k]
        PROVE  /\ WellFormed(events'[k][i])
               /\ events'[k][i].status = "canceled" => r.status = "canceled"
    <2>1. CASE i \in DOMAIN events[k]
      BY <1>1, <1>3, <2>1, Announced DEF Sale
    <2>2. CASE i \notin DOMAIN events[k]
      <3> DEFINE n == Len(events[k])
      <3>1. i - n \in 1 .. Len(types) /\ n + (i - n) = i
        BY <1>1, <2>2, Announced
      <3>2. events'[k][i] = Message(types[i - n], r)
        BY <1>1, <3>1, Announced
      <3>3. QED
        BY <3>1, <3>2, AnnouncedEvents DEF Message
    <2>3. QED
      BY <2>1, <2>2
  <1>5. Sale(k)'
    BY <1>1, <1>3, <1>4 DEF Sale, NoMore, Sold, Begun, WellFormed
  <1>6. QED
    BY <1>2, <1>5 DEF Sales

\* What the four steps of Stripe's own have in common.
LEMMA StripeAnnounces ==
  ASSUME IInv, NEW k \in Subs,
         PayCheckout(k) \/ ChargeFails(k) \/ ChargePaid(k) \/ PeriodEndsAtStripe(k)
  PROVE  /\ \E r, types : Announces(k, r, types) /\ Becomes(k, r, types)
                            /\ types # <<"updated">>
         /\ UNCHANGED <<sub, request, begun, mishaps, tangles, history>>
         /\ invoices' \in 0 .. MaxInvoices
  <1>1. remote[k] \in Remote /\ invoices \in 0 .. MaxInvoices
    BY DEF IInv, TypeOK
  <1> DEFINE to(status) == [remote[k] EXCEPT !.status = status]
  <1>2. \A status \in {"canceled"} \cup Granting :
            /\ to(status) \in Remote /\ to(status).status = status
            /\ to(status).plan = remote[k].plan /\ to(status).ending = remote[k].ending
    BY <1>1 DEF Remote
  <1> HIDE DEF to
  <1>3. CASE PayCheckout(k)
    <2>1. Announces(k, to("active"), <<"completed">>)
      BY <1>2, <1>3 DEF PayCheckout, Announces, Granting
    <2>2. QED
      BY <1>1, <1>3, <2>1 DEF PayCheckout, bounds, to
  <1>4. CASE ChargeFails(k)
    <2>1. PICK types : /\ types \in {<<"updated", "failed">>, <<"failed">>}
                       /\ types = <<"failed">> => remote[k].status = "past_due"
                       /\ Becomes(k, to("past_due"), types)
      BY <1>1, <1>4, Zenon DEF ChargeFails, Granting, to
    <2>2. types # <<"updated">>
      BY <2>1
    <2>3. Announces(k, to("past_due"), types)
      BY <1>2, <1>4, <2>1 DEF ChargeFails, Announces, Granting
    <2>4. invoices' \in 0 .. MaxInvoices
      BY <1>1, <1>4, SubscriptionConstants DEF ChargeFails
    <2>5. QED
      BY <1>4, <2>1, <2>2, <2>3, <2>4 DEF ChargeFails
  <1>5. CASE ChargePaid(k)
    <2>1. Announces(k, to("active"), <<"updated", "paid">>)
      BY <1>2, <1>5 DEF ChargePaid, Announces, Granting
    <2>2. invoices' \in 0 .. MaxInvoices
      BY <1>1, <1>5, SubscriptionConstants DEF ChargePaid
    <2>3. QED
      BY <1>5, <2>1, <2>2 DEF ChargePaid, to
  <1>6. CASE PeriodEndsAtStripe(k)
    <2>1. Announces(k, to("canceled"), <<"deleted">>)
      BY <1>2, <1>6 DEF PeriodEndsAtStripe, Announces, Granting
    <2>2. QED
      BY <1>1, <1>6, <2>1 DEF PeriodEndsAtStripe, bounds, to
  <1>7. QED
    BY <1>3, <1>4, <1>5, <1>6

LEMMA StripeKeeps ==
  ASSUME IInv, NEW k \in Subs,
         PayCheckout(k) \/ ChargeFails(k) \/ ChargePaid(k) \/ PeriodEndsAtStripe(k)
  PROVE  IInv'
  <1>1. PICK r, types : Announces(k, r, types) /\ Becomes(k, r, types)
    BY StripeAnnounces
  <1>2. UNCHANGED <<sub, request, begun, mishaps, tangles, history>>
        /\ invoices' \in 0 .. MaxInvoices
    BY StripeAnnounces
  <1>3. Requests /\ Counts /\ AtStripe /\ Documents
    BY Parts
  <1>4. \A q \in Callers, j \in Subs : NoMore(q, j)
    BY <1>2 DEF NoMore, Hook, Visitor, Activates
  <1>5. Sales'
    BY <1>1, <1>2, <1>4, SaleAnnounced
  <1>6. AtStripe'
    BY <1>1, <1>3, Announced
  <1>7. Requests' /\ Counts' /\ Documents'
    BY <1>2, <1>3 DEF Requests, Counts, Documents, Sound, history
  <1>8. QED
    BY <1>5, <1>6, <1>7, Parts DEF IInv, TypeOK, Requests, Counts, AtStripe, Documents, Sales

LEMMA PartsNext == Requests' /\ Counts' /\ AtStripe' /\ Documents' /\ Sales' => IInv'
  BY DEF IInv, TypeOK, Requests, Counts, AtStripe, Documents, Sales

LEMMA TimeKeeps ==
  ASSUME IInv, TimePasses
  PROVE  /\ IInv'
         /\ UNCHANGED <<remote, events, request, bounds, history>>
         /\ \A k \in Subs : /\ sub'[k].status = sub[k].status /\ sub'[k].plan = sub[k].plan
                            /\ sub'[k].ending = sub[k].ending /\ sub'[k].comp = sub[k].comp
                            /\ sub'[k].pending = sub[k].pending
  <1>1. Requests /\ Counts /\ AtStripe /\ Documents /\ Sales
    BY Parts
  <1>2. UNCHANGED <<remote, events, request, bounds, history>>
    BY DEF TimePasses
  <1> DEFINE since(k) == IF sub[k].since = "fresh" THEN "old"
                         ELSE IF sub[k].since = "no" /\ sub[k].status = "past_due"
                              THEN "lapsed" ELSE sub[k].since
  <1>3. sub' = [k \in Subs |-> [sub[k] EXCEPT !.since = since(k)]]
    BY DEF TimePasses
  <1>4. \A k \in Subs : since(k) \in Since
    BY <1>1 DEF Documents, Doc, Since
  <1> HIDE DEF since
  <1>5. \A k \in Subs : /\ sub'[k] = [sub[k] EXCEPT !.since = since(k)]
                        /\ sub'[k] \in Doc
    BY <1>1, <1>3, <1>4 DEF Documents, Doc
  <1>6. \A k \in Subs : /\ sub'[k].status = sub[k].status /\ sub'[k].plan = sub[k].plan
                        /\ sub'[k].ending = sub[k].ending /\ sub'[k].comp = sub[k].comp
                        /\ sub'[k].pending = sub[k].pending
    BY <1>1, <1>5 DEF Documents, Doc
  <1>7. Documents'
    BY <1>3, <1>5 DEF Documents
  <1>8. Requests' /\ Counts' /\ AtStripe'
    BY <1>1, <1>2 DEF Requests, Counts, AtStripe, Sound, bounds, history
  <1>9. \A q \in Callers, j \in Subs : NoMore(q, j)
    BY <1>2 DEF NoMore, Hook, Visitor, Activates
  <1>10. Sales'
    BY <1>1, <1>2, <1>6, <1>9, SaleStays DEF Sales, Begun
  <1>11. QED
    BY <1>2, <1>6, <1>7, <1>8, <1>10, PartsNext

LEMMA CheckoutKeeps ==
  ASSUME IInv, NEW k \in Subs, NEW plan \in Plans, Checkout(k, plan)
  PROVE  /\ IInv'
         /\ UNCHANGED <<sub, events, request, invoices, mishaps, tangles, history>>
         /\ remote' = [remote EXCEPT ![k].status = "open", ![k].plan = plan]
         /\ remote[k].status = "none" /\ sub[k].status = "none"
         /\ remote'[k].status = "open" /\ remote'[k].ending = remote[k].ending
         /\ \A j \in Subs : j # k => remote'[j] = remote[j]
  <1>1. Requests /\ Counts /\ AtStripe /\ Documents /\ Sales
    BY Parts
  <1>2. /\ UNCHANGED <<sub, events, request, invoices, mishaps, tangles, history>>
        /\ remote' = [remote EXCEPT ![k].status = "open", ![k].plan = plan]
        /\ begun' = begun + 1 /\ begun < MaxRequests
        /\ remote[k].status = "none" /\ sub[k].status = "none"
    BY DEF Checkout, IsNext, Unused
  <1>3. /\ AtStripe'
        /\ remote'[k].status = "open" /\ remote'[k].ending = remote[k].ending
        /\ \A j \in Subs : j # k => remote'[j] = remote[j]
    BY <1>1, <1>2 DEF AtStripe, Remote
  <1>4. Requests' /\ Counts' /\ Documents'
    BY <1>1, <1>2, SubscriptionConstants DEF Requests, Counts, Documents, Sound, history
  <1>5. \A q \in Callers, j \in Subs : NoMore(q, j)
    BY <1>2 DEF NoMore, Hook, Visitor, Activates
  <1>6. ASSUME NEW j \in Subs, j # k
        PROVE  Sale(j)'
    BY <1>2, <1>3, <1>5, <1>6, SaleStays DEF Begun
  <1>7. Sale(k)'
    BY <1>1, <1>2, <1>3, <1>5 DEF Sales, Sale, NoMore, Sold, Begun, WellFormed
  <1>8. QED
    BY <1>2, <1>3, <1>4, <1>6, <1>7, PartsNext DEF Sales

-----------------------------------------------------------------------------
(* Requests and jobs that begin.                                            *)

\* What a request asks for: one about a subscription that has begun, which ends it, if
\* at all, at Stripe first, or a complimentary plan.
Asked(r) ==
    /\ r \in Request /\ Sound(r) /\ r.todo # <<>>
    /\ r.by \in {"person", "job"} /\ r.others = {}
    /\ r.id = 0 => r.todo = <<"others">>
    /\ r.id # 0 =>
        /\ r.id \in Subs /\ Begun(r.id) /\ r.todo \notin Activation
        /\ "status" \in r.paths =>
            r.new.status = "cancelled" /\ (sub[r.id].comp \/ r.todo = <<"cancel", "save">>)
        /\ r.ending = r.new.ending
        /\ "ending" \in r.paths /\ ~sub[r.id].comp =>
            r.todo \in {<<"change", "save">>, <<"ending", "save">>,
                        <<"price", "ending", "save">>}

LEMMA AskedAbout ==
  ASSUME IInv, NEW k \in Subs, Begun(k), NEW by \in {"person", "job"}, NEW new \in Doc,
         NEW todo \in Todos \ (Activation \cup {<<>>}),
         new.status # sub[k].status =>
            new.status = "cancelled" /\ (sub[k].comp \/ todo = <<"cancel", "save">>),
         new.ending # sub[k].ending /\ ~sub[k].comp =>
            todo \in {<<"change", "save">>, <<"ending", "save">>, <<"price", "ending", "save">>}
  PROVE  Asked(About(k, by, new, todo))
  <1> DEFINE r == About(k, by, new, todo)
  <1>1. /\ r \in Request /\ Sound(r)
        /\ r.todo = todo /\ r.by = by /\ r.id = k /\ r.new = new
        /\ r.paths = {f \in Paths : new[f] # sub[k][f]}
        /\ r.ending = new.ending /\ r.others = {}
    BY AboutType
  <1>2. k # 0
    BY DEF Subs
  <1>3. /\ "status" \in r.paths => new.status # sub[k].status
        /\ "ending" \in r.paths => new.ending # sub[k].ending
    BY <1>1
  <1>4. QED
    BY <1>1, <1>2, <1>3 DEF Asked

LEMMA TodoKinds ==
  /\ {<<"save">>, <<"cancel", "save">>, <<"change", "save">>, <<"ending", "save">>,
      <<"price", "save">>, <<"price", "ending", "save">>} \subseteq Todos
  /\ \A t \in {<<"save">>, <<"cancel", "save">>, <<"change", "save">>, <<"ending", "save">>,
               <<"price", "save">>, <<"price", "ending", "save">>} :
        t \in Todos \ (Activation \cup {<<>>})
  BY TodoSteps DEF Todos

LEMMA GrantsBegun ==
  ASSUME IInv, NEW k \in Subs
  PROVE  /\ sub[k] \in Doc
         /\ Grants(k) => Begun(k)
         /\ sub[k].status = "past_due" => Begun(k)
         /\ sub[k].status = "active" => Begun(k)
  BY Parts DEF Documents, Grants, Granting, Begun

LEMMA ChangePlanAsks ==
  ASSUME IInv, NEW p \in Callers, ChangePlan(p)
  PROVE  \E r : Asked(r) /\ Begin(p, r)
  <1>1. PICK k \in Subs, plan \in Plans :
            LET new == IF plan > sub[k].plan
                       THEN [sub[k] EXCEPT !.plan = plan, !.pending = 0, !.ending = FALSE]
                       ELSE [sub[k] EXCEPT !.pending = plan, !.ending = FALSE]
            IN  /\ Grants(k)
                /\ Begin(p, [About(k, "person", new, <<"change", "save">>) EXCEPT !.plan = plan])
    BY DEF ChangePlan
  <1> DEFINE new == IF plan > sub[k].plan
                    THEN [sub[k] EXCEPT !.plan = plan, !.pending = 0, !.ending = FALSE]
                    ELSE [sub[k] EXCEPT !.pending = plan, !.ending = FALSE]
             a == About(k, "person", new, <<"change", "save">>)
  <1>2. new \in Doc /\ new.status = sub[k].status
    <2>1. sub[k] \in Doc
      BY GrantsBegun
    <2>2. [sub[k] EXCEPT !.plan = plan, !.pending = 0, !.ending = FALSE] \in Doc
          /\ [sub[k] EXCEPT !.plan = plan, !.pending = 0, !.ending = FALSE].status
                = sub[k].status
      BY <2>1 DEF Doc
    <2>3. [sub[k] EXCEPT !.pending = plan, !.ending = FALSE] \in Doc
          /\ [sub[k] EXCEPT !.pending = plan, !.ending = FALSE].status = sub[k].status
      BY <2>1 DEF Doc
    <2>4. QED
      BY <2>2, <2>3
  <1> HIDE DEF new
  <1>3. Asked(a)
    BY <1>1, <1>2, GrantsBegun, AskedAbout, TodoKinds
  <1> DEFINE r == [a EXCEPT !.plan = plan]
  <1> HIDE DEF a
  <1>4. /\ r \in Request /\ r.todo = a.todo /\ r.by = a.by /\ r.id = a.id /\ r.new = a.new
        /\ r.paths = a.paths /\ r.others = a.others /\ r.ending = a.ending /\ r.other = a.other
    BY <1>3 DEF Asked, Request
  <1> HIDE DEF r
  <1>5. Sound(r)
    BY <1>3, <1>4 DEF Sound, Asked
  <1>6. Asked(r)
    BY <1>3, <1>4, <1>5 DEF Asked
  <1>7. QED
    BY <1>1, <1>6 DEF r, a, new

LEMMA CancelAsks ==
  ASSUME IInv, NEW p \in Callers, Cancel(p)
  PROVE  \E r : Asked(r) /\ Begin(p, r)
  <1>1. PICK k \in Subs : \E pending \in {0, sub[k].pending} :
            /\ Grants(k)
            /\ Begin(p, About(k, "person", [sub[k] EXCEPT !.ending = TRUE, !.pending = pending],
                              IF sub[k].comp THEN <<"save">> ELSE <<"ending", "save">>))
    BY DEF Cancel
  <1>2. PICK pending \in {0, sub[k].pending} :
            /\ Grants(k)
            /\ Begin(p, About(k, "person", [sub[k] EXCEPT !.ending = TRUE, !.pending = pending],
                              IF sub[k].comp THEN <<"save">> ELSE <<"ending", "save">>))
    BY <1>1
  <1> DEFINE new == [sub[k] EXCEPT !.ending = TRUE, !.pending = pending]
             todo == IF sub[k].comp THEN <<"save">> ELSE <<"ending", "save">>
  <1>3. new \in Doc /\ new.status = sub[k].status /\ Begun(k)
    BY <1>2, GrantsBegun DEF Doc
  <1> HIDE DEF new
  <1>4. Asked(About(k, "person", new, todo))
    BY <1>3, AskedAbout, TodoKinds
  <1>5. QED
    BY <1>2, <1>4 DEF new

LEMMA ResumeAsks ==
  ASSUME IInv, NEW p \in Callers, Resume(p)
  PROVE  \E r : Asked(r) /\ Begin(p, r)
  <1>1. PICK k \in Subs :
            /\ Grants(k)
            /\ Begin(p, About(k, "person", [sub[k] EXCEPT !.ending = FALSE, !.pending = 0],
                              IF sub[k].comp THEN <<"save">>
                              ELSE IF sub[k].pending # 0 THEN <<"price", "ending", "save">>
                              ELSE <<"ending", "save">>))
    BY DEF Resume
  <1> DEFINE new == [sub[k] EXCEPT !.ending = FALSE, !.pending = 0]
             todo == IF sub[k].comp THEN <<"save">>
                     ELSE IF sub[k].pending # 0 THEN <<"price", "ending", "save">>
                     ELSE <<"ending", "save">>
  <1>2. new \in Doc /\ new.status = sub[k].status /\ Begun(k)
    BY <1>1, GrantsBegun DEF Doc
  <1> HIDE DEF new
  <1>3. Asked(About(k, "person", new, todo))
    BY <1>2, AskedAbout, TodoKinds
  <1>4. QED
    BY <1>1, <1>3 DEF new

LEMMA SetPlanAsks ==
  ASSUME IInv, NEW p \in Callers, SetPlan(p)
  PROVE  \E r : Asked(r) /\ Begin(p, r)
  <1>1. CASE \E k \in Subs, plan \in Plans :
                /\ Grants(k) /\ ~sub[k].comp
                /\ Begin(p, About(k, "person", [sub[k] EXCEPT !.plan = plan, !.pending = 0],
                                  <<"price", "save">>))
    <2>1. PICK k \in Subs, plan \in Plans :
                /\ Grants(k) /\ ~sub[k].comp
                /\ Begin(p, About(k, "person", [sub[k] EXCEPT !.plan = plan, !.pending = 0],
                                  <<"price", "save">>))
      BY <1>1
    <2> DEFINE new == [sub[k] EXCEPT !.plan = plan, !.pending = 0]
    <2>2. new \in Doc /\ new.status = sub[k].status /\ new.ending = sub[k].ending /\ Begun(k)
      BY <2>1, GrantsBegun DEF Doc
    <2> HIDE DEF new
    <2>3. Asked(About(k, "person", new, <<"price", "save">>))
      BY <2>2, AskedAbout, TodoKinds
    <2>4. QED
      BY <2>1, <2>3 DEF new
  <1>2. CASE \E plan \in Plans :
                Begin(p, [Idle EXCEPT !.todo = <<"others">>, !.by = "person",
                                !.new = [NoDoc EXCEPT !.status = "active", !.plan = plan,
                                                      !.comp = TRUE]])
    <2>1. PICK plan \in Plans :
                Begin(p, [Idle EXCEPT !.todo = <<"others">>, !.by = "person",
                                !.new = [NoDoc EXCEPT !.status = "active", !.plan = plan,
                                                      !.comp = TRUE]])
      BY <1>2
    <2> DEFINE new == [NoDoc EXCEPT !.status = "active", !.plan = plan, !.comp = TRUE]
               r == [Idle EXCEPT !.todo = <<"others">>, !.by = "person", !.new = new]
    <2>2. new \in Doc /\ new.status = "active" /\ new.comp
      BY DEF NoDoc, Doc, Granting, Plans, Since
    <2> HIDE DEF new
    <2>3. r \in Request /\ r.todo = <<"others">> /\ r.by = "person" /\ r.id = 0
          /\ r.others = {} /\ r.new = new
      <3>1. <<"others">> \in Seq(Steps)
        BY DEF Steps
      <3>2. QED
        BY <2>2, <3>1, IdleType DEF Request
    <2> HIDE DEF r
    <2>4. Sound(r) /\ r.todo # <<>>
      BY <2>2, <2>3 DEF Sound, Todos, Activation
    <2>5. Asked(r)
      BY <2>3, <2>4 DEF Asked
    <2>6. QED
      BY <2>1, <2>5 DEF r, new
  <1>3. QED
    BY <1>1, <1>2 DEF SetPlan

LEMMA EndsNowAsks ==
  ASSUME IInv, NEW p \in Callers, NEW by \in {"person", "job"}, NEW k \in Subs, Begun(k),
         EndsNow(p, by, k)
  PROVE  \E r : Asked(r) /\ Begin(p, r)
  <1> DEFINE new == [sub[k] EXCEPT !.status = "cancelled"]
             todo == IF sub[k].comp THEN <<"save">> ELSE <<"cancel", "save">>
  <1>1. new \in Doc /\ new.status = "cancelled" /\ new.ending = sub[k].ending
    BY GrantsBegun DEF Doc
  <1> HIDE DEF new
  <1>2. Asked(About(k, by, new, todo))
    BY <1>1, AskedAbout, TodoKinds
  <1>3. QED
    BY <1>2 DEF EndsNow, new

LEMMA PeriodEndsAsks ==
  ASSUME IInv, NEW p \in Callers, PeriodEnds(p)
  PROVE  \E r : Asked(r) /\ Begin(p, r)
  <1>1. PICK k \in Subs :
        /\ sub[k].status = "active"
        /\ IF sub[k].comp THEN EndsNow(p, "job", k)
           ELSE /\ Due(k)
                /\ Begin(p, About(k, "job", [sub[k] EXCEPT !.plan = sub[k].pending, !.pending = 0],
                               <<"save">>))
    BY DEF PeriodEnds
  <1>2. Begun(k)
    BY <1>1, GrantsBegun
  <1>3. CASE sub[k].comp
    BY <1>1, <1>2, <1>3, EndsNowAsks
  <1>4. CASE ~sub[k].comp
    <2> DEFINE new == [sub[k] EXCEPT !.plan = sub[k].pending, !.pending = 0]
    <2>1. sub[k] \in Doc /\ sub[k].pending \in Plans
      BY <1>1, <1>4, GrantsBegun DEF Due, Doc
    <2>2. new \in Doc /\ new.status = sub[k].status /\ new.ending = sub[k].ending
      BY <2>1 DEF Doc
    <2> HIDE DEF new
    <2>3. Asked(About(k, "job", new, <<"save">>))
      BY <1>2, <2>2, AskedAbout, TodoKinds
    <2>4. QED
      BY <1>1, <1>4, <2>3 DEF new
  <1>5. QED
    BY <1>3, <1>4

LEMMA AskAsks ==
  ASSUME IInv, NEW p \in Callers, Ask(p)
  PROVE  \E r : Asked(r) /\ Begin(p, r)
  <1>1. CASE AdminEnds(p)
    BY <1>1, GrantsBegun, EndsNowAsks DEF AdminEnds
  <1>2. CASE EndUnpaid(p)
    BY <1>2, GrantsBegun, EndsNowAsks DEF EndUnpaid
  <1>3. QED
    BY <1>1, <1>2, ChangePlanAsks, CancelAsks, ResumeAsks, SetPlanAsks, PeriodEndsAsks DEF Ask

LEMMA AskKeeps ==
  ASSUME IInv, NEW p \in Callers, NEW r, Asked(r), Begin(p, r)
  PROVE  IInv'
  <1>1. /\ Requests' /\ Counts' /\ request'[p] = r
        /\ \A q \in Callers : q # p => request'[q] = request[q]
        /\ UNCHANGED <<remote, sub, events>>
    BY BeginKeeps DEF Asked
  <1>2. AtStripe' /\ Documents'
    BY <1>1, Parts DEF AtStripe, Documents
  <1>3. ASSUME NEW j \in Subs
        PROVE  Sale(j)'
    <2>1. Sale(j) /\ (Begun(j)' <=> Begun(j)) /\ (Sold(j)' <=> Sold(j))
      BY <1>1 DEF IInv, Begun, Sold
    <2>2. ASSUME NEW q \in Callers, q # p
          PROVE  NoMore(q, j)
      BY <1>1, <2>2 DEF NoMore, Hook, Visitor, Activates
    <2>3. j # 0
      BY DEF Subs
    <2>4. ~Hook(p, j)' /\ (Visitor(p, j)' => Begun(j)) /\ (j \notin request[p].others)'
      BY <1>1, <2>3 DEF Hook, Visitor, Asked
    <2>5. QED
      BY <1>1, <2>1, <2>2, <2>4 DEF Sale, NoMore, WellFormed
  <1>4. QED
    BY <1>1, <1>2, <1>3, PartsNext DEF Sales

-----------------------------------------------------------------------------
(* Calls to Stripe.                                                         *)

LEMMA Visits ==
  ASSUME IInv, NEW p \in Callers, NEW step \in {"price", "ending", "change", "cancel"}, At(p, step)
  PROVE  /\ request[p] \in Request /\ Sound(request[p])
         /\ request[p].id \in Subs /\ request[p].todo \notin Activation
         /\ Visitor(p, request[p].id) /\ Begun(request[p].id)
  <1>1. /\ request[p] \in Request /\ Sound(request[p])
        /\ request[p].todo \in {<<"cancel", "save">>, <<"change", "save">>, <<"ending", "save">>,
                                <<"price", "save">>, <<"price", "ending", "save">>}
    BY AtStep
  <1>2. request[p].todo \notin Activation \cup {<<>>, <<"save">>}
    BY <1>1, TodoSteps
  <1>3. request[p].id \in Subs /\ request[p].by \in {"person", "job"}
    BY <1>1, <1>2 DEF Sound, Request
  <1>4. Visitor(p, request[p].id)
    BY <1>3 DEF Visitor
  <1>5. QED
    BY <1>1, <1>2, <1>3, <1>4 DEF IInv, Sale

\* A caller that goes on with what it has to do, or is done.
LEMMA GoesOn ==
  ASSUME IInv, NEW p \in Callers, \A q \in Callers : q # p => request'[q] = request[q],
         \/ request'[p] = Idle
         \/ /\ request'[p].id = request[p].id /\ request'[p].by = request[p].by
            /\ request'[p].others \subseteq request[p].others
            /\ request'[p].todo \in Activation <=> request[p].todo \in Activation
  PROVE  \A q \in Callers, j \in Subs : NoMore(q, j)
  <1>1. ASSUME NEW q \in Callers, NEW j \in Subs, q # p
        PROVE  NoMore(q, j)
    BY <1>1 DEF NoMore, Hook, Visitor, Activates
  <1>2. ASSUME NEW j \in Subs, request'[p] = Idle
        PROVE  NoMore(p, j)
    BY <1>2, IdleType DEF NoMore, Hook, Visitor
  <1>3. ASSUME NEW j \in Subs, request'[p] # Idle
        PROVE  NoMore(p, j)
    BY <1>3 DEF NoMore, Hook, Visitor, Activates
  <1>4. QED
    BY <1>1, <1>2, <1>3

LEMMA UpdateActs ==
  ASSUME IInv, NEW p \in Callers, UpdateStripe(p)
  PROVE  LET r == request[p]
             k == r.id
         IN  /\ k \in Subs /\ Visitor(p, k) /\ Begun(k) /\ r \in Request /\ Sound(r)
             /\ Requests' /\ UNCHANGED <<sub, bounds, history>>
             /\ \A q \in Callers : q # p => request'[q] = request[q]
             /\ \A q \in Callers, j \in Subs : NoMore(q, j)
             /\ \/ /\ remote[k].status \notin Granting
                   /\ request'[p] = Idle /\ UNCHANGED <<remote, events>>
                \/ /\ remote[k].status \in Granting
                   /\ \E step \in {"price", "ending", "change"}, to \in Remote :
                        /\ At(p, step)
                        /\ Announces(k, to, <<"updated">>) /\ Becomes(k, to, <<"updated">>)
                        /\ to.status = remote[k].status
                        /\ to.plan = IF step = "ending" THEN remote[k].plan ELSE r.plan
                        /\ to.ending = IF step = "price" THEN remote[k].ending ELSE r.ending
                        /\ request'[p] = [r EXCEPT !.todo =
                              IF r.todo = <<"price", "ending", "save">>
                              THEN <<"ending", "save">> ELSE <<"save">>]
  <1> DEFINE r == request[p]
             k == r.id
             next == IF r.todo = <<"price", "ending", "save">>
                     THEN <<"ending", "save">> ELSE <<"save">>
  <1>1. PICK step \in {"price", "ending", "change"} :
        /\ At(p, step)
        /\ IF remote[k].status \in Granting
           THEN /\ Becomes(k, [remote[k] EXCEPT
                             !.plan = IF step = "ending" THEN @ ELSE r.plan,
                             !.ending = IF step = "price" THEN @ ELSE r.ending], <<"updated">>)
                /\ Advance(p)
           ELSE Turn(p, Idle) /\ UNCHANGED <<remote, events>>
        /\ UNCHANGED <<sub, bounds, history>>
    BY DEF UpdateStripe
  <1>2. k \in Subs /\ Visitor(p, k) /\ Begun(k) /\ r \in Request /\ Sound(r)
        /\ r.todo \notin Activation
    BY <1>1, Visits
  <1>3. CASE remote[k].status \notin Granting
    <2>1. Turn(p, Idle) /\ UNCHANGED <<remote, events>>
      BY <1>1, <1>3
    <2>2. Requests' /\ request'[p] = Idle /\ \A q \in Callers : q # p => request'[q] = request[q]
      BY <2>1, IdleType, TurnKeeps
    <2>3. \A q \in Callers, j \in Subs : NoMore(q, j)
      BY <2>2, GoesOn
    <2>4. QED
      BY <1>1, <1>2, <1>3, <2>1, <2>2, <2>3
  <1>4. CASE remote[k].status \in Granting
    <2> DEFINE to == [remote[k] EXCEPT !.plan = IF step = "ending" THEN @ ELSE r.plan,
                                       !.ending = IF step = "price" THEN @ ELSE r.ending]
    <2>1. remote[k] \in Remote
      BY <1>2 DEF IInv, TypeOK
    <2>2. /\ to \in Remote /\ to.status = remote[k].status
          /\ to.plan = IF step = "ending" THEN remote[k].plan ELSE r.plan
          /\ to.ending = IF step = "price" THEN remote[k].ending ELSE r.ending
      BY <1>2, <2>1 DEF Remote, Request
    <2>3. Becomes(k, to, <<"updated">>) /\ Advance(p)
      BY <1>1, <1>4
    <2> HIDE DEF to
    <2>4. Announces(k, to, <<"updated">>)
      BY <1>4, <2>2 DEF Announces, Granting
    <2>5. step \in {"price", "ending", "change", "cancel", "save"} /\ step # "save"
      OBVIOUS
    <2>6. /\ Requests' /\ request'[p] = After(p)
          /\ After(p) = [r EXCEPT !.todo = next]
          /\ \A q \in Callers : q # p => request'[q] = request[q]
      BY <1>1, <2>3, <2>5, AdvanceKeeps
    <2>7. next \notin Activation
      BY TodoSteps
    <2>8. \A q \in Callers, j \in Subs : NoMore(q, j)
      <3>1. /\ request'[p].id = r.id /\ request'[p].by = r.by /\ request'[p].others = r.others
            /\ request'[p].todo = next
        BY <1>2, <2>6 DEF Request
      <3>2. QED
        BY <1>2, <2>6, <2>7, <3>1, GoesOn
    <2>9. QED
      BY <1>1, <1>2, <1>4, <2>2, <2>3, <2>4, <2>6, <2>8
  <1>5. QED
    BY <1>3, <1>4

LEMMA UpdateKeeps ==
  ASSUME IInv, NEW p \in Callers, UpdateStripe(p)
  PROVE  IInv'
  <1> DEFINE k == request[p].id
  <1>1. /\ k \in Subs /\ Requests' /\ UNCHANGED <<sub, bounds, history>>
        /\ \A q \in Callers, j \in Subs : NoMore(q, j)
        /\ \/ UNCHANGED <<remote, events>>
           \/ \E to : Announces(k, to, <<"updated">>) /\ Becomes(k, to, <<"updated">>)
    BY UpdateActs
  <1>2. Counts' /\ Documents'
    BY <1>1, Parts DEF Counts, Documents, bounds, history
  <1>3. AtStripe' /\ Sales'
    <2>1. CASE UNCHANGED <<remote, events>>
      BY <1>1, <2>1, Parts, SaleStays DEF AtStripe, Sales, Begun
    <2>2. CASE \E to : Announces(k, to, <<"updated">>) /\ Becomes(k, to, <<"updated">>)
      BY <1>1, <2>2, Parts, SaleAnnounced, Announced
    <2>3. QED
      BY <1>1, <2>1, <2>2
  <1>4. QED
    BY <1>1, <1>2, <1>3, PartsNext

LEMMA EndActs ==
  ASSUME IInv, NEW k \in Subs, TryToEnd(k)
  PROVE  /\ mishaps' \in 0 .. MaxMishaps /\ lost' \in BOOLEAN /\ (lost => lost')
         /\ \/ /\ \E to : Announces(k, to, <<"deleted">>) /\ Becomes(k, to, <<"deleted">>)
               /\ UNCHANGED <<mishaps, lost>>
            \/ /\ remote[k].status \notin Granting
               /\ UNCHANGED <<remote, events, mishaps, lost>>
            \/ lost' = TRUE /\ UNCHANGED <<remote, events>>
  <1>1. remote[k] \in Remote /\ mishaps \in 0 .. MaxMishaps /\ lost \in BOOLEAN
    BY DEF IInv, TypeOK
  <1> DEFINE to == [remote[k] EXCEPT !.status = "canceled"]
  <1>2. to \in Remote /\ to.status = "canceled" /\ to.plan = remote[k].plan
        /\ to.ending = remote[k].ending
    BY <1>1 DEF Remote
  <1> HIDE DEF to
  <1>3. CASE /\ remote[k].status \in Granting
             /\ Becomes(k, to, <<"deleted">>)
             /\ UNCHANGED <<mishaps, lost>>
    <2>1. Announces(k, to, <<"deleted">>)
      BY <1>2, <1>3 DEF Announces, Granting
    <2>2. QED
      BY <1>1, <1>3, <2>1
  <1>4. CASE /\ remote[k].status \notin Granting
             /\ UNCHANGED <<remote, events, mishaps, lost>>
    BY <1>1, <1>4
  <1>5. CASE /\ mishaps < MaxMishaps /\ mishaps' = mishaps + 1 /\ lost' = TRUE
             /\ UNCHANGED <<remote, events>>
    BY <1>1, <1>5, SubscriptionConstants
  <1>6. QED
    BY <1>3, <1>4, <1>5 DEF TryToEnd, to

\* A try to end one leaves the subscriptions and the documents sound.
LEMMA EndKeeps ==
  ASSUME IInv, NEW k \in Subs, TryToEnd(k), Requests',
         UNCHANGED <<sub, begun, invoices, tangles, overlapped, overtaken>>,
         \A q \in Callers, j \in Subs : NoMore(q, j)
  PROVE  IInv'
  <1>1. Counts' /\ Documents'
    BY EndActs, Parts DEF Counts, Documents
  <1>2. AtStripe' /\ Sales'
    <2>1. CASE UNCHANGED <<remote, events>>
      BY <2>1, Parts, SaleStays DEF AtStripe, Sales, Begun
    <2>2. CASE \E to : Announces(k, to, <<"deleted">>) /\ Becomes(k, to, <<"deleted">>)
      BY <2>2, Parts, SaleAnnounced, Announced
    <2>3. QED
      BY <2>1, <2>2, EndActs
  <1>3. QED
    BY <1>1, <1>2, PartsNext

LEMMA CancelActs ==
  ASSUME IInv, NEW p \in Callers, CancelStripe(p)
  PROVE  LET r == request[p]
             k == r.id
         IN  /\ k \in Subs /\ Visitor(p, k) /\ Begun(k) /\ r \in Request /\ Sound(r)
             /\ r.todo = <<"cancel", "save">>
             /\ Requests' /\ TryToEnd(k)
             /\ UNCHANGED <<sub, begun, invoices, tangles, overlapped, overtaken>>
             /\ \A q \in Callers : q # p => request'[q] = request[q]
             /\ \A q \in Callers, j \in Subs : NoMore(q, j)
             /\ request'[p] = [r EXCEPT !.todo = <<"save">>]
  <1> DEFINE r == request[p]
             k == r.id
  <1>1. At(p, "cancel") /\ TryToEnd(k) /\ Advance(p)
        /\ UNCHANGED <<sub, begun, invoices, tangles, overlapped, overtaken>>
    BY DEF CancelStripe
  <1>2. k \in Subs /\ Visitor(p, k) /\ Begun(k) /\ r \in Request /\ Sound(r)
        /\ r.todo \notin Activation
    BY <1>1, Visits
  <1>3. r.todo = <<"cancel", "save">>
    BY <1>1, AtStep
  <1>4. <<"cancel", "save">> # <<"price", "ending", "save">> /\ "cancel" # "save"
    BY TodoSteps
  <1>5. /\ Requests' /\ request'[p] = [r EXCEPT !.todo = <<"save">>]
        /\ \A q \in Callers : q # p => request'[q] = request[q]
    BY <1>1, <1>3, <1>4, AdvanceKeeps
  <1>6. /\ request'[p].id = r.id /\ request'[p].by = r.by /\ request'[p].others = r.others
        /\ request'[p].todo = <<"save">> /\ <<"save">> \notin Activation
    BY <1>2, <1>5, TodoSteps DEF Request
  <1>7. \A q \in Callers, j \in Subs : NoMore(q, j)
    BY <1>2, <1>5, <1>6, GoesOn
  <1>8. QED
    BY <1>1, <1>2, <1>3, <1>5, <1>7

LEMMA CancelKeeps ==
  ASSUME IInv, NEW p \in Callers, CancelStripe(p)
  PROVE  IInv'
  BY CancelActs, EndKeeps

-----------------------------------------------------------------------------
(* Saves.                                                                   *)

LEMMA SaveActs ==
  ASSUME IInv, NEW p \in Callers, Save(p)
  PROVE  LET r == request[p]
             k == r.id
         IN  /\ k \in Subs /\ Begun(k) /\ r \in Request /\ Sound(r) /\ r.todo = <<"save">>
             /\ r.by \in {"person", "job", "hook"}
             /\ Requests' /\ Documents' /\ UNCHANGED <<remote, events, bounds, history>>
             /\ request'[p] = Idle
             /\ \A q \in Callers : q # p => request'[q] = request[q]
             /\ \A q \in Callers, j \in Subs : NoMore(q, j)
             /\ \A j \in Subs : j # k => sub'[j] = sub[j]
             /\ sub'[k].status # "none" /\ sub'[k].comp = sub[k].comp
             /\ sub'[k].status = IF "status" \in r.paths THEN r.new.status ELSE sub[k].status
             /\ sub'[k].ending = IF "ending" \in r.paths THEN r.new.ending ELSE sub[k].ending
             /\ sub'[k].plan = IF "plan" \in r.paths THEN r.new.plan ELSE sub[k].plan
             /\ sub'[k].pending = IF "pending" \in r.paths THEN r.new.pending ELSE sub[k].pending
  <1> DEFINE r == request[p]
             k == r.id
             d == Saved(k, r.new, r.paths)
  <1>1. At(p, "save") /\ sub' = [sub EXCEPT ![k] = d] /\ Advance(p)
        /\ UNCHANGED <<remote, events, bounds, history>>
    BY DEF Save
  <1>2. r \in Request /\ Sound(r) /\ r.todo = <<"save">>
    BY <1>1, AtStep
  <1>3. r.todo \notin Activation \cup {<<>>}
    BY <1>2, TodoSteps
  <1>4. k \in Subs /\ r.by \in {"person", "job", "hook"}
    BY <1>2, <1>3 DEF Sound, Request
  <1>5. Begun(k)
    BY <1>3, <1>4 DEF IInv, Sale, Hook, Visitor, Activates
  <1>6. Documents /\ r.new \in Doc /\ r.paths \in SUBSET Paths
    BY <1>2, Parts DEF Request
  <1> HIDE DEF d
  <1>7. /\ d \in Doc
        /\ d.comp = sub[k].comp
        /\ d.status = IF "status" \in r.paths THEN r.new.status ELSE sub[k].status
        /\ d.ending = IF "ending" \in r.paths THEN r.new.ending ELSE sub[k].ending
        /\ d.plan = IF "plan" \in r.paths THEN r.new.plan ELSE sub[k].plan
        /\ d.pending = IF "pending" \in r.paths THEN r.new.pending ELSE sub[k].pending
    BY <1>4, <1>6, SavedType DEF d
  <1>8. sub'[k] = d /\ Documents' /\ \A j \in Subs : j # k => sub'[j] = sub[j]
    BY <1>1, <1>4, <1>6, <1>7 DEF Documents
  <1>9. d.status # "none"
    BY <1>2, <1>3, <1>4, <1>5, <1>7 DEF Sound, Begun
  <1>10. Requests' /\ request'[p] = Idle /\ \A q \in Callers : q # p => request'[q] = request[q]
    BY <1>1, AdvanceKeeps
  <1>11. \A q \in Callers, j \in Subs : NoMore(q, j)
    BY <1>10, GoesOn
  <1>12. QED
    BY <1>1, <1>2, <1>4, <1>5, <1>7, <1>8, <1>9, <1>10, <1>11 DEF Begun

LEMMA SaveKeeps ==
  ASSUME IInv, NEW p \in Callers, Save(p)
  PROVE  IInv'
  <1>1. Counts' /\ AtStripe'
    BY SaveActs, Parts DEF Counts, AtStripe, bounds, history
  <1>2. ASSUME NEW j \in Subs
        PROVE  Sale(j)'
    <2>1. /\ remote'[j] = remote[j] /\ events'[j] = events[j] /\ sub'[j].comp = sub[j].comp
          /\ \A q \in Callers : NoMore(q, j)
      BY SaveActs
    <2>2. Begun(j)' <=> Begun(j)
      BY SaveActs DEF Begun
    <2>3. QED
      BY <2>1, <2>2, SaleStays
  <1>3. QED
    BY <1>1, <1>2, SaveActs, PartsNext DEF Sales

LEMMA DieActs ==
  ASSUME IInv, NEW p \in Callers, Die(p)
  PROVE  /\ Requests' /\ Counts' /\ request'[p] = Idle
         /\ \A q \in Callers : q # p => request'[q] = request[q]
         /\ \A q \in Callers, j \in Subs : NoMore(q, j)
         /\ UNCHANGED <<remote, sub, events, begun, invoices, tangles, overlapped, overtaken>>
         /\ mishaps' = mishaps + 1
         /\ (lost => lost') /\ (request[p].by = "hook" => lost')
  <1>1. /\ Turn(p, Idle) /\ mishaps < MaxMishaps /\ mishaps' = mishaps + 1
        /\ lost' = (lost \/ request[p].by = "hook")
        /\ UNCHANGED <<remote, sub, events, begun, invoices, tangles, overlapped, overtaken>>
    BY DEF Die
  <1>2. Requests' /\ request'[p] = Idle /\ \A q \in Callers : q # p => request'[q] = request[q]
    BY <1>1, IdleType, TurnKeeps
  <1>3. \A q \in Callers, j \in Subs : NoMore(q, j)
    BY <1>2, GoesOn
  <1>4. Counts'
    BY <1>1, Parts, SubscriptionConstants DEF Counts
  <1>5. QED
    BY <1>1, <1>2, <1>3, <1>4

LEMMA DieKeeps ==
  ASSUME IInv, NEW p \in Callers, Die(p)
  PROVE  IInv'
  BY DieActs, Parts, SaleStays, PartsNext DEF AtStripe, Documents, Sales, Begun

-----------------------------------------------------------------------------
(* Deliveries.                                                              *)

\* What an event other than the first makes of a document.
LEMMA AppliedType ==
  ASSUME IInv, NEW k \in Subs, NEW e \in Event, e.type # "completed"
  PROVE  LET d == Applied(k, e)
         IN  /\ d \in Doc
             /\ d.status = IF e.type = "updated" THEN Mapped(e.status)
                           ELSE IF e.type = "deleted" THEN "cancelled"
                           ELSE IF e.type = "failed" THEN "past_due"
                           ELSE IF sub[k].status = "past_due" THEN "active"
                           ELSE sub[k].status
             /\ d.ending = IF e.type = "updated" THEN e.ending ELSE sub[k].ending
             /\ d.plan = IF e.type = "updated" /\ e.plan \notin {sub[k].plan, sub[k].pending}
                         THEN e.plan ELSE sub[k].plan
             /\ d.pending = sub[k].pending
  <1> DEFINE old == sub[k]
             since == IF old.since \in {"no", "lapsed"} THEN "fresh" ELSE old.since
             plan == IF e.plan \in {old.plan, old.pending} THEN old.plan ELSE e.plan
             d == Applied(k, e)
  <1>1. old \in Doc
    BY Parts DEF Documents
  <1>2. /\ e.type \in {"updated", "deleted", "paid", "failed"}
        /\ Mapped(e.status) \in {"cancelled"} \cup Granting
        /\ e.plan \in Plans /\ e.ending \in BOOLEAN
    BY DEF Event, Mapped, Granting
  <1>3. CASE e.type = "updated"
    <2>1. d = [old EXCEPT !.status = Mapped(e.status), !.ending = e.ending, !.plan = plan]
      BY <1>3 DEF Applied, Updated
    <2>2. QED
      BY <1>1, <1>2, <1>3, <2>1 DEF Doc
  <1>4. CASE e.type = "deleted"
    <2>1. d = [old EXCEPT !.status = "cancelled"]
      BY <1>4 DEF Applied
    <2>2. QED
      BY <1>1, <1>2, <1>4, <2>1 DEF Doc
  <1>5. CASE e.type = "failed"
    <2>1. d = [old EXCEPT !.status = "past_due", !.since = since]
      BY <1>5 DEF Applied
    <2>2. since \in Since
      BY <1>1 DEF Doc, Since
    <2> HIDE DEF since
    <2>3. QED
      BY <1>1, <1>2, <1>5, <2>1, <2>2 DEF Doc, Granting
  <1>6. CASE e.type = "paid"
    <2>1. CASE old.status = "past_due"
      <3>1. d = [old EXCEPT !.status = "active", !.since = "no"]
        BY <1>6, <2>1 DEF Applied
      <3>2. QED
        BY <1>1, <1>2, <1>6, <2>1, <3>1 DEF Doc, Granting, Since
    <2>2. CASE old.status # "past_due"
      <3>1. d = old
        BY <1>6, <2>2 DEF Applied
      <3>2. QED
        BY <1>1, <1>2, <1>6, <2>2, <3>1 DEF Doc
    <2>3. QED
      BY <2>1, <2>2
  <1>7. QED
    BY <1>2, <1>3, <1>4, <1>5, <1>6

\* What is done about an event: the first begins the plan, and any other is applied to
\* the document, if there is one.
Handled(k, e, r) ==
    /\ r \in Request /\ Sound(r) /\ r.others = {}
    /\ r # Idle => r.by = "hook" /\ r.id = k
    /\ e.type = "completed" =>
        /\ r.todo = <<"others">> /\ r # Idle
        /\ r.new = [NoDoc EXCEPT !.status = Mapped(remote[k].status), !.plan = e.plan]
        /\ r.new.status = Mapped(remote[k].status) /\ r.new.plan = e.plan
        /\ ~r.new.ending /\ ~r.new.comp /\ r.new.pending = 0
    /\ e.type # "completed" /\ ~Begun(k) => r = Idle
    /\ e.type # "completed" /\ Begun(k) =>
        /\ r.todo = <<"save">> /\ r # Idle
        /\ r.new = Applied(k, e)
        /\ r.paths = {f \in Paths : r.new[f] # sub[k][f]}

LEMMA HandlingHandles ==
  ASSUME IInv, NEW k \in Subs, NEW i \in DOMAIN events[k]
  PROVE  /\ Sold(k) /\ events[k][i] \in Event /\ WellFormed(events[k][i])
         /\ Handled(k, events[k][i], Handling(k, events[k][i]))
  <1> DEFINE e == events[k][i]
             r == Handling(k, e)
  <1>1. events[k] \in Seq(Event) /\ Sale(k) /\ remote[k] \in Remote /\ sub[k] \in Doc
    BY DEF IInv, TypeOK
  <1>2. e \in Event /\ events[k] # <<>>
    BY <1>1, LenProperties, ElementOfSeq
  <1>3. Sold(k) /\ WellFormed(e)
    BY <1>1, <1>2 DEF Sale
  <1>4. Mapped(remote[k].status) \in {"cancelled"} \cup Granting
    BY <1>1, <1>3 DEF Sold, Mapped, Remote, Granting
  <1> HIDE DEF e
  <1>5. CASE e.type = "completed"
    <2> DEFINE new == [NoDoc EXCEPT !.status = Mapped(remote[k].status), !.plan = e.plan]
    <2>1. /\ new \in Doc /\ new.status = Mapped(remote[k].status) /\ new.plan = e.plan
          /\ ~new.ending /\ ~new.comp /\ new.pending = 0
      BY <1>2, <1>4 DEF NoDoc, Doc, Event, Since
    <2> HIDE DEF new
    <2>2. r = [Idle EXCEPT !.todo = <<"others">>, !.by = "hook", !.id = k, !.new = new]
      BY <1>5 DEF Handling, new
    <2>3. <<"others">> \in Seq(Steps)
      BY DEF Steps
    <2>4. /\ r \in Request /\ r.todo = <<"others">> /\ r.by = "hook" /\ r.id = k
          /\ r.others = {} /\ r.new = new
      BY <2>1, <2>2, <2>3, IdleType DEF Request
    <2>5. Sound(r) /\ r # Idle
      BY <1>4, <2>1, <2>4, IdleType DEF Sound, Todos, Activation, Granting
    <2>6. QED
      BY <1>2, <1>3, <1>5, <2>1, <2>4, <2>5 DEF Handled, e, new
  <1>6. CASE e.type # "completed" /\ ~Begun(k)
    <2>1. r = Idle
      BY <1>6 DEF Handling, Begun
    <2>2. QED
      BY <1>2, <1>3, <1>6, <2>1, IdleType DEF Handled, e
  <1>7. CASE e.type # "completed" /\ Begun(k)
    <2>1. r = About(k, "hook", Applied(k, e), <<"save">>)
      BY <1>7 DEF Handling, Begun
    <2>2. Applied(k, e) \in Doc /\ Applied(k, e).status # "none"
      <3>1. Mapped(e.status) # "none"
        BY <1>2 DEF Event, Mapped, Granting
      <3>2. QED
        BY <1>2, <1>7, <3>1, AppliedType DEF Begun
    <2>3. /\ r \in Request /\ Sound(r) /\ r.todo = <<"save">> /\ r.by = "hook" /\ r.id = k
          /\ r.new = Applied(k, e)
          /\ r.paths = {f \in Paths : r.new[f] # sub[k][f]} /\ r.others = {}
      BY <2>1, <2>2, TodoKinds, AboutType
    <2> HIDE DEF r
    <2>4. r # Idle
      BY <2>3, IdleType
    <2>5. QED
      BY <1>2, <1>3, <1>7, <2>3, <2>4 DEF Handled, e, r
  <1>8. QED
    BY <1>5, <1>6, <1>7

LEMMA DeliverActs ==
  ASSUME IInv, NEW p \in Callers, NEW k \in Subs, NEW i \in DOMAIN events[k], Deliver(p, k, i)
  PROVE  LET n == Len(events[k])
             e == events[k][i]
         IN  /\ Sold(k) /\ e \in Event /\ WellFormed(e)
             /\ Requests' /\ Counts' /\ AtStripe'
             /\ UNCHANGED <<remote, sub, begun, invoices, mishaps, lost, overlapped>>
             /\ Handled(k, e, request'[p])
             /\ request[p] = Idle
             /\ \A q \in Callers : q # p => request'[q] = request[q]
             /\ \A j \in Subs : j # k => events'[j] = events[j]
             /\ n \in Nat /\ n > 0 /\ i \in 1 .. n
             /\ Len(events'[k]) = n - 1 /\ DOMAIN events'[k] = 1 .. n - 1
             /\ DOMAIN events[k] = 1 .. n
             /\ \A j \in 1 .. n - 1 :
                    events'[k][j] = IF j < i THEN events[k][j] ELSE events[k][j + 1]
             /\ tangles' \in {tangles, tangles + 1}
             /\ tangles' = tangles => i = 1 /\ \A q \in Callers : ~Hook(q, k)
             /\ overtaken' = IF Stale(k, i) THEN overtaken \cup {k} ELSE overtaken
  <1> DEFINE n == Len(events[k])
             e == events[k][i]
             r == Handling(k, e)
             s == RemoveAt(events[k], i)
  <1>1. /\ Turn(p, r) /\ ~Busy(p)
        /\ events' = [events EXCEPT ![k] = s]
        /\ Tangled(i > 1 \/ \E q \in Callers : request[q].by = "hook" /\ request[q].id = k)
        /\ UNCHANGED <<remote, sub, begun, invoices, mishaps, lost, overlapped>>
        /\ overtaken' = IF Stale(k, i) THEN overtaken \cup {k} ELSE overtaken
    BY DEF Deliver
  <1>2. Sold(k) /\ e \in Event /\ WellFormed(e) /\ Handled(k, e, r)
    BY HandlingHandles
  <1>3. events \in [Subs -> Seq(Event)] /\ events[k] \in Seq(Event) /\ Counts /\ AtStripe
    BY Parts DEF AtStripe
  <1>4. /\ s \in Seq(Event)
        /\ n \in Nat /\ n > 0 /\ Len(s) = n - 1 /\ DOMAIN s = 1 .. n - 1
        /\ \A j \in DOMAIN s : s[j] = IF j < i THEN events[k][j] ELSE events[k][j + 1]
    BY <1>3, Taken
  <1>5. DOMAIN events[k] = 1 .. n
    BY <1>3, LenProperties
  <1> HIDE DEF r, s
  <1>6. events'[k] = s /\ AtStripe' /\ \A j \in Subs : j # k => events'[j] = events[j]
    BY <1>1, <1>3, <1>4 DEF AtStripe
  <1>7. /\ Requests' /\ request'[p] = r
        /\ \A q \in Callers : q # p => request'[q] = request[q]
    <2>1. r \in Request /\ Sound(r) /\ (r.todo = <<>> => r = Idle)
      BY <1>2 DEF Handled, Sound
    <2>2. QED
      BY <1>1, <2>1, TurnKeeps
  <1>8. request[p] = Idle
    BY <1>1 DEF Busy, IInv, Sound
  <1>9. /\ tangles' \in {tangles, tangles + 1} /\ tangles' \in 0 .. MaxTangles
        /\ tangles' = tangles =>
              ~(i > 1) /\ \A q \in Callers : ~(request[q].by = "hook" /\ request[q].id = k)
    BY <1>1, <1>3, SubscriptionConstants DEF Tangled, Counts
  <1>10. tangles' = tangles => i = 1 /\ \A q \in Callers : ~Hook(q, k)
    BY <1>5, <1>9 DEF Hook
  <1>11. Counts'
    BY <1>1, <1>3, <1>9 DEF Counts
  <1>12. QED
    BY <1>1, <1>2, <1>4, <1>5, <1>6, <1>7, <1>8, <1>9, <1>10, <1>11

LEMMA DeliverKeeps ==
  ASSUME IInv, NEW p \in Callers, NEW k \in Subs, NEW i \in DOMAIN events[k], Deliver(p, k, i)
  PROVE  IInv'
  <1>1. Documents' /\ \A j \in Subs : (Begun(j)' <=> Begun(j)) /\ (Sold(j)' <=> Sold(j))
    BY DeliverActs, Parts DEF Documents, Begun, Sold
  <1>2. ASSUME NEW q \in Callers, NEW j \in Subs, q # p
        PROVE  NoMore(q, j)
    <2>1. request'[q] = request[q]
      BY <1>2, DeliverActs
    <2>2. QED
      BY <2>1 DEF NoMore, Hook, Visitor, Activates
  <1>3. Handled(k, events[k][i], request'[p])
    BY DeliverActs
  <1>4. /\ (\A j \in Subs : Hook(p, j)' => j = k) /\ (\A j \in Subs : ~Visitor(p, j)')
        /\ request'[p].others = {}
        /\ Hook(p, k)' /\ ~Activates(p)' => Begun(k)
    BY <1>3, IdleType DEF Handled, Hook, Visitor, Activates, Activation
  <1>5. ASSUME NEW j \in Subs, j # k
        PROVE  Sale(j)'
    <2>1. \A q \in Callers : NoMore(q, j)
      BY <1>2, <1>4, <1>5 DEF NoMore
    <2>2. remote'[j] = remote[j] /\ events'[j] = events[j] /\ sub'[j].comp = sub[j].comp
      BY <1>5, DeliverActs
    <2>3. QED
      BY <1>1, <2>1, <2>2, SaleStays
  <1>6. Sale(k)'
    <2>1. Sale(k) /\ Sold(k) /\ UNCHANGED <<remote, sub>>
      BY DeliverActs DEF IInv
    <2>2. ASSUME NEW j \in DOMAIN events'[k]
          PROVE  /\ WellFormed(events'[k][j])
                 /\ events'[k][j].status = "canceled" => remote[k].status = "canceled"
      <3>0. PICK n : n = Len(events[k])
        OBVIOUS
      <3>1. n \in Nat /\ DOMAIN events[k] = 1 .. n /\ DOMAIN events'[k] = 1 .. n - 1
        BY <3>0, DeliverActs
      <3>2. \A m \in 1 .. n - 1 :
                events'[k][m] = IF m < i THEN events[k][m] ELSE events[k][m + 1]
        BY <3>0, DeliverActs
      <3>3. \E m \in DOMAIN events[k] : events'[k][j] = events[k][m]
        <4>1. n \in Nat /\ j \in 1 .. n - 1
          BY <3>1
        <4>2. j \in 1 .. n /\ j + 1 \in 1 .. n
          BY <4>1
        <4>3. j \in DOMAIN events[k] /\ j + 1 \in DOMAIN events[k]
          BY <3>1, <4>2
        <4>4. events'[k][j] = events[k][j] \/ events'[k][j] = events[k][j + 1]
          BY <3>2, <4>1
        <4>5. QED
          BY <4>3, <4>4
      <3>4. QED
        BY <2>1, <3>3 DEF Sale
    <2>3. QED
      BY <1>1, <1>2, <1>4, <2>1, <2>2 DEF Sale, NoMore, WellFormed
  <1>7. QED
    BY <1>1, <1>5, <1>6, DeliverActs, PartsNext DEF Sales

-----------------------------------------------------------------------------
(* Activations.                                                             *)

\* An activation that goes on: what it is about, and what it will create, stays.
Onward(p, step, others, other) ==
    [request[p] EXCEPT !.others = others, !.other = other, !.todo = <<step>>]

LEMMA ActivationAt ==
  ASSUME IInv, NEW p \in Callers, NEW step \in {"others", "replace", "end", "create"}, At(p, step)
  PROVE  /\ request[p] \in Request /\ Sound(request[p]) /\ request[p].todo = <<step>>
         /\ Activates(p) /\ request[p].todo # <<>>
         /\ request[p].by \in {"hook", "person", "job"} /\ request[p].id \in Subs \cup {0}
  <1>1. request[p] \in Request /\ Sound(request[p]) /\ request[p].todo = <<step>>
    BY AtStep
  <1>2. request[p].todo \in Activation
    BY <1>1 DEF Activation
  <1>3. request[p].todo # <<>>
    BY <1>1
  <1>4. QED
    BY <1>1, <1>2, <1>3 DEF Activates, Sound, Request

LEMMA NotDone == <<>> \notin Activation
  BY DEF Activation

LEMMA OnwardType ==
  ASSUME NEW p \in Callers, request[p] \in Request, Sound(request[p]), Activates(p),
         NEW step \in {"replace", "end", "create"}, NEW others \in SUBSET Subs,
         NEW other \in Subs \cup {0}, step = "end" => other \in others
  PROVE  LET r == request[p]
             t == Onward(p, step, others, other)
         IN  /\ t \in Request /\ Sound(t) /\ t.todo = <<step>> /\ t.todo # <<>>
             /\ t.todo \in Activation
             /\ t.by = r.by /\ t.id = r.id /\ t.new = r.new /\ t.paths = r.paths
             /\ t.others = others /\ t.other = other
  <1> DEFINE r == request[p]
             t == Onward(p, step, others, other)
  <1>1. <<step>> \in Seq(Steps) /\ <<step>> \in Activation /\ <<step>> # <<>>
        /\ (<<step>> = <<"end">> => step = "end") /\ <<step>> \in Todos
    BY DEF Steps, Activation, Todos
  <1>2. /\ t \in Request /\ t.todo = <<step>>
        /\ t.by = r.by /\ t.id = r.id /\ t.new = r.new /\ t.paths = r.paths
        /\ t.others = others /\ t.other = other
    BY <1>1 DEF Onward, Request
  <1> HIDE DEF t
  <1>3. r.todo \in Activation /\ r.by # "none"
    BY NotDone DEF Sound, Activates
  <1>4. Sound(t)
    BY <1>1, <1>2, <1>3 DEF Sound
  <1>5. QED
    BY <1>1, <1>2, <1>4 DEF t

LEMMA FindActs ==
  ASSUME IInv, NEW p \in Callers, FindOthers(p)
  PROVE  LET r == request[p]
             step == IF Others(p) = {} THEN "create" ELSE "replace"
         IN  /\ r \in Request /\ Sound(r) /\ r.todo = <<"others">>
             /\ Requests' /\ UNCHANGED <<remote, sub, events, bounds, lost, overtaken>>
             /\ request'[p] = Onward(p, step, Others(p), r.other)
             /\ request'[p].by = r.by /\ request'[p].id = r.id /\ request'[p].new = r.new
             /\ request'[p].others = Others(p) /\ request'[p].todo = <<step>>
             /\ request'[p].paths = r.paths
             /\ \A q \in Callers : q # p => request'[q] = request[q]
             /\ Others(p) \subseteq Subs
             /\ overlapped' \in BOOLEAN /\ (overlapped => overlapped')
             /\ ~overlapped' => \A q \in Callers : ~Replaces(q)
  <1> DEFINE r == request[p]
             found == Others(p)
             next == IF found = {} THEN "create" ELSE "replace"
             t == Onward(p, next, found, r.other)
  <1>1. /\ At(p, "others")
        /\ Turn(p, [r EXCEPT !.others = found,
                       !.todo = IF found = {} THEN <<"create">> ELSE <<"replace">>])
        /\ overlapped' = (overlapped \/ \E q \in Callers :
                              \E s \in {"replace", "end", "create"} : At(q, s))
        /\ UNCHANGED <<remote, sub, events, bounds, lost, overtaken>>
    BY DEF FindOthers
  <1>2. r \in Request /\ Sound(r) /\ r.todo = <<"others">> /\ Activates(p)
    BY <1>1, ActivationAt
  <1>3. found \in SUBSET Subs /\ r.other \in Subs \cup {0}
    BY <1>2 DEF Others, Request
  <1>4. next \in {"replace", "end", "create"} /\ next # "end"
    OBVIOUS
  <1>5. Turn(p, t)
    <2>1. t = [r EXCEPT !.others = found,
                  !.todo = IF found = {} THEN <<"create">> ELSE <<"replace">>]
      BY <1>2 DEF Onward, Request
    <2>2. QED
      BY <1>1, <2>1
  <1> HIDE DEF found, next
  <1>6. /\ t \in Request /\ Sound(t) /\ t.todo = <<next>> /\ t.todo # <<>>
        /\ t.by = r.by /\ t.id = r.id /\ t.new = r.new /\ t.others = found
        /\ t.paths = r.paths
    <2>1. CASE next = "replace"
      BY <1>2, <1>3, <2>1, OnwardType
    <2>2. CASE next = "create"
      BY <1>2, <1>3, <2>2, OnwardType
    <2>3. QED
      BY <1>4, <2>1, <2>2
  <1>7. /\ Requests' /\ request'[p] = t
        /\ \A q \in Callers : q # p => request'[q] = request[q]
    BY <1>5, <1>6, TurnKeeps
  <1>8. ASSUME ~overlapped', NEW q \in Callers, Replaces(q)
        PROVE  FALSE
    <2>1. \E s \in {"replace", "end", "create"} : request[q].todo = <<s>>
      BY <1>8 DEF Replaces, Activation
    <2>2. \E s \in {"replace", "end", "create"} : At(q, s)
      BY <2>1, TodoSteps DEF At, Busy
    <2>3. QED
      BY <1>1, <1>8, <2>2
  <1>9. overlapped' \in BOOLEAN /\ (overlapped => overlapped')
    BY <1>1
  <1>10. QED
    BY <1>1, <1>2, <1>3, <1>6, <1>7, <1>8, <1>9 DEF found, next

LEMMA FindKeeps ==
  ASSUME IInv, NEW p \in Callers, FindOthers(p)
  PROVE  IInv'
  <1>1. Requests' /\ Counts' /\ AtStripe' /\ Documents'
    BY FindActs, Parts DEF Counts, AtStripe, Documents, bounds
  <1>2. ASSUME NEW q \in Callers, NEW j \in Subs, q # p
        PROVE  NoMore(q, j)
    <2>1. request'[q] = request[q]
      BY <1>2, FindActs
    <2>2. QED
      BY <2>1 DEF NoMore, Hook, Visitor, Activates
  <1>3. /\ Activates(p) /\ Activates(p)'
        /\ request'[p].by = request[p].by /\ request'[p].id = request[p].id
        /\ request'[p].others = Others(p)
    BY FindActs DEF Activates, Activation
  <1>4. ASSUME NEW j \in Subs
        PROVE  Sale(j)'
    <2>1. Sale(j) /\ UNCHANGED <<remote, sub, events>>
      BY FindActs DEF IInv
    <2>2. j \in Others(p) => Begun(j)
      BY GrantsBegun DEF Others
    <2>3. (Hook(p, j)' <=> Hook(p, j)) /\ (Visitor(p, j)' <=> Visitor(p, j))
      BY <1>3 DEF Hook, Visitor
    <2>4. QED
      BY <1>2, <1>3, <2>1, <2>2, <2>3 DEF Sale, NoMore, Sold, Begun, WellFormed
  <1>5. QED
    BY <1>1, <1>4, PartsNext DEF Sales

LEMMA CancelOtherActs ==
  ASSUME IInv, NEW p \in Callers, CancelOther(p)
  PROVE  /\ Requests'
         /\ UNCHANGED <<sub, begun, invoices, tangles, overlapped, overtaken>>
         /\ \A q \in Callers : q # p => request'[q] = request[q]
         /\ \A q \in Callers, j \in Subs : NoMore(q, j)
         /\ request[p].todo = <<"replace">> /\ request[p] \in Request
         /\ \E k \in request[p].others :
              /\ k \in Subs /\ Begun(k) /\ TryToEnd(k)
              /\ request'[p] = Onward(p, "end", request[p].others, k)
              /\ request'[p].other = k
         /\ request'[p].todo = <<"end">> /\ request'[p].others = request[p].others
         /\ request'[p].by = request[p].by /\ request'[p].id = request[p].id
         /\ request'[p].new = request[p].new /\ request'[p].paths = request[p].paths
  <1> DEFINE r == request[p]
  <1>1. PICK k \in r.others : Turn(p, [r EXCEPT !.other = k, !.todo = <<"end">>]) /\ TryToEnd(k)
    BY DEF CancelOther
  <1>2. At(p, "replace") /\ UNCHANGED <<sub, begun, invoices, tangles, overlapped, overtaken>>
    BY DEF CancelOther
  <1>3. r \in Request /\ Sound(r) /\ Activates(p) /\ r.todo = <<"replace">>
    BY <1>2, ActivationAt
  <1>4. k \in Subs /\ r.others \in SUBSET Subs /\ k \in Subs \cup {0}
    BY <1>1, <1>3 DEF Request
  <1> DEFINE t == Onward(p, "end", r.others, k)
  <1>5. t = [r EXCEPT !.other = k, !.todo = <<"end">>]
    BY <1>3 DEF Onward, Request
  <1>6. /\ t \in Request /\ Sound(t) /\ t.todo = <<"end">> /\ t.todo # <<>>
        /\ t.todo \in Activation /\ t.paths = r.paths
        /\ t.by = r.by /\ t.id = r.id /\ t.new = r.new /\ t.others = r.others /\ t.other = k
    BY <1>1, <1>3, <1>4, OnwardType
  <1> HIDE DEF t
  <1>7. /\ Requests' /\ request'[p] = t
        /\ \A q \in Callers : q # p => request'[q] = request[q]
    BY <1>1, <1>5, <1>6, TurnKeeps
  <1>8. \A q \in Callers, j \in Subs : NoMore(q, j)
    BY <1>3, <1>6, <1>7, GoesOn DEF Activates
  <1>9. Begun(k)
    BY <1>1, <1>4 DEF IInv, Sale
  <1>10. QED
    BY <1>1, <1>2, <1>3, <1>4, <1>6, <1>7, <1>8, <1>9 DEF t

LEMMA CancelOtherKeeps ==
  ASSUME IInv, NEW p \in Callers, CancelOther(p)
  PROVE  IInv'
  BY CancelOtherActs, EndKeeps

LEMMA EndOtherActs ==
  ASSUME IInv, NEW p \in Callers, EndOther(p)
  PROVE  LET r == request[p]
             k == r.other
         IN  /\ r \in Request /\ r.todo = <<"end">> /\ k \in r.others /\ k \in Subs /\ Begun(k)
             /\ Requests' /\ Documents' /\ UNCHANGED <<remote, events, bounds, history>>
             /\ \A q \in Callers : q # p => request'[q] = request[q]
             /\ \A q \in Callers, j \in Subs : NoMore(q, j)
             /\ request'[p].others = r.others \ {k}
             /\ request'[p].by = r.by /\ request'[p].id = r.id
             /\ request'[p].new = r.new /\ request'[p].paths = r.paths
             /\ request'[p].todo = IF r.others \ {k} = {} THEN <<"create">> ELSE <<"replace">>
             /\ \A j \in Subs : j # k => sub'[j] = sub[j]
             /\ sub'[k].status = "cancelled" /\ sub'[k].comp = sub[k].comp
             /\ sub'[k].ending = sub[k].ending /\ sub'[k].plan = sub[k].plan
             /\ sub'[k].pending = sub[k].pending
  <1> DEFINE r == request[p]
             k == r.other
             left == r.others \ {k}
             next == IF left = {} THEN "create" ELSE "replace"
             t == Onward(p, next, left, 0)
             new == [sub[k] EXCEPT !.status = "cancelled"]
             d == Saved(k, new, {"status"})
  <1>1. At(p, "end")
    BY DEF EndOther
  <1>2. r \in Request /\ Sound(r) /\ r.todo = <<"end">> /\ Activates(p)
    BY <1>1, ActivationAt
  <1>3. k \in r.others /\ k \in Subs /\ left \in SUBSET Subs /\ 0 \in Subs \cup {0}
        /\ left \subseteq r.others
    BY <1>2 DEF Sound, Request
  <1>4. Begun(k) /\ Documents
    BY <1>3, Parts DEF Sales, Sale
  <1>5. /\ sub' = [sub EXCEPT ![k] = d]
        /\ Turn(p, [r EXCEPT !.others = left, !.other = 0,
                        !.todo = IF left = {} THEN <<"create">> ELSE <<"replace">>])
        /\ UNCHANGED <<remote, events, bounds, history>>
    BY <1>3, <1>4 DEF EndOther, Documents
  <1>6. Turn(p, t)
    <2>1. t = [r EXCEPT !.others = left, !.other = 0,
                  !.todo = IF left = {} THEN <<"create">> ELSE <<"replace">>]
      BY <1>2 DEF Onward, Request
    <2>2. QED
      BY <1>5, <2>1
  <1>7. next = "create" \/ next = "replace"
    OBVIOUS
  <1>8. new \in Doc /\ new.status = "cancelled"
    BY <1>3, <1>4 DEF Documents, Doc
  <1>9. {"status"} \in SUBSET Paths
    BY DEF Paths
  <1> HIDE DEF new, d
  <1>10. /\ d \in Doc /\ d.comp = sub[k].comp /\ d.status = "cancelled"
         /\ d.ending = sub[k].ending /\ d.plan = sub[k].plan /\ d.pending = sub[k].pending
    <2>1. {"status"} \cap {"ending", "plan", "pending"} = {}
      OBVIOUS
    <2>2. QED
      BY <1>3, <1>4, <1>8, <1>9, SavedType DEF d
  <1>11. sub'[k] = d /\ Documents' /\ \A j \in Subs : j # k => sub'[j] = sub[j]
    BY <1>3, <1>4, <1>5, <1>10 DEF Documents
  <1> HIDE DEF next, left
  <1>12. /\ t \in Request /\ Sound(t) /\ t.todo = <<next>> /\ t.todo # <<>>
         /\ t.todo \in Activation /\ t.by = r.by /\ t.id = r.id /\ t.new = r.new
         /\ t.paths = r.paths /\ t.others = left
    <2>1. CASE next = "replace"
      BY <1>2, <1>3, <2>1, OnwardType
    <2>2. CASE next = "create"
      BY <1>2, <1>3, <2>2, OnwardType
    <2>3. QED
      BY <1>7, <2>1, <2>2
  <1> HIDE DEF t
  <1>13. /\ Requests' /\ request'[p] = t
         /\ \A q \in Callers : q # p => request'[q] = request[q]
    BY <1>6, <1>12, TurnKeeps
  <1>14. \A q \in Callers, j \in Subs : NoMore(q, j)
    BY <1>2, <1>3, <1>12, <1>13, GoesOn DEF Activates
  <1>15. QED
    BY <1>2, <1>3, <1>4, <1>5, <1>10, <1>11, <1>12, <1>13, <1>14 DEF next, left

LEMMA EndOtherKeeps ==
  ASSUME IInv, NEW p \in Callers, EndOther(p)
  PROVE  IInv'
  <1>1. Counts' /\ AtStripe'
    BY EndOtherActs, Parts DEF Counts, AtStripe, bounds, history
  <1>2. ASSUME NEW j \in Subs
        PROVE  Sale(j)'
    <2>1. /\ remote'[j] = remote[j] /\ events'[j] = events[j] /\ sub'[j].comp = sub[j].comp
          /\ \A q \in Callers : NoMore(q, j)
      BY EndOtherActs
    <2>2. Begun(j)' <=> Begun(j)
      BY EndOtherActs DEF Begun
    <2>3. QED
      BY <2>1, <2>2, SaleStays
  <1>3. QED
    BY <1>1, <1>2, EndOtherActs, PartsNext DEF Sales

LEMMA CreateActs ==
  ASSUME IInv, NEW p \in Callers, Create(p)
  PROVE  LET r == request[p]
         IN  /\ r \in Request /\ Sound(r) /\ r.todo = <<"create">> /\ Activates(p) /\ Replaces(p)
             /\ Requests' /\ UNCHANGED <<remote, events, bounds, history>>
             /\ request'[p] = Idle
             /\ \A q \in Callers : q # p => request'[q] = request[q]
             /\ \A q \in Callers, j \in Subs : NoMore(q, j)
             /\ \E k \in Subs :
                  /\ \/ r.id = 0 /\ ~Begun(k) /\ remote[k].status = "none" /\ r.new.comp
                     \/ r.id = k /\ Hook(p, k) /\ Sold(k) /\ ~r.new.comp
                  /\ sub' = [sub EXCEPT ![k] = r.new]
                  /\ r.new.status # "none" /\ r.new \in Doc
  <1> DEFINE r == request[p]
  <1>1. PICK k \in Subs : /\ IF r.id = 0 THEN IsNext(k) ELSE k = r.id
                          /\ sub' = [sub EXCEPT ![k] = r.new]
    BY DEF Create
  <1>2. At(p, "create") /\ Turn(p, Idle) /\ UNCHANGED <<remote, events, bounds, history>>
    BY DEF Create
  <1>3. r \in Request /\ Sound(r) /\ r.todo = <<"create">> /\ Activates(p)
        /\ r.by \in {"hook", "person", "job"}
    BY <1>2, ActivationAt
  <1>4. Requests' /\ request'[p] = Idle /\ \A q \in Callers : q # p => request'[q] = request[q]
    BY <1>2, IdleType, TurnKeeps
  <1>5. \A q \in Callers, j \in Subs : NoMore(q, j)
    BY <1>4, GoesOn
  <1>6. r.new.status # "none" /\ r.new \in Doc
    BY <1>3 DEF Sound, Activates, Request
  <1>7. Replaces(p)
    BY <1>3 DEF Replaces, Activation
  <1>8. k # 0
    BY DEF Subs
  <1>9. CASE r.by = "hook"
    <2>1. r.id = k /\ ~r.new.comp
      BY <1>1, <1>3, <1>9, <1>8 DEF Sound, Activates, Subs
    <2>2. Hook(p, k) /\ Sold(k)
      BY <1>9, <2>1 DEF Hook, IInv, Sale
    <2>3. QED
      BY <1>1, <1>2, <1>3, <1>4, <1>5, <1>6, <1>7, <2>1, <2>2
  <1>10. CASE r.by \in {"person", "job"}
    <2>1. r.id = 0 /\ r.new.comp
      BY <1>3, <1>10 DEF Sound, Activates
    <2>2. ~Begun(k) /\ remote[k].status = "none"
      BY <1>1, <2>1 DEF IsNext, Unused, Begun
    <2>3. QED
      BY <1>1, <1>2, <1>3, <1>4, <1>5, <1>6, <1>7, <2>1, <2>2
  <1>11. QED
    BY <1>3, <1>9, <1>10

LEMMA CreateKeeps ==
  ASSUME IInv, NEW p \in Callers, Create(p)
  PROVE  IInv'
  <1> DEFINE r == request[p]
  <1>1. PICK k \in Subs :
            /\ \/ r.id = 0 /\ ~Begun(k) /\ remote[k].status = "none" /\ r.new.comp
               \/ r.id = k /\ Hook(p, k) /\ Sold(k) /\ ~r.new.comp
            /\ sub' = [sub EXCEPT ![k] = r.new]
            /\ r.new.status # "none" /\ r.new \in Doc
    BY CreateActs
  <1>2. /\ Requests' /\ UNCHANGED <<remote, events, bounds, history>>
        /\ \A q \in Callers, j \in Subs : NoMore(q, j)
    BY CreateActs
  <1>3. Counts' /\ AtStripe' /\ Documents' /\ Documents
    BY <1>1, <1>2, Parts DEF Counts, AtStripe, Documents, bounds, history
  <1>4. sub'[k] = r.new /\ \A j \in Subs : j # k => sub'[j] = sub[j]
    BY <1>1, <1>3 DEF Documents
  <1>5. ASSUME NEW j \in Subs, j # k
        PROVE  Sale(j)'
    BY <1>2, <1>4, <1>5, SaleStays DEF Begun
  <1>6. Sale(k)'
    <2>1. Sale(k)
      BY DEF IInv
    <2>2. Begun(k)' /\ sub'[k].comp = r.new.comp
      BY <1>1, <1>4 DEF Begun
    <2>3. Sold(k)' <=> Sold(k)
      BY <1>2 DEF Sold
    <2>4. /\ r.new.comp => remote[k].status = "none"
          /\ ~Sold(k) => r.new.comp
      BY <1>1 DEF Sold
    <2>5. QED
      BY <1>2, <2>1, <2>2, <2>3, <2>4 DEF Sale, NoMore, WellFormed
  <1>7. QED
    BY <1>2, <1>3, <1>5, <1>6, PartsNext DEF Sales

-----------------------------------------------------------------------------
(* Type correctness.                                                        *)

LEMMA InitIInv ==
  ASSUME Init
  PROVE  IInv
  <1>1. PICK bought \in BOOLEAN, plan \in Plans :
            LET has(k) == bought /\ k = 1
            IN  /\ remote = [k \in Subs |-> [status |-> IF has(k) THEN "active" ELSE "none",
                                plan |-> IF has(k) THEN plan ELSE 1, ending |-> FALSE]]
                /\ sub = [k \in Subs |-> IF has(k) THEN [NoDoc EXCEPT !.status = "active",
                                                                     !.plan = plan]
                                         ELSE NoDoc]
    BY DEF Init
  <1> DEFINE has(k) == bought /\ k = 1
             doc == [NoDoc EXCEPT !.status = "active", !.plan = plan]
  <1>2. /\ NoDoc \in Doc /\ NoDoc.status = "none" /\ ~NoDoc.comp
        /\ doc \in Doc /\ doc.status = "active" /\ ~doc.comp
    <2>1. NoDoc \in Doc /\ NoDoc.status = "none" /\ ~NoDoc.comp
      BY DEF NoDoc, Doc, Granting, Plans, Since
    <2>2. doc \in Doc /\ doc.status = "active" /\ doc.comp = NoDoc.comp
      BY <2>1 DEF Doc, Granting
    <2>3. QED
      BY <2>1, <2>2
  <1> HIDE DEF doc
  <1>3. Documents
    BY <1>1, <1>2 DEF Documents, doc
  <1>4. /\ events = [k \in Subs |-> <<>>]
        /\ request = [p \in Callers |-> Idle]
        /\ begun = 0 /\ invoices = 0 /\ mishaps = 0 /\ tangles = 0
        /\ lost = FALSE /\ overlapped = FALSE /\ overtaken = {}
    BY DEF Init
  <1>5. remote \in [Subs -> Remote]
    BY <1>1 DEF Remote, Granting, Plans
  <1>6. AtStripe
    BY <1>4, <1>5 DEF AtStripe
  <1>7. Requests /\ Counts
    <2>1. \A p \in Callers : request[p] = Idle
      BY <1>4
    <2>2. request \in [Callers -> Request]
      BY <1>4, IdleType
    <2>3. Requests
      BY <2>1, <2>2, IdleType DEF Requests
    <2>4. Counts
      <3>1. begun \in 0 .. MaxRequests /\ invoices \in 0 .. MaxInvoices
            /\ mishaps \in 0 .. MaxMishaps /\ tangles \in 0 .. MaxTangles
        BY <1>4, SubscriptionConstants
      <3>2. lost \in BOOLEAN /\ overlapped \in BOOLEAN /\ overtaken \subseteq Subs
        BY <1>4
      <3>3. QED
        BY <3>1, <3>2 DEF Counts
    <2>5. QED
      BY <2>3, <2>4
  <1>8. ASSUME NEW k \in Subs
        PROVE  Sale(k)
    <2>1. events[k] = <<>> /\ DOMAIN events[k] = {}
      BY <1>4
    <2>2. ~sub[k].comp
      BY <1>1, <1>2 DEF doc
    <2>3. Begun(k) => Sold(k)
      BY <1>1, <1>2 DEF Begun, Sold, doc
    <2>4. \A p \in Callers : ~Hook(p, k) /\ ~Visitor(p, k) /\ k \notin request[p].others
      BY <1>4, IdleType DEF Hook, Visitor
    <2>5. QED
      BY <2>1, <2>2, <2>3, <2>4 DEF Sale
  <1>9. QED
    BY <1>3, <1>6, <1>7, <1>8, Parts DEF Sales

LEMMA StepIInv ==
  ASSUME IInv, [Next]_vars
  PROVE  IInv'
  <1>1. CASE Stripe
    BY <1>1, TimeKeeps, StripeKeeps DEF Stripe
  <1>2. CASE \E k \in Subs, plan \in Plans : Checkout(k, plan)
    BY <1>2, CheckoutKeeps
  <1>3. ASSUME NEW p \in Callers,
               Ask(p) \/ UpdateStripe(p) \/ CancelStripe(p) \/ Save(p) \/ Die(p)
        PROVE  IInv'
    BY <1>3, AskAsks, AskKeeps, UpdateKeeps, CancelKeeps, SaveKeeps, DieKeeps
  <1>4. ASSUME NEW p \in Callers, Handle(p)
        PROVE  IInv'
    BY <1>4, DeliverKeeps, FindKeeps, CancelOtherKeeps, EndOtherKeeps, CreateKeeps DEF Handle
  <1>5. CASE UNCHANGED vars
    <2>1. UNCHANGED <<remote, sub, events, request, bounds, history>>
      BY <1>5 DEF vars
    <2>2. Requests' /\ Counts' /\ AtStripe' /\ Documents'
      BY <2>1, Parts DEF Requests, Counts, AtStripe, Documents, Sound, bounds, history
    <2>3. \A q \in Callers, j \in Subs : NoMore(q, j)
      BY <2>1 DEF NoMore, Hook, Visitor, Activates
    <2>4. Sales'
      BY <2>1, <2>3, SaleStays DEF Sales, Begun
    <2>5. QED
      BY <2>2, <2>4, PartsNext
  <1>6. QED
    BY <1>1, <1>2, <1>3, <1>4, <1>5 DEF Next

\* Stripe's subscriptions, the documents that copy them, the events on their way and
\* what each caller is doing are always of their kinds.
THEOREM TypeCorrect == Spec => []TypeOK
  <1>1. IInv => TypeOK
    BY DEF IInv
  <1>2. QED
    BY <1>1, InitIInv, StepIInv, PTL DEF Spec

-----------------------------------------------------------------------------
(* The copy, when events and requests are handled one after the other.      *)

\* A subscription is begun here by the first of its events, and by no other; at any
\* time one of its events is handled, and one person or job works on it.
Pipe(k) ==
    /\ \A p \in Callers : Hook(p, k) /\ Activates(p) => ~Begun(k)
    /\ \A p, q \in Callers : Hook(p, k) /\ Hook(q, k) => p = q
    /\ Sold(k) /\ ~Begun(k) =>
            \/ events[k] # <<>> /\ events[k][1].type = "completed"
            \/ \E p \in Callers : Hook(p, k)
    /\ \A i \in DOMAIN events[k] : events[k][i].type = "completed" =>
            i = 1 /\ ~Begun(k) /\ \A p \in Callers : ~Hook(p, k)
OneVisitor(k) == \A p, q \in Callers : Visitor(p, k) /\ Visitor(q, k) => p = q

\* No document says that a plan is over, and nobody is about to say so, that is not
\* over at Stripe.
Over(k) == sub[k].comp \/ remote[k].status = "canceled"
EndsOver(p, k) ==
    /\ request[p].id = k /\ ~Activates(p) /\ "status" \in request[p].paths
       /\ request[p].new.status = "cancelled" =>
            Over(k) \/ request[p].todo = <<"cancel", "save">>
    /\ Hook(p, k) /\ Activates(p) /\ request[p].new.status = "cancelled" => Over(k)
    /\ request[p].todo = <<"end">> /\ request[p].other = k => Over(k)
Ended(k) ==
    /\ sub[k].status = "cancelled" => Over(k)
    /\ \A p \in Callers : EndsOver(p, k)

\* The status, and the ending, once the event that is being handled is.
Writes(p, k, f) == Hook(p, k) /\ (Activates(p) \/ f \in request[p].paths)
WillBe(k, s) ==
    \/ \E p \in Callers : Writes(p, k, "status") /\ request[p].new.status = s
    \/ (\A p \in Callers : ~Writes(p, k, "status")) /\ sub[k].status = s
WillEnd(k, b) ==
    \/ \E p \in Callers : Writes(p, k, "ending") /\ request[p].new.ending = b
    \/ (\A p \in Callers : ~Writes(p, k, "ending")) /\ sub[k].ending = b

\* The last event says what Stripe's subscription is; once it is handled, so does the
\* document.
StatusInStep(k) ==
    Sold(k) =>
        LET e == events[k]
            n == Len(e)
        IN  /\ n = 0 => WillBe(k, Mapped(remote[k].status))
            /\ n > 0 => e[n].status = remote[k].status
            /\ n > 0 /\ e[n].type = "paid" =>
                IF n = 1 THEN \E s \in Granting : WillBe(k, s)
                ELSE e[n - 1].type = "updated" /\ e[n - 1].status = "active"

\* The same of whether it is ending, which only the events "updated" say.
Tells(k, i) == events[k][i].type = "updated"
EndingInStep(k) ==
    /\ ~Begun(k) => ~remote[k].ending /\ ~sub[k].ending
    /\ \A p \in Callers : Hook(p, k) /\ Activates(p) => ~request[p].new.ending
    /\ Sold(k) =>
        /\ \A i \in DOMAIN events[k] :
            Tells(k, i) /\ (\A j \in DOMAIN events[k] : j > i => ~Tells(k, j)) =>
                events[k][i].ending = remote[k].ending
        /\ (\A i \in DOMAIN events[k] : ~Tells(k, i)) => WillEnd(k, remote[k].ending)

\* A person who changes the ending has changed it at Stripe when it is to be saved.
EndingAsked(p, k) ==
    Visitor(p, k) /\ ~sub[k].comp /\ "ending" \in request[p].paths =>
        /\ Saves(p) => request[p].new.ending = remote[k].ending
        /\ request[p].new.ending = request[p].ending
        /\ request[p].todo \notin {<<"price", "save">>, <<"cancel", "save">>}

Told(k)  == Pipe(k) /\ StatusInStep(k) /\ EndingInStep(k)
Heard(k) == OneVisitor(k) /\ Ended(k) /\ \A p \in Callers : EndingAsked(p, k)
InStep   == Clean => \A k \in Subs : Told(k) /\ Heard(k)

\* The events of k that are being handled stay what they are.
SameHooks(k) ==
    \A q \in Callers :
        /\ Hook(q, k)' <=> Hook(q, k)
        /\ Hook(q, k) => /\ Activates(q)' <=> Activates(q)
                         /\ request'[q].new = request[q].new
                         /\ request'[q].paths = request[q].paths

LEMMA WritesSame ==
  ASSUME NEW k \in Subs, SameHooks(k), NEW p \in Callers, NEW f
  PROVE  /\ Writes(p, k, f)' <=> Writes(p, k, f)
         /\ Writes(p, k, f) => request'[p].new = request[p].new
  BY DEF SameHooks, Writes

LEMMA WillSame ==
  ASSUME NEW k \in Subs, SameHooks(k)
  PROVE  /\ \A s : WillBe(k, s) /\ sub'[k].status = sub[k].status => WillBe(k, s)'
         /\ \A b : WillEnd(k, b) /\ sub'[k].ending = sub[k].ending => WillEnd(k, b)'
  <1>1. \A p \in Callers, f \in {"status", "ending"} :
            /\ Writes(p, k, f)' <=> Writes(p, k, f)
            /\ Writes(p, k, f) => request'[p].new = request[p].new
    BY WritesSame
  <1>2. QED
    BY <1>1 DEF WillBe, WillEnd

\* Nothing happens to k but that people and jobs come or go, or that a save makes it
\* say it is over, or ending, when it is.
LEMMA StaysTold ==
  ASSUME IInv, NEW k \in Subs, Told(k), SameHooks(k),
         remote'[k] = remote[k], events'[k] = events[k], Begun(k)' <=> Begun(k),
         \/ sub'[k].status = sub[k].status
         \/ Sold(k) => remote[k].status = "canceled" /\ sub'[k].status = "cancelled",
         \/ sub'[k].ending = sub[k].ending
         \/ Begun(k) /\ (Sold(k) => sub'[k].ending = remote[k].ending)
  PROVE  Told(k)'
  <1>1. Pipe(k) /\ StatusInStep(k) /\ EndingInStep(k) /\ (Sold(k)' <=> Sold(k))
    BY DEF Told, Sold
  <1>2. Pipe(k)'
    BY <1>1 DEF Pipe, SameHooks
  <1>3. ASSUME NEW s, Sold(k), WillBe(k, s), sub'[k].status # sub[k].status => s = "cancelled"
        PROVE  WillBe(k, s)'
    <2>1. CASE sub'[k].status = sub[k].status
      BY <1>3, <2>1, WillSame
    <2>2. CASE sub'[k].status # sub[k].status
      <3>1. s = "cancelled" /\ sub'[k].status = "cancelled"
        BY <1>3, <2>2
      <3>2. \A p \in Callers :
                /\ Writes(p, k, "status")' <=> Writes(p, k, "status")
                /\ Writes(p, k, "status") => request'[p].new = request[p].new
        BY WritesSame
      <3>3. QED
        BY <1>3, <3>1, <3>2 DEF WillBe
    <2>3. QED
      BY <2>1, <2>2
  <1>4. StatusInStep(k)'
    <2> SUFFICES ASSUME Sold(k)
                 PROVE  LET e == events[k]
                            n == Len(e)
                        IN  /\ n = 0 => WillBe(k, Mapped(remote[k].status))'
                            /\ n > 0 => e[n].status = remote[k].status
                            /\ n > 0 /\ e[n].type = "paid" =>
                                 IF n = 1 THEN \E s \in Granting : WillBe(k, s)'
                                 ELSE e[n - 1].type = "updated" /\ e[n - 1].status = "active"
      BY <1>1 DEF StatusInStep
    <2> DEFINE e == events[k]
               n == Len(e)
    <2>1. CASE n = 0
      <3>1. WillBe(k, Mapped(remote[k].status))
        BY <1>1, <2>1 DEF StatusInStep
      <3>2. sub'[k].status # sub[k].status => Mapped(remote[k].status) = "cancelled"
        BY DEF Mapped
      <3>3. QED
        BY <1>3, <2>1, <3>1, <3>2
    <2>2. CASE n > 0
      <3>1. e[n].status = remote[k].status
        BY <1>1, <2>2 DEF StatusInStep
      <3>2. ASSUME e[n].type = "paid"
            PROVE  remote[k].status = "active"
        <4>1. n \in DOMAIN e
          BY <2>2, LenProperties DEF IInv, TypeOK
        <4>2. WellFormed(e[n])
          BY <4>1 DEF IInv, Sale
        <4>3. QED
          BY <3>1, <3>2, <4>2 DEF WellFormed
      <3>3. ASSUME e[n].type = "paid", n = 1
            PROVE  \E s \in Granting : WillBe(k, s)'
        <4>1. PICK s \in Granting : WillBe(k, s)
          BY <1>1, <2>2, <3>3 DEF StatusInStep
        <4>2. sub'[k].status = sub[k].status
          BY <3>2, <3>3
        <4>3. QED
          BY <1>3, <4>1, <4>2
      <3>4. QED
        BY <1>1, <2>2, <3>1, <3>3 DEF StatusInStep
    <2>3. n \in Nat
      BY LenProperties DEF IInv, TypeOK
    <2>4. QED
      BY <2>1, <2>2, <2>3
  <1>5. EndingInStep(k)'
    <2>1. ~Begun(k)' => ~remote'[k].ending /\ ~sub'[k].ending
      BY <1>1 DEF EndingInStep
    <2>2. \A p \in Callers : Hook(p, k)' /\ Activates(p)' => ~request'[p].new.ending
      BY <1>1 DEF EndingInStep, SameHooks
    <2>3. \A i : Tells(k, i)' <=> Tells(k, i)
      BY DEF Tells
    <2>4. ASSUME Sold(k), WillEnd(k, remote[k].ending)
          PROVE  WillEnd(k, remote[k].ending)'
      <3>1. CASE sub'[k].ending = sub[k].ending
        BY <2>4, <3>1, WillSame
      <3>2. CASE sub'[k].ending = remote[k].ending
        <4>1. \A p \in Callers :
                  /\ Writes(p, k, "ending")' <=> Writes(p, k, "ending")
                  /\ Writes(p, k, "ending") => request'[p].new = request[p].new
          BY WritesSame
        <4>2. QED
          BY <2>4, <3>2, <4>1 DEF WillEnd
      <3>3. QED
        BY <2>4, <3>1, <3>2
    <2>5. QED
      BY <1>1, <2>1, <2>2, <2>3, <2>4 DEF EndingInStep
  <1>6. QED
    BY <1>2, <1>4, <1>5 DEF Told

\* Stripe sends the events that say what has become of k.
LEMMA AnnouncedTold ==
  ASSUME IInv, NEW k \in Subs, Told(k), SameHooks(k), NEW r, NEW types,
         Announces(k, r, types), Becomes(k, r, types), sub' = sub,
         r.ending # remote[k].ending => Begun(k)
  PROVE  Told(k)'
  <1> DEFINE m == Len(types)
  <1>0. PICK n \in Nat : n = Len(events[k])
    BY LenProperties DEF IInv, TypeOK
  <1>1. Pipe(k) /\ StatusInStep(k) /\ EndingInStep(k) /\ Sale(k) /\ AtStripe
    BY Parts DEF Told, Sales
  <1>2. /\ remote'[k] = r
        /\ n \in Nat /\ DOMAIN events[k] = 1 .. n /\ m \in 1 .. 2
        /\ Len(events'[k]) = n + m /\ DOMAIN events'[k] = 1 .. n + m
        /\ \A i \in DOMAIN events[k] : events'[k][i] = events[k][i]
        /\ \A i \in 1 .. m : events'[k][n + i] = Message(types[i], r)
    BY <1>0, <1>1, Announced
  <1>3. /\ Begun(k)' <=> Begun(k)
        /\ Sold(k)' /\ (~Sold(k) => remote[k].status = "open")
        /\ remote[k].status = "open" <=> types = <<"completed">>
    BY <1>2 DEF Begun, Sold, Announces, Granting
  <1>4. remote[k].status = "open" =>
            n = 0 /\ ~Begun(k) /\ (\A q \in Callers : ~Hook(q, k)) /\ m = 1
    <2>1. remote[k].status = "open" => events[k] = <<>> /\ ~Begun(k)
      BY <1>1, <1>3 DEF Sale, Sold
    <2>2. remote[k].status = "open" => \A q \in Callers : ~Hook(q, k)
      BY <1>1, <1>3 DEF Sale, Sold
    <2>3. QED
      BY <1>0, <1>3, <2>1, <2>2
  <1>5. /\ types = <<"completed">> => m = 1 /\ types[1] = "completed"
        /\ types = <<"updated">> => m = 1 /\ types[1] = "updated"
        /\ types = <<"deleted">> => m = 1 /\ types[1] = "deleted"
        /\ types = <<"failed">> => m = 1 /\ types[1] = "failed"
        /\ types = <<"updated", "failed">> => m = 2 /\ types[1] = "updated" /\ types[2] = "failed"
        /\ types = <<"updated", "paid">> => m = 2 /\ types[1] = "updated" /\ types[2] = "paid"
    OBVIOUS
  <1>6. types \in Bulletins
    BY DEF Announces, Bulletins
  <1> HIDE DEF m
  <1>7. \A i \in 1 .. n + m : i \in DOMAIN events[k] \/ (i - n \in 1 .. m /\ n + (i - n) = i)
    BY <1>2
  <1>8. \A i \in 1 .. m : /\ events'[k][n + i].type = types[i]
                          /\ events'[k][n + i].status = r.status
                          /\ events'[k][n + i].ending = r.ending
                          /\ n + i \in DOMAIN events'[k]
    <2> SUFFICES ASSUME NEW i \in 1 .. m
                 PROVE  /\ events'[k][n + i].type = types[i]
                        /\ events'[k][n + i].status = r.status
                        /\ events'[k][n + i].ending = r.ending
                        /\ n + i \in DOMAIN events'[k]
      OBVIOUS
    <2>1. events'[k][n + i] = Message(types[i], r)
      BY <1>2
    <2>2. n + i \in 1 .. n + m
      BY <1>2
    <2>3. QED
      BY <1>2, <2>1, <2>2 DEF Message
  <1>9. Pipe(k)'
    <2>1. ASSUME NEW i \in DOMAIN events'[k], events'[k][i].type = "completed"
          PROVE  i = 1 /\ ~Begun(k)' /\ \A p \in Callers : ~Hook(p, k)'
      <3>1. CASE i \in DOMAIN events[k]
        BY <1>1, <1>2, <1>3, <2>1, <3>1 DEF Pipe, SameHooks
      <3>2. CASE i - n \in 1 .. m /\ n + (i - n) = i
        <4>1. types[i - n] = "completed"
          BY <1>8, <2>1, <3>2
        <4>2. types = <<"completed">> /\ m = 1
          BY <1>5, <1>6, <3>2, <4>1 DEF Bulletins
        <4>3. n = 0 /\ i = 1
          BY <1>3, <1>4, <3>2, <4>2
        <4>4. QED
          BY <1>3, <1>4, <4>2, <4>3 DEF SameHooks
      <3>3. QED
        BY <1>2, <1>7, <2>1, <3>1, <3>2
    <2>2. ASSUME ~Begun(k), \A p \in Callers : ~Hook(p, k)
          PROVE  events'[k] # <<>> /\ events'[k][1].type = "completed"
      <3>1. events'[k] # <<>>
        BY <1>2
      <3>2. CASE Sold(k)
        <4>1. events[k] # <<>> /\ events[k][1].type = "completed"
          BY <1>1, <2>2, <3>2 DEF Pipe
        <4>2. 1 \in DOMAIN events[k]
          BY <1>1, <4>1, LenProperties, EmptySeq DEF AtStripe
        <4>3. QED
          BY <1>2, <3>1, <4>1, <4>2
      <3>3. CASE ~Sold(k)
        BY <1>3, <1>4, <1>5, <1>8, <3>1, <3>3
      <3>4. QED
        BY <3>2, <3>3
    <2>3. QED
      BY <1>1, <1>3, <2>1, <2>2 DEF Pipe, SameHooks
  <1>10. StatusInStep(k)'
    <2>1. n + m > 0 /\ n + m \in DOMAIN events'[k] /\ events'[k][n + m].status = r.status
          /\ events'[k][n + m].type = types[m]
      BY <1>2, <1>8
    <2>2. ASSUME types[m] = "paid"
          PROVE  /\ n + m # 1 /\ events'[k][n + m - 1].type = "updated"
                 /\ events'[k][n + m - 1].status = "active"
      <3>1. types = <<"updated", "paid">> /\ m = 2
        BY <1>5, <1>6, <2>2 DEF Bulletins
      <3>2. r.status = "active"
        BY <3>1 DEF Announces
      <3>3. n + m - 1 = n + 1 /\ 1 \in 1 .. m /\ n + m # 1
        BY <1>2, <3>1
      <3>4. QED
        BY <1>5, <1>8, <3>1, <3>2, <3>3
    <2>3. QED
      BY <1>2, <2>1, <2>2 DEF StatusInStep
  <1>11. EndingInStep(k)'
    <2>1. ~Begun(k)' => ~remote'[k].ending /\ ~sub'[k].ending
      BY <1>1, <1>2, <1>3 DEF EndingInStep
    <2>2. \A p \in Callers : Hook(p, k)' /\ Activates(p)' => ~request'[p].new.ending
      BY <1>1 DEF EndingInStep, SameHooks
    <2>3. CASE types[1] = "updated"
      <3>1. n + 1 \in DOMAIN events'[k] /\ Tells(k, n + 1)' /\ events'[k][n + 1].ending = r.ending
        BY <1>2, <1>8, <2>3 DEF Tells
      <3>2. ASSUME NEW i \in DOMAIN events'[k], Tells(k, i)',
                   \A j \in DOMAIN events'[k] : j > i => ~Tells(k, j)'
            PROVE  events'[k][i].ending = r.ending
        <4>1. ~(n + 1 > i)
          <5> DEFINE j == n + 1
          <5>1. j \in DOMAIN events'[k] /\ Tells(k, j)'
            BY <3>1
          <5> HIDE DEF j
          <5>2. ~(j > i)
            BY <3>2, <5>1
          <5>3. QED
            BY <5>2 DEF j
        <4>2. i - n \in 1 .. m /\ n + (i - n) = i
          BY <1>2, <3>2, <4>1
        <4>3. QED
          BY <1>8, <4>2
      <3>3. QED
        BY <1>2, <2>1, <2>2, <3>1, <3>2 DEF EndingInStep
    <2>4. CASE types[1] # "updated"
      <3>1. types \in {<<"completed">>, <<"deleted">>, <<"failed">>} /\ m = 1
            /\ r.ending = remote[k].ending
        <4>1. CASE types = <<"failed">>
          BY <1>5, <4>1 DEF Announces
        <4>2. CASE types # <<"failed">>
          BY <1>5, <1>6, <2>4, <4>2 DEF Bulletins, Announces
        <4>3. QED
          BY <4>1, <4>2
      <3>2. ~Tells(k, n + 1)'
        BY <1>2, <1>8, <2>4 DEF Tells
      <3>3. \A i \in DOMAIN events[k] : (Tells(k, i)' <=> Tells(k, i)) /\ i \in DOMAIN events'[k]
        BY <1>2 DEF Tells
      <3>4. \A i \in DOMAIN events'[k] : i \in DOMAIN events[k] \/ i = n + 1
        BY <1>2, <3>1
      <3>5. ASSUME NEW i \in DOMAIN events'[k], Tells(k, i)',
                   \A j \in DOMAIN events'[k] : j > i => ~Tells(k, j)'
            PROVE  events'[k][i].ending = r.ending
        <4>1. i \in DOMAIN events[k] /\ Tells(k, i)
          BY <3>2, <3>3, <3>4, <3>5
        <4>2. Sold(k)
          BY <1>2, <1>3, <1>4, <4>1
        <4>3. \A j \in DOMAIN events[k] : j > i => ~Tells(k, j)
          BY <3>3, <3>5
        <4>4. QED
          BY <1>1, <1>2, <3>1, <4>1, <4>2, <4>3 DEF EndingInStep
      <3>6. ASSUME \A i \in DOMAIN events'[k] : ~Tells(k, i)'
            PROVE  WillEnd(k, r.ending)'
        <4>1. CASE Sold(k)
          <5>1. WillEnd(k, remote[k].ending)
            BY <1>1, <3>3, <3>6, <4>1 DEF EndingInStep
          <5>2. QED
            BY <3>1, <5>1, WillSame
        <4>2. CASE ~Sold(k)
          <5>1. ~Begun(k) /\ \A q \in Callers : ~Hook(q, k)
            BY <1>3, <1>4, <4>2
          <5>2. ~remote[k].ending /\ ~sub[k].ending
            BY <1>1, <5>1 DEF EndingInStep
          <5>3. sub'[k].ending = r.ending
            <6>1. remote[k].ending \in BOOLEAN /\ sub[k].ending \in BOOLEAN
              BY DEF IInv, TypeOK, Remote, Doc
            <6>2. QED
              BY <3>1, <5>2, <6>1
          <5>4. \A q \in Callers : ~Writes(q, k, "ending")'
            BY <5>1 DEF Writes, SameHooks
          <5>5. QED
            BY <5>3, <5>4 DEF WillEnd
        <4>3. QED
          BY <4>1, <4>2
      <3>7. QED
        BY <1>2, <2>1, <2>2, <3>5, <3>6 DEF EndingInStep
    <2>5. QED
      BY <2>3, <2>4
  <1>12. QED
    BY <1>9, <1>10, <1>11 DEF Told

\* The event of k that was handled is done with.
LEMMA HandledTold ==
  ASSUME IInv, NEW k \in Subs, Told(k), NEW p \in Callers, Hook(p, k),
         \A q \in Callers : ~(q = p) => request'[q] = request[q],
         request'[p] = Idle, remote'[k] = remote[k], events'[k] = events[k], Begun(k)',
         sub'[k].status = IF Writes(p, k, "status") THEN request[p].new.status ELSE sub[k].status,
         sub'[k].ending = IF Writes(p, k, "ending") THEN request[p].new.ending ELSE sub[k].ending
  PROVE  Told(k)'
  <1>1. Pipe(k) /\ StatusInStep(k) /\ EndingInStep(k) /\ (Sold(k)' <=> Sold(k))
    BY DEF Told, Sold
  <1>2. \A q \in Callers : Hook(q, k) => q = p
    BY <1>1 DEF Pipe
  <1>3. \A q \in Callers : ~Hook(q, k)'
    <2>1. ~Hook(p, k)'
      BY IdleType DEF Hook
    <2>2. ASSUME NEW q \in Callers, q # p
          PROVE  ~Hook(q, k)'
      BY <1>2, <2>2 DEF Hook
    <2>3. QED
      BY <2>1, <2>2
  <1>4. \A q \in Callers, f \in {"status", "ending"} : ~Writes(q, k, f)'
    BY <1>3 DEF Writes
  <1>5. /\ \A s : WillBe(k, s) => sub'[k].status = s
        /\ \A b : WillEnd(k, b) => sub'[k].ending = b
    BY <1>2 DEF WillBe, WillEnd, Writes
  <1>6. /\ \A s : WillBe(k, s) => WillBe(k, s)'
        /\ \A b : WillEnd(k, b) => WillEnd(k, b)'
    BY <1>4, <1>5 DEF WillBe, WillEnd
  <1>7. Pipe(k)'
    <2>1. \A i \in DOMAIN events[k] : events[k][i].type # "completed"
      BY <1>1 DEF Pipe
    <2>2. QED
      BY <1>3, <2>1 DEF Pipe
  <1>8. StatusInStep(k)'
    BY <1>1, <1>6 DEF StatusInStep
  <1>9. EndingInStep(k)'
    <2>1. \A i : Tells(k, i)' <=> Tells(k, i)
      BY DEF Tells
    <2>2. QED
      BY <1>1, <1>3, <1>6, <2>1 DEF EndingInStep
  <1>10. QED
    BY <1>7, <1>8, <1>9 DEF Told

\* A complimentary plan begins.
LEMMA GivenTold ==
  ASSUME IInv, NEW k \in Subs, remote'[k] = remote[k], events'[k] = events[k],
         ~Sold(k), Begun(k)', \A q \in Callers : Hook(q, k)' => Hook(q, k)
  PROVE  Told(k)'
  <1>1. Sale(k) /\ ~Sold(k)'
    BY DEF IInv, Sold
  <1>2. \A q \in Callers : ~Hook(q, k)'
    BY <1>1 DEF Sale
  <1>3. events'[k] = <<>>
    BY <1>1 DEF Sale
  <1>4. QED
    BY <1>1, <1>2, <1>3 DEF Told, Pipe, StatusInStep, EndingInStep

\* The next event of k is taken up.
LEMMA TakenTold ==
  ASSUME IInv, NEW k \in Subs, Told(k), NEW p \in Callers, \A q \in Callers : ~Hook(q, k),
         1 \in DOMAIN events[k], Deliver(p, k, 1)
  PROVE  Told(k)'
  <1> DEFINE e == events[k][1]
             r == request'[p]
  <1>0. PICK n \in Nat : n = Len(events[k])
    BY LenProperties DEF IInv, TypeOK
  <1>1. Pipe(k) /\ StatusInStep(k) /\ EndingInStep(k)
    BY DEF Told
  <1>2. /\ Sold(k) /\ e \in Event /\ WellFormed(e)
        /\ UNCHANGED <<remote, sub>>
        /\ Handled(k, e, r)
        /\ \A q \in Callers : q # p => request'[q] = request[q]
        /\ n > 0 /\ Len(events'[k]) = n - 1 /\ DOMAIN events'[k] = 1 .. n - 1
        /\ DOMAIN events[k] = 1 .. n
        /\ \A j \in 1 .. n - 1 :
               events'[k][j] = IF j < 1 THEN events[k][j] ELSE events[k][j + 1]
    BY <1>0, DeliverActs
  <1>3. \A j \in 1 .. n - 1 : events'[k][j] = events[k][j + 1] /\ j + 1 \in 1 .. n /\ j + 1 # 1
    BY <1>2
  <1>4. (Sold(k)' <=> Sold(k)) /\ (Begun(k)' <=> Begun(k))
    BY <1>2 DEF Sold, Begun
  <1>5. \A q \in Callers : q # p => ~Hook(q, k)'
    BY <1>2 DEF Hook
  <1>6. e.type = "completed" <=> ~Begun(k)
    <2>1. ~Begun(k) => e.type = "completed"
      BY <1>1, <1>2 DEF Pipe
    <2>2. e.type = "completed" => ~Begun(k)
      BY <1>1, <1>2 DEF Pipe
    <2>3. QED
      BY <2>1, <2>2
  <1>7. Hook(p, k)' /\ (Activates(p)' <=> ~Begun(k))
    BY <1>2, <1>6, TodoSteps DEF Handled, Hook, Activates, Activation
  <1>8. ASSUME Begun(k)
        PROVE  /\ r.new = Applied(k, e)
               /\ \A f \in {"status", "ending"} :
                      Writes(p, k, f)' <=> Applied(k, e)[f] # sub[k][f]
    <2>1. r.new = Applied(k, e) /\ r.paths = {f \in Paths : r.new[f] # sub[k][f]}
      BY <1>2, <1>6, <1>8 DEF Handled
    <2>2. "status" \in Paths /\ "ending" \in Paths
      BY DEF Paths
    <2>3. QED
      BY <1>7, <1>8, <2>1, <2>2 DEF Writes
  <1>9. \A q \in Callers : q # p => \A f : ~Writes(q, k, f)'
    BY <1>5 DEF Writes
  <1>10. ASSUME Begun(k), NEW s, s = Applied(k, e).status
         PROVE  WillBe(k, s)'
    <2>1. CASE s # sub[k].status
      <3>1. Writes(p, k, "status")' /\ r.new.status = s
        BY <1>8, <1>10, <2>1
      <3>2. QED
        BY <3>1 DEF WillBe
    <2>2. CASE s = sub[k].status
      <3>1. ~Writes(p, k, "status")' /\ sub'[k].status = s
        BY <1>2, <1>8, <1>10, <2>2
      <3>2. QED
        BY <1>9, <3>1 DEF WillBe
    <2>3. QED
      BY <2>1, <2>2
  <1>11. ASSUME Begun(k), NEW b, b = Applied(k, e).ending
         PROVE  WillEnd(k, b)'
    <2>1. CASE b # sub[k].ending
      <3>1. Writes(p, k, "ending")' /\ r.new.ending = b
        BY <1>8, <1>11, <2>1
      <3>2. QED
        BY <3>1 DEF WillEnd
    <2>2. CASE b = sub[k].ending
      <3>1. ~Writes(p, k, "ending")' /\ sub'[k].ending = b
        BY <1>2, <1>8, <1>11, <2>2
      <3>2. QED
        BY <1>9, <3>1 DEF WillEnd
    <2>3. QED
      BY <2>1, <2>2
  <1>12. ASSUME ~Begun(k)
         PROVE  /\ Writes(p, k, "status")' /\ r.new.status = Mapped(remote[k].status)
                /\ Writes(p, k, "ending")' /\ r.new.ending = FALSE /\ ~remote[k].ending
    <2>1. e.type = "completed" /\ Hook(p, k)' /\ Activates(p)'
      BY <1>6, <1>7, <1>12
    <2>2. Writes(p, k, "status")' /\ Writes(p, k, "ending")'
      BY <2>1 DEF Writes
    <2>3. r.new.status = Mapped(remote[k].status) /\ ~r.new.ending /\ r.new.ending \in BOOLEAN
      BY <1>2, <2>1 DEF Handled, Request, Doc
    <2>4. ~remote[k].ending
      BY <1>1, <1>12 DEF EndingInStep
    <2>5. QED
      BY <2>2, <2>3, <2>4
  <1>13. Begun(k) => /\ e.type # "completed"
                     /\ Applied(k, e).status = IF e.type = "updated" THEN Mapped(e.status)
                           ELSE IF e.type = "deleted" THEN "cancelled"
                           ELSE IF e.type = "failed" THEN "past_due"
                           ELSE IF sub[k].status = "past_due" THEN "active"
                           ELSE sub[k].status
                     /\ Applied(k, e).ending = IF e.type = "updated" THEN e.ending
                                               ELSE sub[k].ending
    BY <1>2, <1>6, AppliedType
  <1>14. \A f : ~\E q \in Callers : Writes(q, k, f)
    BY DEF Writes
  <1>15. /\ \A s : WillBe(k, s) => sub[k].status = s
         /\ \A b : WillEnd(k, b) => sub[k].ending = b
    BY <1>14 DEF WillBe, WillEnd
  <1> HIDE DEF e, r
  <1>16. Pipe(k)'
    <2>1. ASSUME NEW i \in DOMAIN events'[k], events'[k][i].type = "completed"
          PROVE  FALSE
      <3>1. i \in 1 .. n - 1
        BY <1>2
      <3>2. events[k][i + 1].type = "completed" /\ i + 1 \in DOMAIN events[k] /\ i + 1 # 1
        BY <1>2, <1>3, <2>1, <3>1
      <3>3. QED
        BY <1>1, <3>2 DEF Pipe
    <2>2. QED
      BY <1>4, <1>5, <1>7, <2>1 DEF Pipe
  <1>17. StatusInStep(k)'
    <2>1. ASSUME NEW s, s = Mapped(remote[k].status), n = 1
          PROVE  WillBe(k, s)'
      <3>1. e.status = remote[k].status
        BY <1>0, <1>1, <1>2, <2>1 DEF StatusInStep, e
      <3>2. CASE ~Begun(k)
        BY <1>12, <2>1, <3>2 DEF WillBe, r
      <3>3. CASE Begun(k)
        <4>1. ASSUME e.type = "paid"
              PROVE  sub[k].status \in Granting
          BY <1>0, <1>1, <1>2, <1>15, <2>1, <4>1 DEF StatusInStep, e
        <4>2. s = Applied(k, e).status
          BY <1>2, <1>13, <2>1, <3>1, <3>3, <4>1 DEF WellFormed, Mapped, Granting, Event
        <4>3. QED
          BY <1>10, <3>3, <4>2
      <3>4. QED
        BY <3>2, <3>3
    <2>2. ASSUME n > 1
          PROVE  /\ events'[k][n - 1] = events[k][n]
                 /\ events[k][n].status = remote[k].status
                 /\ events[k][n].type = "paid" =>
                       events[k][n - 1].type = "updated" /\ events[k][n - 1].status = "active"
      <3>1. n - 1 \in 1 .. n - 1 /\ n - 1 + 1 = n
        BY <2>2
      <3>2. events'[k][n - 1] = events[k][n]
        BY <1>3, <3>1
      <3>3. n > 0 /\ n # 1
        BY <2>2
      <3>4. QED
        BY <1>0, <1>1, <1>2, <3>2, <3>3 DEF StatusInStep
    <2>3. ASSUME n > 1, events[k][n].type = "paid", n - 1 = 1
          PROVE  \E s \in Granting : WillBe(k, s)'
      <3>1. e.type = "updated" /\ e.status = "active"
        BY <2>2, <2>3 DEF e
      <3>2. Begun(k)
        BY <1>6, <3>1
      <3>3. PICK s : s = "active"
        OBVIOUS
      <3>4. s = Applied(k, e).status /\ s \in Granting
        BY <1>13, <3>1, <3>2, <3>3 DEF Mapped, Granting
      <3>5. QED
        BY <1>10, <3>2, <3>4
    <2>4. ASSUME n > 1, events[k][n].type = "paid", n - 1 # 1
          PROVE  events'[k][n - 1 - 1].type = "updated" /\ events'[k][n - 1 - 1].status = "active"
      <3>1. n - 1 - 1 \in 1 .. n - 1 /\ n - 1 - 1 + 1 = n - 1
        BY <2>4
      <3>2. events'[k][n - 1 - 1] = events[k][n - 1]
        BY <1>3, <3>1
      <3>3. QED
        BY <2>2, <2>4, <3>2
    <2>5. n - 1 = 0 => n = 1
      BY <1>2
    <2>6. n - 1 > 0 => n > 1
      BY <1>2
    <2>7. PICK s : s = Mapped(remote[k].status)
      OBVIOUS
    <2>8. remote'[k].status = remote[k].status /\ Mapped(remote'[k].status) = s
      BY <1>2, <2>7
    <2>9. n - 1 = 0 => WillBe(k, s)'
      BY <2>1, <2>5, <2>7
    <2>10. n - 1 > 0 =>
            /\ events'[k][n - 1].status = remote'[k].status
            /\ events'[k][n - 1].type = "paid" =>
                IF n - 1 = 1 THEN \E t \in Granting : WillBe(k, t)'
                ELSE events'[k][n - 1 - 1].type = "updated"
                     /\ events'[k][n - 1 - 1].status = "active"
      BY <2>2, <2>3, <2>4, <2>6, <2>8
    <2>11. PICK m : m = n - 1
      OBVIOUS
    <2>12. Len(events'[k]) = m
      BY <1>2, <2>11
    <2>13. QED
      BY <2>8, <2>9, <2>10, <2>11, <2>12 DEF StatusInStep
  <1>18. EndingInStep(k)'
    <2>1. ~Begun(k)' => ~remote'[k].ending /\ ~sub'[k].ending
      BY <1>1, <1>2, <1>4 DEF EndingInStep
    <2>2. \A q \in Callers : Hook(q, k)' /\ Activates(q)' => ~request'[q].new.ending
      BY <1>5, <1>7, <1>12 DEF r
    <2>3. \A i \in 1 .. n - 1 : Tells(k, i)' <=> Tells(k, i + 1)
      BY <1>3 DEF Tells
    <2>4. ASSUME NEW i \in DOMAIN events'[k], Tells(k, i)',
                 \A j \in DOMAIN events'[k] : j > i => ~Tells(k, j)'
          PROVE  events'[k][i].ending = remote[k].ending
      <3>1. i \in 1 .. n - 1 /\ i + 1 \in DOMAIN events[k]
        BY <1>2, <1>3
      <3>2. Tells(k, i + 1)
        BY <2>3, <2>4, <3>1
      <3>3. ASSUME NEW j \in DOMAIN events[k], j > i + 1
            PROVE  ~Tells(k, j)
        <4>1. j - 1 \in 1 .. n - 1 /\ j - 1 > i /\ j - 1 + 1 = j
          BY <1>2, <3>1, <3>3
        <4>2. PICK h \in 1 .. n - 1 : h = j - 1
          BY <4>1
        <4>3. h \in DOMAIN events'[k] /\ h > i /\ h + 1 = j
          BY <1>2, <4>1, <4>2
        <4>4. ~Tells(k, h)'
          BY <2>4, <4>3
        <4>5. QED
          BY <2>3, <4>2, <4>3, <4>4
      <3>4. events[k][i + 1].ending = remote[k].ending
        BY <1>1, <1>2, <3>1, <3>2, <3>3 DEF EndingInStep
      <3>5. QED
        BY <1>3, <3>1, <3>4
    <2>5. ASSUME \A i \in DOMAIN events'[k] : ~Tells(k, i)', NEW b, b = remote[k].ending
          PROVE  WillEnd(k, b)'
      <3>1. ASSUME NEW j \in DOMAIN events[k], j > 1
            PROVE  ~Tells(k, j)
        <4>1. j - 1 \in 1 .. n - 1 /\ j - 1 + 1 = j
          BY <1>2, <3>1
        <4>2. PICK h \in 1 .. n - 1 : h = j - 1
          BY <4>1
        <4>3. h \in DOMAIN events'[k] /\ h + 1 = j
          BY <1>2, <4>1, <4>2
        <4>4. QED
          BY <2>3, <2>5, <4>2, <4>3
      <3>2. CASE ~Begun(k)
        <4>1. remote[k].ending \in BOOLEAN
          BY DEF IInv, TypeOK, Remote
        <4>2. Writes(p, k, "ending")' /\ request'[p].new.ending = b
          BY <1>12, <2>5, <3>2, <4>1 DEF r
        <4>3. QED
          BY <4>2 DEF WillEnd
      <3>3. CASE Begun(k) /\ Tells(k, 1)
        <4>1. e.ending = remote[k].ending
          BY <1>1, <1>2, <3>1, <3>3 DEF EndingInStep, e
        <4>2. b = Applied(k, e).ending
          BY <1>13, <2>5, <3>3, <4>1 DEF Tells, e
        <4>3. QED
          BY <1>11, <3>3, <4>2
      <3>4. CASE Begun(k) /\ ~Tells(k, 1)
        <4>1. \A j \in DOMAIN events[k] : ~Tells(k, j)
          <5>1. \A j \in DOMAIN events[k] : j = 1 \/ j > 1
            BY <1>2
          <5>2. QED
            BY <3>1, <3>4, <5>1
        <4>2. sub[k].ending = b
          BY <1>1, <1>2, <1>15, <2>5, <4>1 DEF EndingInStep
        <4>3. b = Applied(k, e).ending
          BY <1>13, <3>4, <4>2 DEF Tells, e
        <4>4. QED
          BY <1>11, <3>4, <4>3
      <3>5. QED
        BY <3>2, <3>3, <3>4
    <2>6. PICK b : b = remote[k].ending
      OBVIOUS
    <2>7. remote'[k].ending = b /\ remote'[k].ending = remote[k].ending
      BY <1>2, <2>6
    <2>8. (\A i \in DOMAIN events'[k] : ~Tells(k, i)') => WillEnd(k, b)'
      BY <2>5, <2>6
    <2>9. QED
      BY <2>1, <2>2, <2>4, <2>7, <2>8 DEF EndingInStep
  <1>19. QED
    BY <1>16, <1>17, <1>18 DEF Told

-----------------------------------------------------------------------------
(* Whoever says that a plan is over, or ending, has it so at Stripe.        *)

LEMMA StaysHeard ==
  ASSUME NEW k \in Subs, Heard(k), OneVisitor(k)', sub[k].comp => sub'[k].comp,
         Over(k) => Over(k)',
         sub'[k].status = "cancelled" => sub[k].status = "cancelled" \/ Over(k)',
         \A q \in Callers :
            \/ request'[q] = request[q] /\ (Visitor(q, k) => remote'[k].ending = remote[k].ending)
            \/ EndsOver(q, k)' /\ EndingAsked(q, k)'
  PROVE  Heard(k)'
  <1>1. Ended(k) /\ \A q \in Callers : EndingAsked(q, k)
    BY DEF Heard
  <1>2. ASSUME NEW q \in Callers, request'[q] = request[q],
               Visitor(q, k) => remote'[k].ending = remote[k].ending
        PROVE  EndsOver(q, k)' /\ EndingAsked(q, k)'
    <2>1. EndsOver(q, k)'
      BY <1>1, <1>2 DEF Ended, EndsOver, Hook, Activates
    <2>2. EndingAsked(q, k)'
      BY <1>1, <1>2 DEF EndingAsked, Visitor, Saves
    <2>3. QED
      BY <2>1, <2>2
  <1>3. \A q \in Callers : EndsOver(q, k)' /\ EndingAsked(q, k)'
    BY <1>2
  <1>4. Ended(k)'
    BY <1>1, <1>3 DEF Ended
  <1>5. QED
    BY <1>3, <1>4 DEF Heard

LEMMA NoVisitorMore ==
  ASSUME NEW k \in Subs, Heard(k), \A q \in Callers : NoMore(q, k)
  PROVE  OneVisitor(k)'
  BY DEF Heard, OneVisitor, NoMore

\* A caller who is done says nothing more.
LEMMA IdleHeard ==
  ASSUME NEW k \in Subs, NEW q \in Callers, request'[q] = Idle
  PROVE  EndsOver(q, k)' /\ EndingAsked(q, k)' /\ ~Hook(q, k)' /\ ~Visitor(q, k)'
  <1>1. request'[q].id # k /\ request'[q].todo = <<>> /\ request'[q].by = "none"
    BY IdleType DEF Subs
  <1>2. request'[q].todo # <<"end">>
    BY <1>1
  <1>3. QED
    BY <1>1, <1>2 DEF EndsOver, EndingAsked, Hook, Visitor

LEMMA SameHook ==
  ASSUME NEW k \in Subs, NEW p \in Callers, \A q \in Callers : q # p => request'[q] = request[q],
         \/ ~Hook(p, k) /\ ~Hook(p, k)'
         \/ /\ Hook(p, k)' <=> Hook(p, k)
            /\ Activates(p)' <=> Activates(p)
            /\ request'[p].new = request[p].new /\ request'[p].paths = request[p].paths
  PROVE  SameHooks(k)
  <1>1. ASSUME NEW q \in Callers, q # p
        PROVE  /\ Hook(q, k)' <=> Hook(q, k)
               /\ Hook(q, k) => /\ Activates(q)' <=> Activates(q)
                                /\ request'[q].new = request[q].new
                                /\ request'[q].paths = request[q].paths
    BY <1>1 DEF Hook, Activates
  <1>2. QED
    BY <1>1 DEF SameHooks

\* What is over stays over.
LEMMA StaysOver ==
  ASSUME NEW k \in Subs, sub[k].comp => sub'[k].comp,
         remote'[k] = remote[k] \/ \E r, types : Announces(k, r, types)
  PROVE  Over(k) => Over(k)'
  BY DEF Over, Announces, Granting

-----------------------------------------------------------------------------
(* Every step keeps the copy in step.                                       *)

LEMMA StripeSteps ==
  ASSUME IInv, \A k \in Subs : Told(k) /\ Heard(k), NEW k \in Subs,
         PayCheckout(k) \/ ChargeFails(k) \/ ChargePaid(k) \/ PeriodEndsAtStripe(k)
  PROVE  \A j \in Subs : Told(j)' /\ Heard(j)'
  <1>1. PICK r, types : Announces(k, r, types) /\ Becomes(k, r, types)
    BY StripeAnnounces
  <1>2. UNCHANGED <<sub, request>>
    BY StripeAnnounces
  <1>3. remote'[k].ending = remote[k].ending
    <2>1. remote[k] \in Remote /\ remote \in [Subs -> Remote]
      BY DEF IInv, TypeOK
    <2>2. \E s : remote' = [remote EXCEPT ![k] = [remote[k] EXCEPT !.status = s]]
      BY DEF PayCheckout, ChargeFails, ChargePaid, PeriodEndsAtStripe, Becomes
    <2>3. QED
      BY <2>1, <2>2 DEF Remote
  <1>4. /\ remote'[k] = r
        /\ \A j \in Subs : j # k => remote'[j] = remote[j] /\ events'[j] = events[j]
    BY <1>1, Parts, Announced
  <1>5. \A j \in Subs : SameHooks(j) /\ \A q \in Callers : NoMore(q, j)
    BY <1>2 DEF SameHooks, NoMore, Hook, Visitor, Activates
  <1>6. Told(k)'
    BY <1>1, <1>2, <1>3, <1>4, <1>5, AnnouncedTold
  <1>7. \A j \in Subs : j # k => Told(j)'
    BY <1>2, <1>4, <1>5, StaysTold DEF Begun
  <1>8. ASSUME NEW j \in Subs
        PROVE  Heard(j)'
    <2>1. OneVisitor(j)'
      BY <1>5, NoVisitorMore
    <2>2. Over(j) => Over(j)'
      BY <1>1, <1>2, <1>4, StaysOver
    <2>3. remote'[j].ending = remote[j].ending
      BY <1>3, <1>4
    <2>4. QED
      BY <1>2, <2>1, <2>2, <2>3, StaysHeard
  <1>9. QED
    BY <1>6, <1>7, <1>8

LEMMA TimeSteps ==
  ASSUME IInv, \A k \in Subs : Told(k) /\ Heard(k), TimePasses
  PROVE  \A j \in Subs : Told(j)' /\ Heard(j)'
  <1> TAKE j \in Subs
  <1>1. UNCHANGED <<remote, events, request>>
        /\ sub'[j].status = sub[j].status /\ sub'[j].ending = sub[j].ending
        /\ sub'[j].comp = sub[j].comp
    BY TimeKeeps
  <1>2. SameHooks(j) /\ \A q \in Callers : NoMore(q, j)
    BY <1>1 DEF SameHooks, NoMore, Hook, Visitor, Activates
  <1>3. Told(j)'
    BY <1>1, <1>2, StaysTold DEF Begun
  <1>4. OneVisitor(j)' /\ (Over(j) => Over(j)')
    BY <1>1, <1>2, NoVisitorMore, StaysOver
  <1>5. QED
    BY <1>1, <1>3, <1>4, StaysHeard

LEMMA CheckoutSteps ==
  ASSUME IInv, \A k \in Subs : Told(k) /\ Heard(k), NEW k \in Subs, NEW plan \in Plans,
         Checkout(k, plan)
  PROVE  \A j \in Subs : Told(j)' /\ Heard(j)'
  <1>1. /\ UNCHANGED <<sub, events, request>>
        /\ remote[k].status = "none" /\ sub[k].status = "none"
        /\ remote'[k].status = "open" /\ remote'[k].ending = remote[k].ending
        /\ \A j \in Subs : j # k => remote'[j] = remote[j]
    BY CheckoutKeeps
  <1>2. \A j \in Subs : SameHooks(j) /\ \A q \in Callers : NoMore(q, j)
    BY <1>1 DEF SameHooks, NoMore, Hook, Visitor, Activates
  <1>3. \A j \in Subs : j # k => Told(j)'
    BY <1>1, <1>2, StaysTold DEF Begun
  <1>4. Told(k)'
    <2>1. ~Sold(k) /\ ~Sold(k)' /\ Sale(k) /\ EndingInStep(k)
      BY <1>1 DEF Sold, IInv, Told
    <2>2. events[k] = <<>> /\ \A q \in Callers : ~Hook(q, k)'
      BY <1>1, <1>2, <2>1 DEF Sale, SameHooks
    <2>3. EndingInStep(k)'
      BY <1>1, <1>2, <2>1, <2>2 DEF EndingInStep, Begun
    <2>4. QED
      BY <1>1, <2>1, <2>2, <2>3 DEF Told, Pipe, StatusInStep
  <1>5. ASSUME NEW j \in Subs
        PROVE  Heard(j)'
    <2>1. Over(j) => Over(j)'
      BY <1>1 DEF Over
    <2>2. OneVisitor(j)'
      BY <1>2, NoVisitorMore
    <2>3. remote'[j].ending = remote[j].ending
      BY <1>1
    <2>4. QED
      BY <1>1, <2>1, <2>2, <2>3, StaysHeard
  <1>6. QED
    BY <1>3, <1>4, <1>5

LEMMA AskSteps ==
  ASSUME IInv, \A k \in Subs : Told(k) /\ Heard(k), NEW p \in Callers, Ask(p), tangles' = tangles
  PROVE  \A j \in Subs : Told(j)' /\ Heard(j)'
  <1>1. PICK r : Asked(r) /\ Begin(p, r)
    BY AskAsks
  <1>2. r \in Request /\ Sound(r) /\ r.todo # <<>> /\ r.by \in {"person", "job"}
    BY <1>1 DEF Asked
  <1>3. /\ request[p] = Idle /\ request'[p] = r
        /\ \A q \in Callers : q # p => request'[q] = request[q]
        /\ UNCHANGED <<remote, sub, events>>
        /\ r.id # 0 =>
             \A q \in Callers : ~(request[q].by \in {"person", "job"} /\ request[q].id = r.id)
    BY <1>1, <1>2, BeginKeeps
  <1> TAKE j \in Subs
  <1>4. SameHooks(j)
    <2>1. ~Hook(p, j) /\ ~Hook(p, j)'
      BY <1>2, <1>3, IdleType DEF Hook
    <2>2. QED
      BY <1>3, <2>1, SameHook
  <1>5. Told(j)'
    BY <1>3, <1>4, StaysTold DEF Begun
  <1>6. OneVisitor(j)'
    <2>1. CASE r.id = j
      <3>1. \A q \in Callers : q # p => ~Visitor(q, j)'
        BY <1>3, <2>1 DEF Visitor, Subs
      <3>2. QED
        BY <3>1 DEF OneVisitor
    <2>2. CASE r.id # j
      <3>1. \A q \in Callers : Visitor(q, j)' => Visitor(q, j)
        BY <1>3, <2>2 DEF Visitor
      <3>2. QED
        BY <3>1 DEF OneVisitor, Heard
    <2>3. QED
      BY <2>1, <2>2
  <1>7. EndsOver(p, j)'
    <2>1. r.id = j /\ "status" \in r.paths => sub[j].comp \/ r.todo = <<"cancel", "save">>
      BY <1>1 DEF Asked, Subs
    <2>2. r.todo # <<"end">>  \/ r.other # j
      <3>1. r.todo = <<"end">> => r.other \in r.others
        BY <1>2 DEF Sound
      <3>2. QED
        BY <1>1, <3>1 DEF Asked
    <2>3. QED
      BY <1>2, <1>3, <2>1, <2>2 DEF EndsOver, Hook, Over
  <1>8. EndingAsked(p, j)'
    <2>1. r.id = j => r.ending = r.new.ending
                      /\ ("ending" \in r.paths /\ ~sub[j].comp =>
                            r.todo \in {<<"change", "save">>, <<"ending", "save">>,
                                        <<"price", "ending", "save">>})
      BY <1>1 DEF Asked, Subs
    <2>2. QED
      BY <1>3, <2>1 DEF EndingAsked, Visitor, Saves
  <1>9. Over(j) => Over(j)'
    BY <1>3 DEF Over
  <1>10. QED
    BY <1>3, <1>5, <1>6, <1>7, <1>8, <1>9, StaysHeard

LEMMA UpdateSteps ==
  ASSUME IInv, \A k \in Subs : Told(k) /\ Heard(k), NEW p \in Callers, UpdateStripe(p)
  PROVE  \A j \in Subs : Told(j)' /\ Heard(j)'
  <1> DEFINE r == request[p]
  <1>0. PICK k \in Subs : k = r.id
    BY UpdateActs
  <1>1. /\ Visitor(p, k) /\ Begun(k) /\ r \in Request /\ Sound(r)
        /\ UNCHANGED <<sub, bounds, history>>
        /\ \A q \in Callers : q # p => request'[q] = request[q]
        /\ \A q \in Callers, j \in Subs : NoMore(q, j)
    BY <1>0, UpdateActs
  <1>2. \A j \in Subs : ~Hook(p, j)
    BY <1>1 DEF Visitor, Hook
  <1>3. \A j \in Subs : SameHooks(j)
    BY <1>1, <1>2, SameHook DEF NoMore
  <1>4. \A j \in Subs : OneVisitor(j)'
    BY <1>1, NoVisitorMore
  <1>5. CASE request'[p] = Idle /\ UNCHANGED <<remote, events>>
    <2> TAKE j \in Subs
    <2>1. Told(j)'
      BY <1>1, <1>3, <1>5, StaysTold DEF Begun
    <2>2. EndsOver(p, j)' /\ EndingAsked(p, j)'
      BY <1>5, IdleHeard
    <2>3. Over(j) => Over(j)'
      BY <1>1, <1>5 DEF Over
    <2>4. QED
      BY <1>1, <1>4, <1>5, <2>1, <2>2, <2>3, StaysHeard
  <1>6. CASE \E step \in {"price", "ending", "change"}, to \in Remote :
                 /\ At(p, step)
                 /\ Announces(k, to, <<"updated">>) /\ Becomes(k, to, <<"updated">>)
                 /\ to.status = remote[k].status
                 /\ to.ending = IF step = "price" THEN remote[k].ending ELSE r.ending
                 /\ request'[p] = [r EXCEPT !.todo =
                       IF r.todo = <<"price", "ending", "save">>
                       THEN <<"ending", "save">> ELSE <<"save">>]
    <2>1. PICK step \in {"price", "ending", "change"}, to \in Remote :
                 /\ At(p, step)
                 /\ Announces(k, to, <<"updated">>) /\ Becomes(k, to, <<"updated">>)
                 /\ to.status = remote[k].status
                 /\ to.ending = IF step = "price" THEN remote[k].ending ELSE r.ending
                 /\ request'[p] = [r EXCEPT !.todo =
                       IF r.todo = <<"price", "ending", "save">>
                       THEN <<"ending", "save">> ELSE <<"save">>]
      BY <1>6
    <2>2. /\ remote'[k] = to
          /\ \A j \in Subs : j # k => remote'[j] = remote[j] /\ events'[j] = events[j]
      BY <2>1, Parts, Announced
    <2>3. Told(k)'
      BY <1>1, <1>3, <2>1, AnnouncedTold
    <2>4. \A j \in Subs : j # k => Told(j)'
      BY <1>1, <1>3, <2>2, StaysTold DEF Begun
    <2>5. /\ request'[p].by = r.by /\ request'[p].id = r.id /\ request'[p].new = r.new
          /\ request'[p].paths = r.paths /\ request'[p].ending = r.ending
          /\ request'[p].todo = IF r.todo = <<"price", "ending", "save">>
                                THEN <<"ending", "save">> ELSE <<"save">>
      BY <1>1, <2>1 DEF Request
    <2>6. request'[p].todo \in {<<"ending", "save">>, <<"save">>}
      BY <2>5
    <2>7. request'[p].todo \notin Activation /\ request'[p].todo # <<"end">>
          /\ request'[p].todo \notin {<<"price", "save">>, <<"cancel", "save">>}
      BY <2>6 DEF Activation
    <2>8. step = "price" => r.todo \in {<<"price", "save">>, <<"price", "ending", "save">>}
      BY <2>1, AtStep
    <2>9. step # "price" => r.todo \in {<<"ending", "save">>, <<"change", "save">>}
      BY <2>1, AtStep
    <2>10. r.todo \notin Activation /\ r.todo # <<"cancel", "save">>
      BY <2>8, <2>9 DEF Activation
    <2>11. ASSUME NEW j \in Subs
           PROVE  EndsOver(p, j)' /\ EndingAsked(p, j)'
      <3>1. Over(j) => Over(j)'
        BY <1>1, <2>1, <2>2, StaysOver
      <3>2. EndsOver(p, j)'
        <4>1. EndsOver(p, j)
          BY DEF Heard, Ended
        <4>2. QED
          BY <1>2, <2>5, <2>7, <2>10, <3>1, <4>1 DEF EndsOver, Hook, Activates
      <3>3. EndingAsked(p, j)'
        <4> SUFFICES ASSUME j = k, ~sub[k].comp, "ending" \in r.paths
                     PROVE  /\ Saves(p)' => r.new.ending = remote'[k].ending
                            /\ r.new.ending = r.ending
          BY <1>0, <1>1, <2>5, <2>7 DEF EndingAsked, Visitor
        <4>1. r.new.ending = r.ending /\ r.todo # <<"price", "save">>
          BY <1>1 DEF Heard, EndingAsked
        <4>2. step = "price" => ~Saves(p)'
          BY <2>5, <2>8, <4>1 DEF Saves
        <4>3. step # "price" => remote'[k].ending = r.ending
          BY <2>1, <2>2
        <4>4. QED
          BY <4>1, <4>2, <4>3
      <3>4. QED
        BY <3>2, <3>3
    <2>12. ASSUME NEW j \in Subs
           PROVE  Heard(j)'
      <3>1. Over(j) => Over(j)'
        BY <1>1, <2>1, <2>2, StaysOver
      <3>2. ASSUME NEW q \in Callers, q # p, Visitor(q, j)
            PROVE  remote'[j].ending = remote[j].ending
        <4>1. j # k
          BY <1>1, <3>2 DEF Heard, OneVisitor
        <4>2. QED
          BY <2>2, <4>1
      <3>3. QED
        BY <1>1, <1>4, <2>11, <3>1, <3>2, StaysHeard
    <2>13. QED
      BY <2>3, <2>4, <2>12
  <1>7. QED
    BY <1>0, <1>5, <1>6, UpdateActs

\* A try to end a plan that has begun ends it, unless Stripe does not answer.
LEMMA EndSteps ==
  ASSUME IInv, \A k \in Subs : Told(k) /\ Heard(k), NEW k \in Subs, Begun(k), TryToEnd(k),
         ~lost', sub' = sub, \A j \in Subs : SameHooks(j)
  PROVE  /\ Over(k)'
         /\ \A j \in Subs : /\ Told(j)'
                            /\ Over(j) => Over(j)'
                            /\ remote'[j].ending = remote[j].ending
  <1>1. CASE \E to : Announces(k, to, <<"deleted">>) /\ Becomes(k, to, <<"deleted">>)
    <2>1. PICK to : Announces(k, to, <<"deleted">>) /\ Becomes(k, to, <<"deleted">>)
      BY <1>1
    <2>2. /\ remote'[k] = to
          /\ \A j \in Subs : j # k => remote'[j] = remote[j] /\ events'[j] = events[j]
      BY <2>1, Parts, Announced
    <2>3. to.status = "canceled" /\ to.ending = remote[k].ending
      BY <2>1 DEF Announces
    <2>4. Told(k)'
      BY <2>1, <2>3, AnnouncedTold
    <2>5. \A j \in Subs : j # k => Told(j)'
      BY <2>2, StaysTold DEF Begun
    <2>6. \A j \in Subs : Over(j) => Over(j)'
      BY <2>1, <2>2, StaysOver
    <2>7. QED
      BY <2>2, <2>3, <2>4, <2>5, <2>6 DEF Over
  <1>2. CASE remote[k].status \notin Granting /\ UNCHANGED <<remote, events>>
    <2>1. \A j \in Subs : Told(j)' /\ (Over(j) => Over(j)')
      BY <1>2, StaysTold DEF Begun, Over
    <2>2. Over(k)
      <3>1. ~Sold(k) => sub[k].comp
        BY DEF IInv, Sale
      <3>2. remote[k].status \in {"none", "open", "canceled"}
        BY <1>2 DEF IInv, TypeOK, Remote
      <3>3. QED
        BY <3>1, <3>2 DEF Over, Sold
    <2>3. QED
      BY <1>2, <2>1, <2>2
  <1>3. QED
    BY <1>1, <1>2, EndActs

LEMMA CancelSteps ==
  ASSUME IInv, \A k \in Subs : Told(k) /\ Heard(k), NEW p \in Callers, CancelStripe(p), ~lost'
  PROVE  \A j \in Subs : Told(j)' /\ Heard(j)'
  <1> DEFINE r == request[p]
  <1>0. PICK k \in Subs : k = r.id
    BY CancelActs
  <1>1. /\ Visitor(p, k) /\ Begun(k) /\ r \in Request /\ r.todo = <<"cancel", "save">>
        /\ TryToEnd(k) /\ sub' = sub
        /\ \A q \in Callers : q # p => request'[q] = request[q]
        /\ \A q \in Callers, j \in Subs : NoMore(q, j)
        /\ request'[p] = [r EXCEPT !.todo = <<"save">>]
    BY <1>0, CancelActs
  <1>2. \A j \in Subs : ~Hook(p, j)
    BY <1>1 DEF Visitor, Hook
  <1>3. \A j \in Subs : SameHooks(j)
    BY <1>1, <1>2, SameHook DEF NoMore
  <1>4. /\ Over(k)'
        /\ \A j \in Subs : /\ Told(j)'
                           /\ Over(j) => Over(j)'
                           /\ remote'[j].ending = remote[j].ending
    BY <1>1, <1>3, EndSteps
  <1>5. /\ request'[p].by = r.by /\ request'[p].id = k /\ request'[p].new = r.new
        /\ request'[p].paths = r.paths /\ request'[p].todo = <<"save">>
    BY <1>0, <1>1 DEF Request
  <1>6. <<"save">> # <<"end">> /\ <<"save">> \notin Activation
    BY DEF Activation
  <1>7. ASSUME NEW j \in Subs
        PROVE  EndsOver(p, j)' /\ EndingAsked(p, j)'
    <2>1. EndsOver(p, j)'
      BY <1>4, <1>5, <1>6 DEF EndsOver, Activates
    <2>2. ~sub[k].comp => "ending" \notin r.paths
      BY <1>1 DEF Heard, EndingAsked
    <2>3. EndingAsked(p, j)'
      BY <1>1, <1>5, <2>2 DEF EndingAsked, Visitor
    <2>4. QED
      BY <2>1, <2>3
  <1>8. ASSUME NEW j \in Subs
        PROVE  Heard(j)'
    <2>1. OneVisitor(j)'
      BY <1>1, NoVisitorMore
    <2>2. QED
      BY <1>1, <1>4, <1>7, <2>1, StaysHeard
  <1>9. QED
    BY <1>4, <1>8

LEMMA SaveSteps ==
  ASSUME IInv, \A k \in Subs : Told(k) /\ Heard(k), NEW p \in Callers, Save(p)
  PROVE  \A j \in Subs : Told(j)' /\ Heard(j)'
  <1> DEFINE r == request[p]
  <1>0. PICK k \in Subs : k = r.id
    BY SaveActs
  <1>1. /\ Begun(k) /\ r \in Request /\ Sound(r) /\ r.todo = <<"save">>
        /\ r.by \in {"person", "job", "hook"}
        /\ UNCHANGED <<remote, events>>
        /\ request'[p] = Idle
        /\ \A q \in Callers : ~(q = p) => request'[q] = request[q]
        /\ \A q \in Callers, j \in Subs : NoMore(q, j)
        /\ \A j \in Subs : j # k => sub'[j] = sub[j]
        /\ Begun(k)' /\ sub'[k].comp = sub[k].comp
        /\ sub'[k].status = IF "status" \in r.paths THEN r.new.status ELSE sub[k].status
        /\ sub'[k].ending = IF "ending" \in r.paths THEN r.new.ending ELSE sub[k].ending
    BY <1>0, SaveActs DEF Begun
  <1>2. ~Activates(p) /\ Saves(p) /\ r.todo # <<"cancel", "save">>
    BY <1>1, TodoSteps DEF Activates, Saves
  <1>3. \A j \in Subs : EndsOver(p, j)' /\ EndingAsked(p, j)' /\ ~Hook(p, j)'
    BY <1>1, IdleHeard
  <1>4. \A j \in Subs : j # k => ~Hook(p, j)
    BY <1>0 DEF Hook
  <1>5. \A j \in Subs : ~Hook(p, j) => SameHooks(j)
    BY <1>1, <1>3, SameHook
  <1>6. \A j \in Subs : j # k => Told(j)'
    BY <1>1, <1>4, <1>5, StaysTold DEF Begun
  <1>7. "status" \in r.paths /\ r.new.status = "cancelled" => Over(k)
    BY <1>0, <1>2 DEF Heard, Ended, EndsOver
  <1>8. Over(k) /\ Sold(k) => remote[k].status = "canceled" /\ ~sub[k].comp
    BY DEF Over, IInv, Sale, Sold
  <1>9. Told(k)'
    <2>1. CASE Hook(p, k)
      BY <1>1, <1>2, <2>1, HandledTold DEF Writes
    <2>2. CASE ~Hook(p, k)
      <3>1. Visitor(p, k)
        BY <1>0, <1>1, <2>2 DEF Hook, Visitor
      <3>2. "status" \in r.paths => r.new.status = "cancelled"
        <4>1. r.by \in {"person", "job"} /\ r.todo \notin Activation
          BY <1>2, <3>1 DEF Visitor, Activates
        <4>2. QED
          BY <1>1, <4>1 DEF Sound
      <3>3. \/ sub'[k].status = sub[k].status
            \/ Sold(k) => remote[k].status = "canceled" /\ sub'[k].status = "cancelled"
        BY <1>1, <1>7, <1>8, <3>2
      <3>4. \/ sub'[k].ending = sub[k].ending
            \/ Begun(k) /\ (Sold(k) => sub'[k].ending = remote[k].ending)
        <4>1. Sold(k) => ~sub[k].comp
          BY DEF IInv, Sale, Sold
        <4>2. "ending" \in r.paths /\ ~sub[k].comp => r.new.ending = remote[k].ending
          BY <1>2, <3>1 DEF Heard, EndingAsked
        <4>3. QED
          BY <1>1, <4>1, <4>2
      <3>5. SameHooks(k) /\ (Begun(k)' <=> Begun(k))
        BY <1>1, <1>5, <2>2
      <3>6. QED
        BY <1>1, <3>3, <3>4, <3>5, StaysTold
    <2>3. QED
      BY <2>1, <2>2
  <1>10. ASSUME NEW j \in Subs
         PROVE  Heard(j)'
    <2>1. OneVisitor(j)'
      BY <1>1, NoVisitorMore
    <2>2. (Over(j) => Over(j)') /\ (sub[j].comp => sub'[j].comp)
      BY <1>1 DEF Over
    <2>3. sub'[j].status = "cancelled" => sub[j].status = "cancelled" \/ Over(j)'
      BY <1>1, <1>7, <2>2
    <2>4. \A q \in Callers : q # p => request'[q] = request[q]
      BY <1>1
    <2>5. QED
      BY <1>1, <1>3, <2>1, <2>2, <2>3, <2>4, StaysHeard
  <1>11. QED
    BY <1>6, <1>9, <1>10

LEMMA DieSteps ==
  ASSUME IInv, \A k \in Subs : Told(k) /\ Heard(k), NEW p \in Callers, Die(p), ~lost'
  PROVE  \A j \in Subs : Told(j)' /\ Heard(j)'
  <1> TAKE j \in Subs
  <1>1. /\ request'[p] = Idle
        /\ \A q \in Callers : q # p => request'[q] = request[q]
        /\ \A q \in Callers : NoMore(q, j)
        /\ UNCHANGED <<remote, sub, events>>
        /\ request[p].by # "hook"
    BY DieActs
  <1>2. SameHooks(j)
    BY <1>1, SameHook DEF NoMore, Hook
  <1>3. Told(j)'
    BY <1>1, <1>2, StaysTold DEF Begun
  <1>4. OneVisitor(j)' /\ (Over(j) => Over(j)') /\ EndsOver(p, j)' /\ EndingAsked(p, j)'
    BY <1>1, NoVisitorMore, IdleHeard DEF Over
  <1>5. QED
    BY <1>1, <1>3, <1>4, StaysHeard

LEMMA DeliverSteps ==
  ASSUME IInv, \A k \in Subs : Told(k) /\ Heard(k), NEW p \in Callers, NEW k \in Subs,
         NEW i \in DOMAIN events[k], Deliver(p, k, i), tangles' = tangles
  PROVE  \A j \in Subs : Told(j)' /\ Heard(j)'
  <1>1. i = 1 /\ \A q \in Callers : ~Hook(q, k)
    BY DeliverActs
  <1> DEFINE e == events[k][1]
             r == request'[p]
  <1>2. /\ Sold(k) /\ e \in Event /\ WellFormed(e)
        /\ UNCHANGED <<remote, sub>>
        /\ Handled(k, e, r) /\ request[p] = Idle
        /\ \A q \in Callers : q # p => request'[q] = request[q]
        /\ \A j \in Subs : j # k => events'[j] = events[j]
    BY <1>1, DeliverActs
  <1>3. Told(k)'
    BY <1>1, TakenTold
  <1>4. r.by \in {"hook", "none"} /\ r.others = {} /\ Sound(r) /\ r \in Request
        /\ (r.by = "hook" => r.id = k) /\ (r.by = "none" => r = Idle)
    BY <1>2, IdleType DEF Handled
  <1>5. ASSUME NEW j \in Subs, j # k
        PROVE  Told(j)'
    <2>1. ~Hook(p, j) /\ ~Hook(p, j)'
      BY <1>2, <1>4, <1>5, IdleType DEF Hook
    <2>2. SameHooks(j)
      BY <1>2, <2>1, SameHook
    <2>3. QED
      BY <1>2, <1>5, <2>2, StaysTold DEF Begun
  <1>6. ASSUME r.by = "hook", r.new.status = "cancelled",
               Activates(p)' \/ "status" \in r.paths
        PROVE  Over(k)'
    <2>1. CASE e.type = "completed"
      <3>1. Mapped(remote[k].status) = "cancelled"
        BY <1>2, <1>6, <2>1 DEF Handled
      <3>2. remote[k].status = "canceled"
        <4>1. remote[k].status # "cancelled"
          BY DEF IInv, TypeOK, Remote, Granting
        <4>2. QED
          BY <3>1, <4>1 DEF Mapped
      <3>3. QED
        BY <1>2, <3>2 DEF Over
    <2>2. CASE e.type # "completed"
      <3>1. r # Idle
        BY <1>6, IdleType
      <3>2. r.todo = <<"save">> /\ r.new = Applied(k, e)
            /\ r.paths = {f \in Paths : r.new[f] # sub[k][f]}
        BY <1>2, <2>2, <3>1 DEF Handled
      <3>3. ~Activates(p)'
        BY <3>2, TodoSteps DEF Activates
      <3>4. sub[k].status # "cancelled"
        BY <1>6, <3>2, <3>3
      <3>5. e.type \in {"updated", "deleted"} /\ (e.type = "updated" => Mapped(e.status) = "cancelled")
        BY <1>2, <1>6, <2>2, <3>2, <3>4, AppliedType DEF Event
      <3>6. e.status = "canceled"
        BY <1>2, <3>5 DEF Mapped, WellFormed, Event, Granting
      <3>7. remote[k].status = "canceled"
        BY <1>1, <3>6 DEF IInv, Sale
      <3>8. QED
        BY <1>2, <3>7 DEF Over
    <2>3. QED
      BY <2>1, <2>2
  <1>7. ASSUME NEW j \in Subs
        PROVE  Heard(j)'
    <2>1. \A q \in Callers : Visitor(q, j)' => Visitor(q, j)
      BY <1>2, <1>4 DEF Visitor
    <2>2. OneVisitor(j)'
      BY <2>1 DEF OneVisitor, Heard
    <2>3. EndingAsked(p, j)'
      BY <1>4 DEF EndingAsked, Visitor
    <2>4. EndsOver(p, j)'
      <3>1. r.todo # <<"end">>
        BY <1>4 DEF Sound
      <3>2. CASE r.by = "none"
        BY <1>4, <3>2, IdleHeard
      <3>3. CASE r.by = "hook"
        BY <1>4, <1>6, <3>1, <3>3 DEF EndsOver, Hook
      <3>4. QED
        BY <1>4, <3>2, <3>3
    <2>5. Over(j) => Over(j)'
      BY <1>2 DEF Over
    <2>6. QED
      BY <1>2, <2>2, <2>3, <2>4, <2>5, StaysHeard
  <1>8. QED
    BY <1>3, <1>5, <1>7

\* A person's activation is no visit, and a hook's tells what it told before.
LEMMA ActivationStays ==
  ASSUME NEW j \in Subs, NEW p \in Callers, request[p] \in Request, Sound(request[p]),
         Activates(p), Activates(p)',
         \A q \in Callers : q # p => request'[q] = request[q],
         request'[p].by = request[p].by, request'[p].id = request[p].id,
         request'[p].new = request[p].new, request'[p].paths = request[p].paths
  PROVE  /\ SameHooks(j)
         /\ \A q \in Callers : NoMore(q, j) \/ q = p
         /\ EndingAsked(p, j)'
         /\ Heard(j) => OneVisitor(j)'
         /\ Heard(j) /\ (Over(j) => Over(j)')
            /\ (request'[p].todo = <<"end">> /\ request'[p].other = j => Over(j)')
            => EndsOver(p, j)'
  <1>1. SameHooks(j)
    BY SameHook DEF Hook
  <1>2. ~Visitor(p, j)'
    BY DEF Sound, Visitor, Activates, Subs
  <1>3. \A q \in Callers : NoMore(q, j) \/ q = p
    BY DEF NoMore, Hook, Visitor, Activates
  <1>4. EndingAsked(p, j)'
    BY <1>2 DEF EndingAsked
  <1>5. Heard(j) => OneVisitor(j)'
    BY <1>2 DEF Heard, OneVisitor, Visitor
  <1>6. Heard(j) /\ (Over(j) => Over(j)')
        /\ (request'[p].todo = <<"end">> /\ request'[p].other = j => Over(j)')
        => EndsOver(p, j)'
    BY DEF Heard, Ended, EndsOver, Hook
  <1>7. QED
    BY <1>1, <1>3, <1>4, <1>5, <1>6

LEMMA FindSteps ==
  ASSUME IInv, \A k \in Subs : Told(k) /\ Heard(k), NEW p \in Callers, FindOthers(p)
  PROVE  \A j \in Subs : Told(j)' /\ Heard(j)'
  <1> TAKE j \in Subs
  <1>1. /\ request[p] \in Request /\ Sound(request[p]) /\ request[p].todo = <<"others">>
        /\ UNCHANGED <<remote, sub, events>>
        /\ request'[p].by = request[p].by /\ request'[p].id = request[p].id
        /\ request'[p].new = request[p].new /\ request'[p].paths = request[p].paths
        /\ request'[p].todo \in {<<"create">>, <<"replace">>}
        /\ \A q \in Callers : q # p => request'[q] = request[q]
    BY FindActs
  <1>2. Activates(p) /\ Activates(p)' /\ request'[p].todo # <<"end">>
    BY <1>1 DEF Activates, Activation
  <1>3. Over(j) => Over(j)'
    BY <1>1 DEF Over
  <1>4. SameHooks(j) /\ EndingAsked(p, j)' /\ OneVisitor(j)' /\ EndsOver(p, j)'
    BY <1>1, <1>2, <1>3, ActivationStays
  <1>5. Told(j)'
    BY <1>1, <1>4, StaysTold DEF Begun
  <1>6. QED
    BY <1>1, <1>3, <1>4, <1>5, StaysHeard

LEMMA CancelOtherSteps ==
  ASSUME IInv, \A k \in Subs : Told(k) /\ Heard(k), NEW p \in Callers, CancelOther(p), ~lost'
  PROVE  \A j \in Subs : Told(j)' /\ Heard(j)'
  <1>1. /\ request[p].todo = <<"replace">> /\ request[p] \in Request /\ sub' = sub
        /\ request'[p].todo = <<"end">>
        /\ request'[p].by = request[p].by /\ request'[p].id = request[p].id
        /\ request'[p].new = request[p].new /\ request'[p].paths = request[p].paths
        /\ \A q \in Callers : q # p => request'[q] = request[q]
    BY CancelOtherActs
  <1>2. PICK k \in Subs : Begun(k) /\ TryToEnd(k) /\ request'[p].other = k
    BY CancelOtherActs
  <1>3. Activates(p) /\ Activates(p)' /\ Sound(request[p])
    BY <1>1 DEF Activates, Activation, IInv
  <1>4. \A j \in Subs : SameHooks(j) /\ EndingAsked(p, j)' /\ OneVisitor(j)'
    BY <1>1, <1>3, ActivationStays
  <1>5. /\ Over(k)'
        /\ \A j \in Subs : /\ Told(j)'
                           /\ Over(j) => Over(j)'
                           /\ remote'[j].ending = remote[j].ending
    BY <1>1, <1>2, <1>4, EndSteps
  <1>6. \A j \in Subs : EndsOver(p, j)'
    BY <1>1, <1>2, <1>3, <1>5, ActivationStays
  <1>7. \A j \in Subs : Heard(j)'
    BY <1>1, <1>4, <1>5, <1>6, StaysHeard
  <1>8. QED
    BY <1>5, <1>7

LEMMA EndOtherSteps ==
  ASSUME IInv, \A k \in Subs : Told(k) /\ Heard(k), NEW p \in Callers, EndOther(p)
  PROVE  \A j \in Subs : Told(j)' /\ Heard(j)'
  <1> DEFINE r == request[p]
  <1>0. PICK k \in Subs : k = r.other
    BY EndOtherActs
  <1>1. /\ r \in Request /\ r.todo = <<"end">> /\ Begun(k)
        /\ UNCHANGED <<remote, events>>
        /\ \A q \in Callers : q # p => request'[q] = request[q]
        /\ request'[p].by = r.by /\ request'[p].id = r.id
        /\ request'[p].new = r.new /\ request'[p].paths = r.paths
        /\ request'[p].todo \in {<<"create">>, <<"replace">>}
        /\ \A j \in Subs : j # k => sub'[j] = sub[j]
        /\ sub'[k].status = "cancelled" /\ sub'[k].comp = sub[k].comp
        /\ sub'[k].ending = sub[k].ending
    BY <1>0, EndOtherActs
  <1>2. Activates(p) /\ Activates(p)' /\ Sound(r) /\ request'[p].todo # <<"end">>
    BY <1>1 DEF Activates, Activation, IInv
  <1>3. Over(k)
    BY <1>0, <1>1 DEF Heard, Ended, EndsOver
  <1>4. Sold(k) => remote[k].status = "canceled"
    BY <1>3 DEF Over, IInv, Sale, Sold
  <1>5. \A j \in Subs : Over(j) => Over(j)'
    BY <1>1 DEF Over
  <1>6. \A j \in Subs : SameHooks(j) /\ EndingAsked(p, j)' /\ OneVisitor(j)' /\ EndsOver(p, j)'
    BY <1>1, <1>2, <1>5, ActivationStays
  <1>7. Told(k)'
    <2>1. Begun(k)'
      BY <1>1 DEF Begun
    <2>2. QED
      BY <1>1, <1>4, <1>6, <2>1, StaysTold
  <1>8. \A j \in Subs : j # k => Told(j)'
    BY <1>1, <1>6, StaysTold DEF Begun
  <1>9. ASSUME NEW j \in Subs
        PROVE  Heard(j)'
    <2>1. sub[j].comp => sub'[j].comp
      BY <1>1
    <2>2. sub'[j].status = "cancelled" => sub[j].status = "cancelled" \/ Over(j)'
      BY <1>1, <1>3, <1>5
    <2>3. QED
      BY <1>1, <1>5, <1>6, <2>1, <2>2, StaysHeard
  <1>10. QED
    BY <1>7, <1>8, <1>9

LEMMA CreateSteps ==
  ASSUME IInv, \A k \in Subs : Told(k) /\ Heard(k), NEW p \in Callers, Create(p)
  PROVE  \A j \in Subs : Told(j)' /\ Heard(j)'
  <1> DEFINE r == request[p]
  <1>1. /\ r \in Request /\ Sound(r) /\ r.todo = <<"create">> /\ Activates(p)
        /\ UNCHANGED <<remote, events>>
        /\ request'[p] = Idle
        /\ \A q \in Callers : ~(q = p) => request'[q] = request[q]
        /\ \A q \in Callers, j \in Subs : NoMore(q, j)
    BY CreateActs
  <1>2. PICK k \in Subs :
          /\ \/ r.id = 0 /\ ~Begun(k) /\ remote[k].status = "none" /\ r.new.comp
             \/ r.id = k /\ Hook(p, k) /\ Sold(k) /\ ~r.new.comp
          /\ sub' = [sub EXCEPT ![k] = r.new]
          /\ r.new.status # "none" /\ r.new \in Doc
    BY CreateActs
  <1>3. sub'[k] = r.new /\ Begun(k)' /\ \A j \in Subs : j # k => sub'[j] = sub[j]
    BY <1>2 DEF IInv, TypeOK, Begun
  <1>4. \A j \in Subs : EndsOver(p, j)' /\ EndingAsked(p, j)' /\ ~Hook(p, j)'
    BY <1>1, IdleHeard
  <1>5. \A j \in Subs : j # k => ~Hook(p, j)
    BY <1>2 DEF Hook, Subs
  <1>6. \A j \in Subs : ~Hook(p, j) => SameHooks(j)
    BY <1>1, <1>4, SameHook
  <1>7. \A j \in Subs : j # k => Told(j)'
    BY <1>1, <1>3, <1>5, <1>6, StaysTold DEF Begun
  <1>8. ASSUME r.id = 0 /\ ~Begun(k) /\ remote[k].status = "none" /\ r.new.comp
        PROVE  Told(k)' /\ Heard(k)'
    <2>1. ~Sold(k) /\ \A q \in Callers : Hook(q, k)' => Hook(q, k)
      BY <1>1, <1>8 DEF Sold, NoMore
    <2>2. Told(k)'
      BY <1>1, <1>3, <2>1, GivenTold
    <2>3. Heard(k)'
      <3>1. Over(k)' /\ sub'[k].comp
        BY <1>3, <1>8 DEF Over
      <3>2. OneVisitor(k)'
        BY <1>1, NoVisitorMore
      <3>3. \A q \in Callers : q # p => request'[q] = request[q] /\ remote'[k] = remote[k]
        BY <1>1
      <3>4. QED
        BY <1>4, <3>1, <3>2, <3>3, StaysHeard
    <2>4. QED
      BY <2>2, <2>3
  <1>9. ASSUME r.id = k /\ Hook(p, k) /\ Sold(k) /\ ~r.new.comp
        PROVE  Told(k)' /\ Heard(k)'
    <2>1. Told(k)'
      BY <1>1, <1>3, <1>9, HandledTold DEF Writes
    <2>2. Heard(k)'
      <3>1. ~Begun(k) /\ ~sub[k].comp
        BY <1>1, <1>9 DEF Told, Pipe, IInv, Sale
      <3>2. r.new.status = "cancelled" => Over(k)
        BY <1>1, <1>9 DEF Heard, Ended, EndsOver
      <3>3. Over(k) => Over(k)'
        BY <1>1, <1>3, <1>9, <3>1 DEF Over
      <3>4. OneVisitor(k)'
        BY <1>1, NoVisitorMore
      <3>5. \A q \in Callers : q # p => request'[q] = request[q] /\ remote'[k] = remote[k]
        BY <1>1
      <3>6. QED
        BY <1>3, <1>4, <3>1, <3>2, <3>3, <3>4, <3>5, StaysHeard
    <2>3. QED
      BY <2>1, <2>2
  <1>10. Told(k)' /\ Heard(k)'
    BY <1>2, <1>8, <1>9
  <1>11. ASSUME NEW j \in Subs, j # k
         PROVE  Heard(j)'
    <2>1. OneVisitor(j)'
      BY <1>1, NoVisitorMore
    <2>2. sub'[j] = sub[j] /\ remote'[j] = remote[j] /\ (Over(j) => Over(j)')
      BY <1>1, <1>3, <1>11 DEF Over
    <2>3. \A q \in Callers : q # p => request'[q] = request[q]
      BY <1>1
    <2>4. QED
      BY <1>4, <2>1, <2>2, <2>3, StaysHeard
  <1>12. QED
    BY <1>7, <1>10, <1>11

LEMMA CleanBefore ==
  ASSUME IInv, Next, Clean'
  PROVE  Clean /\ tangles' = tangles
  <1>1. tangles \in Nat /\ tangles' \in Nat
    BY SubscriptionConstants, StepIInv DEF IInv, TypeOK
  <1>2. (lost => lost') /\ tangles <= tangles'
    <2>1. CASE Stripe
      BY <1>1, <2>1, StripeAnnounces, TimeKeeps DEF Stripe, bounds, history
    <2>2. CASE \E k \in Subs, plan \in Plans : Checkout(k, plan)
      BY <1>1, <2>2 DEF Checkout, history
    <2>3. ASSUME NEW p \in Callers, Ask(p)
          PROVE  (lost => lost') /\ tangles <= tangles'
      <3>1. PICK r : Asked(r) /\ Begin(p, r)
        BY <2>3, AskAsks
      <3>2. QED
        BY <1>1, <3>1 DEF Begin, Tangled, history
    <2>4. ASSUME NEW p \in Callers, Handle(p)
          PROVE  (lost => lost') /\ tangles <= tangles'
      <3>1. CASE \E k \in Subs : \E i \in DOMAIN events[k] : Deliver(p, k, i)
        BY <1>1, <3>1 DEF Deliver, Tangled
      <3>2. CASE FindOthers(p) \/ EndOther(p) \/ Create(p)
        BY <1>1, <3>2 DEF FindOthers, EndOther, Create, bounds, history
      <3>3. CASE CancelOther(p)
        BY <1>1, <3>3 DEF CancelOther, TryToEnd
      <3>4. QED
        BY <2>4, <3>1, <3>2, <3>3 DEF Handle
    <2>5. ASSUME NEW p \in Callers, UpdateStripe(p) \/ CancelStripe(p) \/ Save(p) \/ Die(p)
          PROVE  (lost => lost') /\ tangles <= tangles'
      <3>1. CASE UpdateStripe(p)
        <4>1. UNCHANGED <<bounds, history>>
          BY <3>1, UpdateActs
        <4>2. tangles' = tangles /\ lost' = lost
          BY <4>1 DEF bounds, history
        <4>3. lost => lost'
          BY <4>2
        <4>4. tangles <= tangles'
          BY <1>1, <4>2
        <4>5. QED
          BY <4>3, <4>4
      <3>2. CASE CancelStripe(p)
        <4>1. TryToEnd(request[p].id) /\ request[p].id \in Subs /\ tangles' = tangles
          BY <3>2, CancelActs
        <4>2. lost => lost'
          BY <4>1, EndActs
        <4>3. QED
          BY <1>1, <4>1, <4>2
      <3>3. CASE Save(p)
        BY <1>1, <3>3, SaveActs DEF bounds, history
      <3>4. CASE Die(p)
        BY <1>1, <3>4, DieActs
      <3>5. QED
        BY <2>5, <3>1, <3>2, <3>3, <3>4
    <2>6. QED
      BY <2>1, <2>2, <2>3, <2>4, <2>5 DEF Next
  <1>3. QED
    BY <1>1, <1>2 DEF Clean

LEMMA InitInStep ==
  ASSUME Init
  PROVE  InStep
  <1> SUFFICES ASSUME NEW k \in Subs
               PROVE  Told(k) /\ Heard(k)
    BY DEF InStep
  <1>1. /\ events[k] = <<>> /\ \A p \in Callers : request[p] = Idle
        /\ Sold(k) => remote[k].status = "active" /\ sub[k].status = "active"
        /\ sub[k].status # "cancelled"
        /\ ~Begun(k) => ~Sold(k)
        /\ remote[k].ending = FALSE /\ sub[k].ending = FALSE
    BY DEF Init, Sold, Begun, NoDoc
  <1>2. \A p \in Callers : ~Hook(p, k) /\ ~Visitor(p, k)
    BY <1>1, IdleType DEF Hook, Visitor
  <1>3. Pipe(k)
    BY <1>1, <1>2 DEF Pipe
  <1>4. StatusInStep(k)
    <2>1. Sold(k) => WillBe(k, Mapped(remote[k].status))
      BY <1>1, <1>2 DEF WillBe, Writes, Mapped
    <2>2. QED
      BY <1>1, <2>1 DEF StatusInStep
  <1>5. EndingInStep(k)
    <2>1. WillEnd(k, remote[k].ending)
      BY <1>1, <1>2 DEF WillEnd, Writes
    <2>2. QED
      BY <1>1, <1>2, <2>1 DEF EndingInStep
  <1>6. \A p \in Callers : EndsOver(p, k)
    <2>1. Idle.id # k /\ Idle.todo # <<"end">>
      BY DEF Idle, Subs
    <2>2. QED
      BY <1>1, <2>1 DEF EndsOver, Hook
  <1>7. QED
    BY <1>1, <1>2, <1>3, <1>4, <1>5, <1>6 DEF Told, Heard, OneVisitor, Ended, EndingAsked

LEMMA StepInStep ==
  ASSUME IInv, InStep, [Next]_vars
  PROVE  InStep'
  <1>1. CASE UNCHANGED vars
    BY <1>1 DEF InStep, Clean, Told, Heard, Pipe, OneVisitor, Over, EndsOver, Ended, Writes,
                WillBe, WillEnd, StatusInStep, Tells, EndingInStep, EndingAsked, Hook, Visitor,
                Activates, Saves, Sold, Begun, vars, bounds, history
  <1>2. ASSUME Next, Clean'
        PROVE  \A j \in Subs : Told(j)' /\ Heard(j)'
    <2>1. /\ \A k \in Subs : Told(k) /\ Heard(k)
          /\ tangles' = tangles /\ ~lost'
      BY <1>2, CleanBefore DEF InStep, Clean
    <2>2. CASE Stripe
      BY <2>1, <2>2, StripeSteps, TimeSteps DEF Stripe
    <2>3. CASE \E k \in Subs, plan \in Plans : Checkout(k, plan)
      BY <2>1, <2>3, CheckoutSteps
    <2>4. ASSUME NEW p \in Callers, Ask(p)
          PROVE  \A j \in Subs : Told(j)' /\ Heard(j)'
      BY <2>1, <2>4, AskSteps
    <2>5. ASSUME NEW p \in Callers, Handle(p)
          PROVE  \A j \in Subs : Told(j)' /\ Heard(j)'
      BY <2>1, <2>5, DeliverSteps, FindSteps, CancelOtherSteps, EndOtherSteps, CreateSteps
         DEF Handle
    <2>6. ASSUME NEW p \in Callers, UpdateStripe(p) \/ CancelStripe(p) \/ Save(p) \/ Die(p)
          PROVE  \A j \in Subs : Told(j)' /\ Heard(j)'
      BY <2>1, <2>6, UpdateSteps, CancelSteps, SaveSteps, DieSteps
    <2>7. QED
      BY <1>2, <2>2, <2>3, <2>4, <2>5, <2>6 DEF Next
  <1>3. QED
    BY <1>1, <1>2 DEF InStep

LEMMA AlwaysInStep == Spec => [](IInv /\ InStep)
  <1>1. Init => IInv /\ InStep
    BY InitIInv, InitInStep
  <1>2. IInv /\ InStep /\ [Next]_vars => IInv' /\ InStep'
    BY StepIInv, StepInStep
  <1>3. QED
    BY <1>1, <1>2, PTL DEF Spec

\* What the document says once nobody is at work and no event is on its way.
LEMMA SettledCopy ==
  ASSUME IInv, InStep, Clean, Settled, NEW k \in Subs, ~sub[k].comp
  PROVE  /\ Begun(k) <=> Sold(k)
         /\ Sold(k) => /\ sub[k].status = Mapped(remote[k].status)
                       /\ sub[k].ending = remote[k].ending
  <1>1. Told(k) /\ Sale(k) /\ events[k] = <<>>
    BY DEF InStep, IInv, Settled
  <1>2. \A p \in Callers : ~Hook(p, k)
    <2>1. \A p \in Callers : request[p].todo = <<>> /\ request[p].by = "none"
      BY DEF Settled, Busy, IInv, Sound
    <2>2. QED
      BY <2>1 DEF Hook
  <1>3. \A p \in Callers, f \in {"status", "ending"} : ~Writes(p, k, f)
    BY <1>2 DEF Writes
  <1>4. Begun(k) <=> Sold(k)
    BY <1>1, <1>2 DEF Told, Pipe, Sale
  <1>5. ASSUME Sold(k)
        PROVE  sub[k].status = Mapped(remote[k].status) /\ sub[k].ending = remote[k].ending
    <2>1. Len(events[k]) = 0 /\ DOMAIN events[k] = {}
      BY <1>1
    <2>2. WillBe(k, Mapped(remote[k].status))
      BY <1>1, <1>5, <2>1 DEF Told, StatusInStep
    <2>3. WillEnd(k, remote[k].ending)
      BY <1>1, <1>5, <2>1 DEF Told, EndingInStep
    <2>4. QED
      BY <1>3, <2>2, <2>3 DEF WillBe, WillEnd
  <1>6. QED
    BY <1>4, <1>5

\* Webhooks keep the copy in step: with no event lost, and events and requests handled
\* one after the other, each document has the status of its subscription at Stripe, and
\* says whether it is ending, once nothing is left to be done.
THEOREM CopyStaysInStep == Spec => []CopyInStep
  <1>1. ASSUME IInv, InStep
        PROVE  CopyInStep
    <2> SUFFICES ASSUME Clean, Settled, NEW k \in Subs, ~sub[k].comp
                 PROVE  /\ sub[k].status = (IF remote[k].status = "open" THEN "none"
                                            ELSE Mapped(remote[k].status))
                        /\ Grants(k) => sub[k].ending = remote[k].ending
      BY DEF CopyInStep
    <2>1. /\ Begun(k) <=> Sold(k)
          /\ Sold(k) => /\ sub[k].status = Mapped(remote[k].status)
                        /\ sub[k].ending = remote[k].ending
      BY <1>1, SettledCopy
    <2>2. Grants(k) => Begun(k)
      BY <1>1, GrantsBegun
    <2>3. CASE Sold(k)
      BY <2>1, <2>3 DEF Sold
    <2>4. CASE ~Sold(k)
      BY <2>1, <2>2, <2>4 DEF Sold, Begun, Mapped
    <2>5. QED
      BY <2>3, <2>4
  <1>2. QED
    BY <1>1, AlwaysInStep, PTL

-----------------------------------------------------------------------------
(* One plan.                                                                *)

\* A plan that runs, at Stripe and here, or a complimentary one.
Runs(k) == IF sub[k].comp THEN Grants(k) ELSE Begun(k) /\ Paying(k)

\* At most one plan runs, and who makes room for another has yet to end all that run.
One ==
    /\ \A j, k \in Subs : Runs(j) /\ Runs(k) => j = k
    /\ \A p, q \in Callers : Replaces(p) /\ Replaces(q) => p = q
    /\ \A p \in Callers : Replaces(p) => \A k \in Subs : Runs(k) => k \in request[p].others
    /\ \A p \in Callers : request[p].todo = <<"create">> => request[p].others = {}
OneRuns == Clean /\ ~overlapped => One

LEMMA StaysOne ==
  ASSUME One, \A k \in Subs : Runs(k)' => Runs(k),
         \A q \in Callers : Replaces(q)' =>
            /\ Replaces(q)
            /\ \A k \in Subs : Runs(k)' /\ k \in request[q].others => k \in request'[q].others
            /\ request'[q].todo = <<"create">> => request'[q].others = {}
  PROVE  One'
  <1>1. \A q \in Callers : request'[q].todo = <<"create">> => Replaces(q)'
    BY DEF Replaces, Activation
  <1>2. QED
    BY <1>1 DEF One

\* All but one go on with what they do, and that one makes no room.
LEMMA OthersGoOn ==
  ASSUME One, NEW p \in Callers, \A q \in Callers : q # p => request'[q] = request[q],
         ~Replaces(p)', \A k \in Subs : Runs(k)' => Runs(k)
  PROVE  One'
  <1>1. ASSUME NEW q \in Callers, Replaces(q)'
        PROVE  /\ Replaces(q)
               /\ \A k \in Subs : k \in request[q].others => k \in request'[q].others
               /\ request'[q].todo = <<"create">> => request'[q].others = {}
    <2>1. q # p /\ request'[q] = request[q]
      BY <1>1
    <2>2. QED
      BY <1>1, <2>1 DEF Replaces, One
  <1>2. QED
    BY <1>1, StaysOne

LEMMA SimpleTodos ==
  /\ \A s \in {"save", "others"} : <<s>> \notin Activation \ {<<"others">>}
  /\ <<>> \notin Activation
  /\ <<"ending", "save">> \notin Activation
  BY DEF Activation

\* No plan comes to run by what Stripe sends.
LEMMA RunsAnnounced ==
  ASSUME IInv, NEW k \in Subs, NEW r, NEW types, Announces(k, r, types), Becomes(k, r, types),
         sub' = sub
  PROVE  \A j \in Subs : Runs(j)' => Runs(j)
  <1>1. /\ remote'[k] = r
        /\ \A j \in Subs : j # k => remote'[j] = remote[j]
    BY Parts, Announced
  <1>2. \A j \in Subs : j # k => (Runs(j)' => Runs(j))
    BY <1>1 DEF Runs, Grants, Begun, Paying
  <1>3. Runs(k)' => Runs(k)
    <2>1. Sale(k)
      BY DEF IInv
    <2>2. CASE remote[k].status = "open"
      <3>1. ~Begun(k) /\ ~sub[k].comp
        BY <2>1, <2>2 DEF Sale, Sold
      <3>2. QED
        BY <3>1 DEF Runs, Begun
    <2>3. CASE remote[k].status \in Granting
      BY <2>3 DEF Runs, Grants, Begun, Paying
    <2>4. QED
      BY <2>2, <2>3 DEF Announces
  <1>4. QED
    BY <1>2, <1>3

LEMMA RunsEnded ==
  ASSUME IInv, NEW k \in Subs, TryToEnd(k), sub' = sub
  PROVE  \A j \in Subs : Runs(j)' => Runs(j)
  <1>1. CASE \E to : Announces(k, to, <<"deleted">>) /\ Becomes(k, to, <<"deleted">>)
    BY <1>1, RunsAnnounced
  <1>2. CASE remote' = remote
    BY <1>2 DEF Runs, Grants, Begun, Paying
  <1>3. QED
    BY <1>1, <1>2, EndActs

LEMMA SameRuns ==
  ASSUME UNCHANGED <<remote, sub>>
  PROVE  \A j \in Subs : Runs(j)' => Runs(j)
  BY DEF Runs, Grants, Begun, Paying

LEMMA StripeOne ==
  ASSUME IInv, One, Stripe
  PROVE  One'
  <1>1. request' = request /\ \A j \in Subs : Runs(j)' => Runs(j)
    <2>1. CASE TimePasses
      <3>1. UNCHANGED <<remote, request>>
            /\ \A j \in Subs : sub'[j].status = sub[j].status /\ sub'[j].comp = sub[j].comp
        BY <2>1, TimeKeeps
      <3>2. QED
        BY <3>1 DEF Runs, Grants, Begun, Paying
    <2>2. ASSUME NEW k \in Subs,
                 PayCheckout(k) \/ ChargeFails(k) \/ ChargePaid(k) \/ PeriodEndsAtStripe(k)
          PROVE  request' = request /\ \A j \in Subs : Runs(j)' => Runs(j)
      <3>1. PICK r, types : Announces(k, r, types) /\ Becomes(k, r, types)
        BY <2>2, StripeAnnounces
      <3>2. UNCHANGED <<sub, request>>
        BY <2>2, StripeAnnounces
      <3>3. QED
        BY <3>1, <3>2, RunsAnnounced
    <2>3. QED
      BY <2>1, <2>2 DEF Stripe
  <1>2. \A q \in Callers : Replaces(q)' =>
            Replaces(q) /\ (request'[q].todo = <<"create">> => request'[q].others = {})
    BY <1>1 DEF Replaces, One
  <1>3. QED
    BY <1>1, <1>2, StaysOne

LEMMA CheckoutOne ==
  ASSUME IInv, One, NEW k \in Subs, NEW plan \in Plans, Checkout(k, plan)
  PROVE  One'
  <1>1. /\ UNCHANGED <<sub, request>>
        /\ remote'[k].status = "open"
        /\ \A j \in Subs : j # k => remote'[j] = remote[j]
    BY CheckoutKeeps
  <1>2. \A j \in Subs : Runs(j)' => Runs(j)
    BY <1>1 DEF Runs, Grants, Begun, Paying, Granting
  <1>3. \A q \in Callers : Replaces(q)' =>
            Replaces(q) /\ (request'[q].todo = <<"create">> => request'[q].others = {})
    BY <1>1 DEF Replaces, One
  <1>4. QED
    BY <1>1, <1>2, <1>3, StaysOne

LEMMA AskOne ==
  ASSUME IInv, One, NEW p \in Callers, Ask(p)
  PROVE  One'
  <1>1. PICK r : Asked(r) /\ Begin(p, r)
    BY AskAsks
  <1>2. /\ request'[p] = r /\ UNCHANGED <<remote, sub>>
        /\ \A q \in Callers : q # p => request'[q] = request[q]
    BY <1>1, BeginKeeps DEF Asked
  <1>3. r.todo = <<"others">> \/ r.todo \notin Activation
    BY <1>1 DEF Asked
  <1>4. ~Replaces(p)'
    BY <1>2, <1>3 DEF Replaces
  <1>5. QED
    BY <1>2, <1>4, SameRuns, OthersGoOn

LEMMA UpdateOne ==
  ASSUME IInv, One, NEW p \in Callers, UpdateStripe(p)
  PROVE  One'
  <1>1. /\ request[p].id \in Subs /\ request[p] \in Request /\ sub' = sub
        /\ \A q \in Callers : q # p => request'[q] = request[q]
    BY UpdateActs
  <1>2. request'[p].todo \in {<<>>, <<"save">>, <<"ending", "save">>}
    <2>1. request'[p] = Idle \/ request'[p] = [request[p] EXCEPT !.todo =
             IF request[p].todo = <<"price", "ending", "save">>
             THEN <<"ending", "save">> ELSE <<"save">>]
      BY UpdateActs
    <2>2. QED
      BY <1>1, <2>1, IdleType DEF Request
  <1>3. ~Replaces(p)'
    BY <1>2, SimpleTodos DEF Replaces
  <1>4. \A j \in Subs : Runs(j)' => Runs(j)
    <2>1. CASE UNCHANGED <<remote, events>>
      BY <1>1, <2>1, SameRuns
    <2>2. CASE \E to \in Remote : Announces(request[p].id, to, <<"updated">>)
                                 /\ Becomes(request[p].id, to, <<"updated">>)
      BY <1>1, <2>2, RunsAnnounced
    <2>3. QED
      BY <2>1, <2>2, UpdateActs
  <1>5. QED
    BY <1>1, <1>3, <1>4, OthersGoOn

LEMMA CancelOne ==
  ASSUME IInv, One, NEW p \in Callers, CancelStripe(p)
  PROVE  One'
  <1>1. /\ request[p].id \in Subs /\ request[p] \in Request /\ sub' = sub
        /\ TryToEnd(request[p].id)
        /\ request'[p] = [request[p] EXCEPT !.todo = <<"save">>]
        /\ \A q \in Callers : q # p => request'[q] = request[q]
    BY CancelActs
  <1>2. request'[p].todo = <<"save">>
    BY <1>1 DEF Request
  <1>3. ~Replaces(p)'
    BY <1>2, SimpleTodos DEF Replaces
  <1>4. QED
    BY <1>1, <1>3, RunsEnded, OthersGoOn

LEMMA SaveOne ==
  ASSUME IInv, One, NEW p \in Callers, Save(p)
  PROVE  One'
  <1> DEFINE r == request[p]
  <1>0. PICK k \in Subs : k = r.id
    BY SaveActs
  <1>1. /\ Begun(k) /\ Sound(r) /\ r.todo = <<"save">> /\ r.by \in {"person", "job", "hook"}
        /\ remote' = remote /\ request'[p] = Idle
        /\ \A q \in Callers : q # p => request'[q] = request[q]
        /\ \A j \in Subs : j # k => sub'[j] = sub[j]
        /\ sub'[k].comp = sub[k].comp
        /\ sub'[k].status = IF "status" \in r.paths THEN r.new.status ELSE sub[k].status
    BY <1>0, SaveActs
  <1>2. ~Replaces(p)'
    BY <1>1, IdleType, SimpleTodos DEF Replaces
  <1>3. \A j \in Subs : j # k => (Runs(j)' => Runs(j))
    BY <1>1 DEF Runs, Grants, Begun, Paying
  <1>4. Runs(k)' => Runs(k)
    <2>1. CASE sub[k].comp
      <3>1. r.by # "hook"
        BY <1>0, <2>1 DEF IInv, Sale, Hook, Sold
      <3>2. "status" \in r.paths => r.new.status = "cancelled"
        BY <1>1, <3>1, TodoSteps DEF Sound
      <3>3. QED
        BY <1>1, <2>1, <3>2 DEF Runs, Grants, Granting
    <2>2. CASE ~sub[k].comp
      BY <1>1, <2>2 DEF Runs, Begun, Paying
    <2>3. QED
      BY <2>1, <2>2
  <1>5. QED
    BY <1>1, <1>2, <1>3, <1>4, OthersGoOn

LEMMA DieOne ==
  ASSUME IInv, One, NEW p \in Callers, Die(p)
  PROVE  One'
  <1>1. /\ request'[p] = Idle /\ UNCHANGED <<remote, sub>>
        /\ \A q \in Callers : q # p => request'[q] = request[q]
    BY DieActs
  <1>2. ~Replaces(p)'
    BY <1>1, IdleType, SimpleTodos DEF Replaces
  <1>3. QED
    BY <1>1, <1>2, SameRuns, OthersGoOn

LEMMA DeliverOne ==
  ASSUME IInv, One, NEW p \in Callers, NEW k \in Subs, NEW i \in DOMAIN events[k],
         Deliver(p, k, i)
  PROVE  One'
  <1>1. /\ UNCHANGED <<remote, sub>> /\ Handled(k, events[k][i], request'[p])
        /\ \A q \in Callers : q # p => request'[q] = request[q]
    BY DeliverActs
  <1>2. request'[p].todo \in {<<>>, <<"save">>, <<"others">>}
    BY <1>1, IdleType DEF Handled
  <1>3. ~Replaces(p)'
    BY <1>2, SimpleTodos DEF Replaces
  <1>4. QED
    BY <1>1, <1>3, SameRuns, OthersGoOn

\* Who finds the others finds all that run, and is alone in it.
LEMMA FindOne ==
  ASSUME IInv, \A k \in Subs : Told(k) /\ Heard(k), One, NEW p \in Callers, FindOthers(p),
         ~overlapped'
  PROVE  One'
  <1> DEFINE r == request[p]
  <1>1. /\ r \in Request /\ Sound(r) /\ r.todo = <<"others">> /\ UNCHANGED <<remote, sub>>
        /\ request'[p].others = Others(p)
        /\ request'[p].todo = <<IF Others(p) = {} THEN "create" ELSE "replace">>
        /\ \A q \in Callers : q # p => request'[q] = request[q]
        /\ \A q \in Callers : ~Replaces(q)
    BY FindActs
  <1>2. \A j \in Subs : Runs(j)' => Runs(j)
    BY <1>1, SameRuns
  <1>3. ASSUME NEW j \in Subs, Runs(j)
        PROVE  j \in Others(p)
    <2>1. Grants(j)
      <3>1. sub[j].status \in {"none", "cancelled"} \cup Granting
        BY DEF IInv, TypeOK, Doc
      <3>2. CASE sub[j].comp
        BY <1>3, <3>2 DEF Runs
      <3>3. CASE ~sub[j].comp
        <4>1. Begun(j) /\ Paying(j) /\ ~Over(j)
          BY <1>3, <3>3 DEF Runs, Paying, Over, Granting
        <4>2. QED
          BY <3>1, <4>1 DEF Heard, Ended, Begun, Grants
      <3>4. QED
        BY <3>2, <3>3
    <2>2. j # r.id
      <3>1. Activates(p)
        BY <1>1 DEF Activates, Activation
      <3>2. CASE r.by = "hook"
        <4>1. Begun(j)
          BY <1>3 DEF Runs, IInv, Sale
        <4>2. r.id = j => ~Begun(j)
          BY <3>1, <3>2 DEF Told, Pipe, Hook
        <4>3. QED
          BY <4>1, <4>2
      <3>3. CASE r.by # "hook"
        <4>1. r.by \in {"person", "job"}
          BY <1>1, <3>3 DEF Request, Sound
        <4>2. r.id = 0
          BY <1>1, <3>1, <4>1 DEF Sound, Activates
        <4>3. QED
          BY <4>2 DEF Subs
      <3>4. QED
        BY <3>2, <3>3
    <2>3. QED
      BY <2>1, <2>2 DEF Others
  <1>4. \A q \in Callers : q # p => ~Replaces(q)'
    BY <1>1 DEF Replaces
  <1>5. \A q \in Callers : request'[q].todo = <<"create">> => Replaces(q)'
    BY DEF Replaces, Activation
  <1>6. request'[p].todo = <<"create">> => request'[p].others = {}
    BY <1>1
  <1>7. QED
    BY <1>1, <1>2, <1>3, <1>4, <1>5, <1>6 DEF One

LEMMA CancelOtherOne ==
  ASSUME IInv, One, NEW p \in Callers, CancelOther(p)
  PROVE  One'
  <1>1. /\ sub' = sub
        /\ \A q \in Callers : q # p => request'[q] = request[q]
        /\ request[p].todo = <<"replace">> /\ request'[p].todo = <<"end">>
        /\ request'[p].others = request[p].others
    BY CancelOtherActs
  <1>2. PICK k \in Subs : TryToEnd(k)
    BY CancelOtherActs
  <1>3. Replaces(p)
    BY <1>1 DEF Replaces, Activation
  <1>4. \A j \in Subs : Runs(j)' => Runs(j)
    BY <1>1, <1>2, RunsEnded
  <1>5. \A q \in Callers : Replaces(q)' =>
            /\ Replaces(q) /\ request'[q].others = request[q].others
            /\ request'[q].todo = <<"create">> => request'[q].others = {}
    BY <1>1, <1>3 DEF Replaces, One
  <1>6. QED
    BY <1>4, <1>5, StaysOne

LEMMA EndOtherOne ==
  ASSUME IInv, \A k \in Subs : Told(k) /\ Heard(k), One, NEW p \in Callers, EndOther(p)
  PROVE  One'
  <1> DEFINE r == request[p]
  <1>0. PICK k \in Subs : k = r.other
    BY EndOtherActs
  <1>1. /\ r.todo = <<"end">> /\ Begun(k) /\ remote' = remote
        /\ \A q \in Callers : q # p => request'[q] = request[q]
        /\ request'[p].others = r.others \ {k}
        /\ request'[p].todo = <<IF r.others \ {k} = {} THEN "create" ELSE "replace">>
        /\ \A j \in Subs : j # k => sub'[j] = sub[j]
        /\ sub'[k].status = "cancelled" /\ sub'[k].comp = sub[k].comp
    BY <1>0, EndOtherActs
  <1>2. Over(k) /\ Replaces(p)
    BY <1>0, <1>1 DEF Heard, Ended, EndsOver, Replaces, Activation
  <1>3. ~Runs(k)'
    BY <1>1, <1>2 DEF Runs, Over, Grants, Paying, Granting
  <1>4. \A j \in Subs : Runs(j)' => Runs(j) /\ j # k
    BY <1>1, <1>3 DEF Runs, Grants, Begun, Paying
  <1>5. ASSUME NEW q \in Callers, Replaces(q)'
        PROVE  /\ Replaces(q)
               /\ \A j \in Subs : Runs(j)' /\ j \in request[q].others => j \in request'[q].others
               /\ request'[q].todo = <<"create">> => request'[q].others = {}
    <2>1. CASE q = p
      <3>1. <<"replace">> # <<"create">>
        OBVIOUS
      <3>2. QED
        BY <1>1, <1>2, <1>4, <2>1, <3>1
    <2>2. CASE q # p
      BY <1>1, <1>5, <2>2 DEF Replaces, One
    <2>3. QED
      BY <2>1, <2>2
  <1>6. QED
    BY <1>4, <1>5, StaysOne

\* Nothing runs when a plan is created.
LEMMA CreateOne ==
  ASSUME IInv, One, NEW p \in Callers, Create(p)
  PROVE  One'
  <1>1. /\ request[p].todo = <<"create">> /\ Replaces(p) /\ remote' = remote
        /\ request'[p] = Idle
        /\ \A q \in Callers : q # p => request'[q] = request[q]
    BY CreateActs
  <1>2. PICK k \in Subs : sub' = [sub EXCEPT ![k] = request[p].new]
    BY CreateActs
  <1>3. \A j \in Subs : ~Runs(j)
    BY <1>1 DEF One
  <1>4. \A j \in Subs : j # k => sub'[j] = sub[j]
    BY <1>2 DEF IInv, TypeOK
  <1>5. \A j \in Subs : j # k => ~Runs(j)'
    BY <1>1, <1>3, <1>4 DEF Runs, Grants, Begun, Paying
  <1>6. \A q \in Callers : ~Replaces(q)'
    <2>1. ~Replaces(p)'
      BY <1>1, IdleType, SimpleTodos DEF Replaces
    <2>2. \A q \in Callers : q # p => ~Replaces(q)
      BY <1>1 DEF One
    <2>3. QED
      BY <1>1, <2>1, <2>2 DEF Replaces
  <1>7. \A q \in Callers : request'[q].todo # <<"create">>
    BY <1>6 DEF Replaces, Activation
  <1>8. QED
    BY <1>5, <1>6, <1>7 DEF One

LEMMA InitOneRuns ==
  ASSUME Init
  PROVE  OneRuns
  <1>1. \A k \in Subs : Runs(k) => k = 1
    BY DEF Init, Runs, Grants, Begun, Paying, NoDoc, Granting
  <1>2. \A p \in Callers : request[p].todo = <<>>
    BY IdleType DEF Init
  <1>3. <<>> # <<"create">>
    OBVIOUS
  <1>4. \A p \in Callers : ~Replaces(p)
    BY <1>2, SimpleTodos DEF Replaces
  <1>5. QED
    BY <1>1, <1>2, <1>3, <1>4 DEF OneRuns, One

LEMMA OverlappedBefore ==
  ASSUME IInv, Next, ~overlapped'
  PROVE  ~overlapped
  <1>1. CASE Stripe
    BY <1>1, StripeAnnounces, TimeKeeps DEF Stripe, history
  <1>2. CASE \E k \in Subs, plan \in Plans : Checkout(k, plan)
    BY <1>2 DEF Checkout, history
  <1>3. ASSUME NEW p \in Callers, Ask(p)
        PROVE  ~overlapped
    <2>1. PICK r : Asked(r) /\ Begin(p, r)
      BY <1>3, AskAsks
    <2>2. QED
      BY <2>1 DEF Begin, history
  <1>4. ASSUME NEW p \in Callers, Handle(p)
        PROVE  ~overlapped
    BY <1>4 DEF Handle, Deliver, FindOthers, CancelOther, EndOther, Create, history
  <1>5. ASSUME NEW p \in Callers, UpdateStripe(p) \/ CancelStripe(p) \/ Save(p) \/ Die(p)
        PROVE  ~overlapped
    BY <1>5 DEF UpdateStripe, CancelStripe, Save, Die, history
  <1>6. QED
    BY <1>1, <1>2, <1>3, <1>4, <1>5 DEF Next

LEMMA StepOneRuns ==
  ASSUME IInv, InStep, OneRuns, [Next]_vars
  PROVE  OneRuns'
  <1>1. CASE UNCHANGED vars
    BY <1>1 DEF OneRuns, One, Clean, Runs, Grants, Begun, Paying, Replaces, vars, bounds, history
  <1>2. ASSUME Next, Clean', ~overlapped'
        PROVE  One'
    <2>1. Clean /\ tangles' = tangles /\ ~lost' /\ ~overlapped
      BY <1>2, CleanBefore, OverlappedBefore DEF Clean
    <2>2. One /\ \A k \in Subs : Told(k) /\ Heard(k)
      BY <2>1 DEF OneRuns, InStep
    <2>3. CASE Stripe
      BY <2>2, <2>3, StripeOne
    <2>4. CASE \E k \in Subs, plan \in Plans : Checkout(k, plan)
      BY <2>2, <2>4, CheckoutOne
    <2>5. ASSUME NEW p \in Callers, Ask(p)
          PROVE  One'
      BY <2>2, <2>5, AskOne
    <2>6. ASSUME NEW p \in Callers, Handle(p)
          PROVE  One'
      BY <1>2, <2>2, <2>6, DeliverOne, FindOne, CancelOtherOne, EndOtherOne, CreateOne
         DEF Handle
    <2>7. ASSUME NEW p \in Callers, UpdateStripe(p) \/ CancelStripe(p) \/ Save(p) \/ Die(p)
          PROVE  One'
      BY <2>2, <2>7, UpdateOne, CancelOne, SaveOne, DieOne
    <2>8. QED
      BY <1>2, <2>3, <2>4, <2>5, <2>6, <2>7 DEF Next
  <1>3. QED
    BY <1>1, <1>2 DEF OneRuns

\* A business pays for one plan at a time: once all is over, at most one of its
\* documents grants a plan, however many were bought and given, if no two were
\* activated at once.
THEOREM OnePlan == Spec => []AtMostOnePlan
  <1>1. ASSUME IInv, InStep, OneRuns
        PROVE  AtMostOnePlan
    <2> SUFFICES ASSUME Clean, Settled, ~overlapped
                 PROVE  Cardinality({k \in Subs : Grants(k)}) <= 1
      BY DEF AtMostOnePlan
    <2> DEFINE G == {k \in Subs : Grants(k)}
    <2>1. ASSUME NEW k \in Subs, Grants(k)
          PROVE  Runs(k)
      <3>1. CASE sub[k].comp
        BY <2>1, <3>1 DEF Runs
      <3>2. CASE ~sub[k].comp
        <4>1. Begun(k)
          BY <1>1, <2>1, GrantsBegun
        <4>2. sub[k].status = Mapped(remote[k].status)
          BY <1>1, <3>2, <4>1, SettledCopy
        <4>3. Paying(k)
          BY <2>1, <4>2 DEF Grants, Mapped, Paying, Granting
        <4>4. QED
          BY <3>2, <4>1, <4>3 DEF Runs
      <3>3. QED
        BY <3>1, <3>2
    <2>2. \A j, k \in G : j = k
      BY <1>1, <2>1 DEF OneRuns, One
    <2>3. CASE G = {}
      BY <2>3, FS_EmptySet
    <2>4. CASE G # {}
      <3>1. PICK k : k \in G
        BY <2>4
      <3>2. G = {k}
        BY <2>2, <3>1
      <3>3. Cardinality(G) = 1
        BY <3>2, FS_Singleton
      <3>4. QED
        BY <3>3
    <2>5. QED
      BY <2>3, <2>4
  <1>2. Init => OneRuns
    BY InitOneRuns
  <1>3. IInv /\ InStep /\ OneRuns /\ [Next]_vars => OneRuns'
    BY StepOneRuns
  <1>4. QED
    BY <1>1, <1>2, <1>3, AlwaysInStep, PTL DEF Spec

-----------------------------------------------------------------------------
(* Stripe's price, when no request dies and none overtakes an event.        *)

\* The hook that is about to save another plan of k, and the price a request leaves
\* to Stripe: the updates it has yet to ask for, and what they make of the price and
\* the ending.
Reprices(p, k) == Hook(p, k) /\ Saves(p) /\ "plan" \in request[p].paths

Pricing == {<<"price", "save">>, <<"price", "ending", "save">>, <<"change", "save">>}
Turning == {<<"ending", "save">>, <<"price", "ending", "save">>, <<"change", "save">>}
UpdatesLeft(r) ==
    IF r.todo = <<"price", "ending", "save">> THEN 2
    ELSE IF r.todo \in Pricing \cup Turning THEN 1 ELSE 0
Cost(to, r) == IF r.todo \in Pricing THEN r.plan ELSE to.plan
Ends(to, r) == IF r.todo \in Turning THEN r.ending ELSE to.ending

\* The plan that waits, and the plan, once the visitor v and the hook h have saved.
Waits(doc, v) == IF "pending" \in v.paths THEN v.new.pending ELSE doc.pending
Has(doc, v, h) ==
    IF "plan" \in v.paths THEN v.new.plan
    ELSE IF "plan" \in h.paths THEN h.new.plan ELSE doc.plan

\* What is on its way of a subscription: nothing that tells its plan, one such event,
\* or more of them.
Telling(k) == {i \in DOMAIN events[k] : TellsPlan(events[k][i])}
News(k) == IF Telling(k) = {} THEN 0 ELSE IF \A i, j \in Telling(k) : i = j THEN 1 ELSE 2

\* A subscription with news n on its way, the visitor v and the hook h, or Idle for
\* nobody: a plan that waits has its price at Stripe already, and so has the one that
\* runs, but where a cancelled downgrade is still to be told.  Two events on their way
\* say nothing of it, as the next one that is handled is stale.
Fits(n, to, doc, v, h) ==
    /\ Waits(doc, v) # 0 => Cost(to, v) = Waits(doc, v)
    /\ n + UpdatesLeft(v) < 2 =>
        /\ Waits(doc, v) = 0 /\ Cost(to, v) # Has(doc, v, h) =>
            n + UpdatesLeft(v) = 1 /\ Ends(to, v) = TRUE
        /\ "plan" \in h.paths =>
            /\ Waits(doc, v) \in {0, h.new.plan}
            /\ "plan" \in v.paths => v.new.plan = h.new.plan
            /\ n + UpdatesLeft(v) = 0 =>
                /\ Ends(to, v) = TRUE /\ Waits(doc, v) = 0
                /\ "plan" \notin v.paths /\ doc.plan # h.new.plan

\* Who works on k and which hook changes its plan, or Idle.
Working(k, v) ==
    \/ \E p \in Callers : Visitor(p, k) /\ v = request[p]
    \/ (\A p \in Callers : ~Visitor(p, k)) /\ v = Idle
Repricing(k, h) ==
    \/ \E p \in Callers : Reprices(p, k) /\ h = request[p]
    \/ (\A p \in Callers : ~Reprices(p, k)) /\ h = Idle

\* The last event that tells the plan tells Stripe's price.
NewsPriced(k) ==
    \A i \in Telling(k) :
        (\A j \in Telling(k) : j <= i) => events[k][i].plan = remote[k].plan
\* A plan is made active at Stripe's price, and changed only when it is ending.
HookPriced(p, k) ==
    Hook(p, k) =>
        /\ Activates(p) => request[p].new.plan = remote[k].plan /\ request[p].new.pending = 0
        /\ Saves(p) => "pending" \notin request[p].paths
        /\ Reprices(p, k) => request[p].new.ending = TRUE
PlanPriced(k) ==
    Begun(k) /\ ~sub[k].comp /\ Paying(k) =>
        \A v, h \in Request :
            Working(k, v) /\ Repricing(k, h) =>
                Fits(News(k), remote[k], sub[k], v, h)

Priced(k) == k \notin overtaken =>
    NewsPriced(k) /\ (\A p \in Callers : HookPriced(p, k)) /\ PlanPriced(k)
InPrice == Clean /\ mishaps = 0 => \A k \in Subs : Priced(k)

\* The news grows by what Stripe announces, and shrinks by what is handled.
LEMMA NewsKinds ==
  ASSUME NEW k \in Subs
  PROVE  /\ News(k) \in 0 .. 2
         /\ events[k] = <<>> => Telling(k) = {} /\ News(k) = 0
         /\ events'[k] = events[k] => Telling(k)' = Telling(k) /\ News(k)' = News(k)
  BY DEF News, Telling

LEMMA NewsAnnounced ==
  ASSUME IInv, NEW k \in Subs, NewsPriced(k),
         NEW r, NEW types, Announces(k, r, types), Becomes(k, r, types)
  PROVE  /\ News(k)' = IF types = <<"failed">> THEN News(k)
                       ELSE IF News(k) = 0 THEN 1 ELSE 2
         /\ NewsPriced(k)'
  <1>1. PICK n \in Nat, m \in 1 .. 2 :
          /\ n = Len(events[k]) /\ DOMAIN events[k] = 1 .. n
          /\ m = Len(types) /\ DOMAIN events'[k] = 1 .. n + m
          /\ remote'[k] = r
          /\ \A i \in DOMAIN events[k] : events'[k][i] = events[k][i]
          /\ \A i \in 1 .. m : events'[k][n + i] = Message(types[i], r)
    <2>1. /\ remote'[k] = r
          /\ Len(events[k]) \in Nat /\ DOMAIN events[k] = 1 .. Len(events[k])
          /\ Len(types) \in 1 .. 2
          /\ Len(events'[k]) = Len(events[k]) + Len(types)
          /\ DOMAIN events'[k] = 1 .. Len(events'[k])
          /\ \A i \in DOMAIN events[k] : events'[k][i] = events[k][i]
          /\ \A i \in 1 .. Len(types) : events'[k][Len(events[k]) + i] = Message(types[i], r)
      BY Parts, Announced
    <2>2. QED
      BY <2>1
  <1>2. CASE types = <<"failed">>
    <2>1. m = 1 /\ r.plan = remote[k].plan
      BY <1>1, <1>2 DEF Announces
    <2>2. events'[k][n + 1].type = "failed" /\ n + 1 \in 1 .. n + m
      <3>1. 1 \in 1 .. m
        BY <2>1
      <3>2. events'[k][n + 1] = Message(types[1], r)
        BY <1>1, <3>1
      <3>3. QED
        BY <1>2, <2>1, <3>2 DEF Message
    <2>3. \A i \in 1 .. n + m : i \in 1 .. n \/ i = n + 1
      BY <2>1
    <2>4. Telling(k)' = Telling(k)
      <3>1. \A i \in 1 .. n : TellsPlan(events'[k][i]) <=> TellsPlan(events[k][i])
        BY <1>1 DEF TellsPlan
      <3>2. ~TellsPlan(events'[k][n + 1]) /\ \A i \in 1 .. n : i \in 1 .. n + m
        BY <2>2 DEF TellsPlan
      <3>3. QED
        BY <1>1, <2>3, <3>1, <3>2 DEF Telling
    <2>5. NewsPriced(k)'
      <3>1. \A i \in Telling(k) : events'[k][i] = events[k][i]
        BY <1>1 DEF Telling
      <3>2. QED
        BY <1>1, <2>1, <2>4, <3>1 DEF NewsPriced
    <2>6. QED
      BY <1>2, <2>4, <2>5 DEF News
  <1>3. CASE types # <<"failed">>
    <2>2. /\ types[1] \in {"completed", "updated", "deleted"}
          /\ m = 2 => types[2] \in {"paid", "failed"}
      BY <1>1, <1>3 DEF Announces
    <2>3. /\ events'[k][n + 1].type = types[1] /\ events'[k][n + 1].plan = r.plan
          /\ m = 2 => events'[k][n + 2].type = types[2]
      <3>1. 1 \in 1 .. m /\ (m = 2 => 2 \in 1 .. m)
        OBVIOUS
      <3>2. events'[k][n + 1] = Message(types[1], r)
            /\ (m = 2 => events'[k][n + 2] = Message(types[2], r))
        BY <1>1, <3>1
      <3>3. QED
        BY <3>2 DEF Message
    <2>4. \A i \in 1 .. n + m : i \in 1 .. n \/ i = n + 1 \/ (m = 2 /\ i = n + 2)
      OBVIOUS
    <2>5. Telling(k)' = Telling(k) \cup {n + 1}
      <3>1. TellsPlan(events'[k][n + 1]) /\ (m = 2 => ~TellsPlan(events'[k][n + 2]))
        BY <2>2, <2>3 DEF TellsPlan
      <3>2. \A i \in 1 .. n : TellsPlan(events'[k][i]) <=> TellsPlan(events[k][i])
        BY <1>1 DEF TellsPlan
      <3>3. n + 1 \in 1 .. n + m /\ \A i \in 1 .. n : i \in 1 .. n + m
        OBVIOUS
      <3>4. QED
        BY <1>1, <2>4, <3>1, <3>2, <3>3 DEF Telling
    <2>6. Telling(k) \subseteq 1 .. n
      BY <1>1 DEF Telling
    <2>7. NewsPriced(k)'
      <3>1. \A i \in Telling(k)' : (\A j \in Telling(k)' : j <= i) => i = n + 1
        BY <2>5, <2>6
      <3>2. QED
        BY <1>1, <2>3, <3>1 DEF NewsPriced
    <2>8. News(k)' = IF News(k) = 0 THEN 1 ELSE 2
      <3>1. CASE Telling(k) = {}
        BY <2>5, <3>1 DEF News
      <3>2. CASE Telling(k) # {}
        <4>1. PICK i \in Telling(k) : i # n + 1
          BY <2>6, <3>2
        <4>2. QED
          BY <2>5, <3>2, <4>1 DEF News
      <3>3. QED
        BY <3>1, <3>2
    <2>9. QED
      BY <1>3, <2>7, <2>8
  <1>4. QED
    BY <1>2, <1>3

\* The first event is handled: what it tells, if it is not stale, is all the news.
LEMMA NewsHandled ==
  ASSUME IInv, NEW p \in Callers, NEW k \in Subs, Deliver(p, k, 1), 1 \in DOMAIN events[k],
         NewsPriced(k), ~Stale(k, 1)
  PROVE  /\ NewsPriced(k)'
         /\ TellsPlan(events[k][1]) =>
                /\ News(k) = 1 /\ News(k)' = 0
                /\ \A j \in DOMAIN events[k] : j > 1 => ~TellsPlan(events[k][j])
                /\ events[k][1].plan = remote[k].plan
         /\ ~TellsPlan(events[k][1]) => News(k)' = News(k)
  <1>1. PICK n \in Nat \ {0} :
          /\ DOMAIN events[k] = 1 .. n /\ DOMAIN events'[k] = 1 .. n - 1
          /\ \A j \in 1 .. n - 1 : events'[k][j] = events[k][j + 1]
          /\ remote' = remote
    <2>1. PICK n : n = Len(events[k])
      OBVIOUS
    <2>2. /\ n \in Nat /\ n > 0
          /\ DOMAIN events[k] = 1 .. n /\ DOMAIN events'[k] = 1 .. n - 1
          /\ \A j \in 1 .. n - 1 :
                 events'[k][j] = IF j < 1 THEN events[k][j] ELSE events[k][j + 1]
          /\ remote' = remote
      BY <2>1, DeliverActs
    <2>3. ASSUME NEW j \in 1 .. n - 1
          PROVE  events'[k][j] = events[k][j + 1]
      <3>1. ~(j < 1)
        BY <2>2
      <3>2. QED
        BY <2>2, <3>1
    <2>4. n \in Nat \ {0}
      BY <2>2
    <2>5. QED
      BY <2>2, <2>3, <2>4
  <1>2. /\ Telling(k) \subseteq 1 .. n /\ Telling(k)' \subseteq 1 .. n - 1
        /\ 1 \in Telling(k) <=> TellsPlan(events[k][1])
        /\ \A j \in 1 .. n - 1 : j \in Telling(k)' <=> j + 1 \in Telling(k)
    <2>1. \A j \in 1 .. n - 1 : j + 1 \in 1 .. n
      OBVIOUS
    <2>2. \A j \in 1 .. n - 1 : TellsPlan(events'[k][j]) <=> TellsPlan(events[k][j + 1])
      BY <1>1 DEF TellsPlan
    <2>3. QED
      BY <1>1, <2>1, <2>2 DEF Telling
  <1>3. CASE TellsPlan(events[k][1])
    <2>1. \A j \in DOMAIN events[k] : j > 1 => ~TellsPlan(events[k][j])
      BY <1>1, <1>3 DEF Stale
    <2>2. Telling(k) = {1}
      BY <1>1, <1>2, <1>3, <2>1 DEF Telling
    <2>3. Telling(k)' = {}
      BY <1>2, <2>2
    <2>4. QED
      BY <1>3, <2>1, <2>2, <2>3 DEF News, NewsPriced
  <1>4. CASE ~TellsPlan(events[k][1])
    <2>1. \A i \in Telling(k) : i - 1 \in Telling(k)' /\ i - 1 \in 1 .. n - 1
      <3> TAKE i \in Telling(k)
      <3>1. i # 1 /\ i \in 1 .. n
        BY <1>2, <1>4
      <3>2. i - 1 \in 1 .. n - 1 /\ (i - 1) + 1 = i
        BY <3>1
      <3>3. QED
        BY <1>2, <3>2
    <2>2. News(k)' = News(k)
      <3>1. Telling(k) = {} <=> Telling(k)' = {}
        BY <1>2, <2>1
      <3>2. (\A i, j \in Telling(k) : i = j) <=> (\A i, j \in Telling(k)' : i = j)
        <4>1. ASSUME \A i, j \in Telling(k) : i = j, NEW i \in Telling(k)', NEW j \in Telling(k)'
              PROVE  i = j
          <5>1. i + 1 = j + 1 /\ i \in 1 .. n - 1 /\ j \in 1 .. n - 1
            BY <1>2, <4>1
          <5>2. QED
            BY <5>1
        <4>2. ASSUME \A i, j \in Telling(k)' : i = j, NEW i \in Telling(k), NEW j \in Telling(k)
              PROVE  i = j
          <5>1. i - 1 = j - 1 /\ i \in 1 .. n /\ j \in 1 .. n
            BY <1>2, <2>1, <4>2
          <5>2. QED
            BY <5>1
        <4>3. QED
          BY <4>1, <4>2
      <3>3. QED
        BY <3>1, <3>2 DEF News
    <2>3. NewsPriced(k)'
      <3> SUFFICES ASSUME NEW i \in Telling(k)', \A j \in Telling(k)' : j <= i
                   PROVE  events'[k][i].plan = remote'[k].plan
        BY DEF NewsPriced
      <3>1. i + 1 \in Telling(k) /\ i \in 1 .. n - 1
        BY <1>2
      <3>2. ASSUME NEW j \in Telling(k)
            PROVE  j <= i + 1
        <4>1. j - 1 <= i /\ j \in 1 .. n
          BY <1>2, <2>1
        <4>2. QED
          BY <3>1, <4>1
      <3>3. QED
        BY <1>1, <3>1, <3>2 DEF NewsPriced
    <2>4. QED
      BY <1>4, <2>2, <2>3
  <1>5. QED
    BY <1>3, <1>4

\* What is left to tell Stripe.
LEMMA Leaves ==
  /\ Idle.paths = {} /\ UpdatesLeft(Idle) = 0
  /\ \A to : Cost(to, Idle) = to.plan /\ Ends(to, Idle) = to.ending
  /\ \A r, to : r.todo = <<"save">> =>
        UpdatesLeft(r) = 0 /\ Cost(to, r) = to.plan /\ Ends(to, r) = to.ending
  /\ \A r, to : r.todo = <<"cancel", "save">> =>
        UpdatesLeft(r) = 0 /\ Cost(to, r) = to.plan /\ Ends(to, r) = to.ending
  /\ \A r, to : r.todo = <<"price", "save">> =>
        UpdatesLeft(r) = 1 /\ Cost(to, r) = r.plan /\ Ends(to, r) = to.ending
  /\ \A r, to : r.todo = <<"ending", "save">> =>
        UpdatesLeft(r) = 1 /\ Cost(to, r) = to.plan /\ Ends(to, r) = r.ending
  /\ \A r, to : r.todo = <<"change", "save">> =>
        UpdatesLeft(r) = 1 /\ Cost(to, r) = r.plan /\ Ends(to, r) = r.ending
  /\ \A r, to : r.todo = <<"price", "ending", "save">> =>
        UpdatesLeft(r) = 2 /\ Cost(to, r) = r.plan /\ Ends(to, r) = r.ending
  /\ \A r : UpdatesLeft(r) \in Nat
  <1>1. /\ <<>> \notin Pricing \cup Turning /\ <<"save">> \notin Pricing \cup Turning
        /\ <<"cancel", "save">> \notin Pricing \cup Turning
        /\ <<"price", "save">> \notin Turning /\ <<"ending", "save">> \notin Pricing
        /\ <<"price", "save">> \in Pricing /\ <<"ending", "save">> \in Turning
        /\ <<"change", "save">> \in Pricing \cap Turning
        /\ <<"price", "ending", "save">> \in Pricing \cap Turning
    BY DEF Pricing, Turning
  <1>2. /\ <<>> # <<"price", "ending", "save">> /\ <<"save">> # <<"price", "ending", "save">>
        /\ \A s : <<s, "save">> # <<"price", "ending", "save">>
    OBVIOUS
  <1>3. Idle.todo = <<>> /\ Idle.paths = {}
    BY DEF Idle
  <1>4. QED
    BY <1>1, <1>2, <1>3 DEF UpdatesLeft, Cost, Ends

\* A visitor's update is one event more and one update less.
LEMMA FitsUpdate ==
  ASSUME NEW n \in 0 .. 2, NEW to, NEW next, NEW doc, NEW v \in Request, NEW w, NEW h,
         Fits(n, to, doc, v, h), NEW m, m = IF n = 0 THEN 1 ELSE 2,
         w.new = v.new, w.paths = v.paths, w.plan = v.plan, w.ending = v.ending,
         NEW step \in {"price", "ending", "change"},
         v.todo = <<step, "save">> \/ (step = "price" /\ v.todo = <<"price", "ending", "save">>),
         w.todo = IF v.todo = <<"price", "ending", "save">> THEN <<"ending", "save">>
                  ELSE <<"save">>,
         next.plan = IF step = "ending" THEN to.plan ELSE v.plan,
         next.ending = IF step = "price" THEN to.ending ELSE v.ending
  PROVE  Fits(m, next, doc, w, h)
  <1>1. /\ UpdatesLeft(v) \in Nat /\ UpdatesLeft(w) \in Nat
        /\ UpdatesLeft(v) = UpdatesLeft(w) + 1
        /\ Cost(next, w) = Cost(to, v) /\ Ends(next, w) = Ends(to, v)
    <2>1. CASE v.todo = <<"price", "ending", "save">> /\ step = "price"
      BY <2>1, Leaves
    <2>2. CASE v.todo = <<step, "save">>
      <3>1. w.todo = <<"save">>
        BY <2>2
      <3>2. UpdatesLeft(w) = 0 /\ Cost(next, w) = next.plan /\ Ends(next, w) = next.ending
        BY <3>1, Leaves
      <3>3. CASE step = "price"
        BY <2>2, <3>2, <3>3, Leaves
      <3>4. CASE step = "ending"
        BY <2>2, <3>2, <3>4, Leaves
      <3>5. CASE step = "change"
        BY <2>2, <3>2, <3>5, Leaves
      <3>6. QED
        BY <3>3, <3>4, <3>5
    <2>3. QED
      BY <2>1, <2>2
  <1>2. Waits(doc, w) = Waits(doc, v) /\ Has(doc, w, h) = Has(doc, v, h)
    BY DEF Waits, Has
  <1>3. \/ n + UpdatesLeft(v) = m + UpdatesLeft(w)
        \/ n + UpdatesLeft(v) >= 2 /\ m + UpdatesLeft(w) >= 2
    BY <1>1
  <1>4. m + UpdatesLeft(w) < 2 => n + UpdatesLeft(v) = m + UpdatesLeft(w)
    BY <1>1, <1>3
  <1>5. QED
    BY <1>1, <1>2, <1>4 DEF Fits

\* An event more, of the same price.
LEMMA FitsMore ==
  ASSUME NEW n \in 0 .. 2, NEW m, m = IF n = 0 THEN 1 ELSE 2,
         NEW to, NEW next, NEW doc, NEW v, NEW h,
         Fits(n, to, doc, v, h), next.plan = to.plan
  PROVE  Fits(m, next, doc, v, h)
  <1>1. UpdatesLeft(v) \in Nat /\ Cost(next, v) = Cost(to, v)
    BY Leaves DEF Cost
  <1>2. m + UpdatesLeft(v) < 2 => n = 0 /\ UpdatesLeft(v) = 0 /\ m = 1
    BY <1>1
  <1>3. QED
    BY <1>1, <1>2 DEF Fits

\* A visitor saves, and a hook does.
LEMMA FitsSaved ==
  ASSUME NEW n \in Nat, NEW to, NEW doc, NEW saved, NEW v \in Request, NEW h,
         Fits(n, to, doc, v, h), v.todo = <<"save">>,
         saved.plan = IF "plan" \in v.paths THEN v.new.plan ELSE doc.plan,
         saved.pending = IF "pending" \in v.paths THEN v.new.pending ELSE doc.pending
  PROVE  Fits(n, to, saved, Idle, h)
  <1>1. UpdatesLeft(v) = 0 /\ Cost(to, v) = to.plan /\ Ends(to, v) = to.ending
        /\ UpdatesLeft(Idle) = 0 /\ Cost(to, Idle) = to.plan /\ Ends(to, Idle) = to.ending
        /\ Idle.paths = {}
    BY Leaves
  <1>2. Waits(saved, Idle) = Waits(doc, v)
    BY <1>1 DEF Waits
  <1>3. n < 2 => Has(saved, Idle, h) = Has(doc, v, h)
    BY <1>1 DEF Has, Fits
  <1>4. QED
    BY <1>1, <1>2, <1>3 DEF Fits

LEMMA FitsTold ==
  ASSUME NEW n \in Nat, NEW to, NEW doc, NEW saved, NEW v, NEW h,
         Fits(n, to, doc, v, h),
         saved.plan = IF "plan" \in h.paths THEN h.new.plan ELSE doc.plan,
         saved.pending = doc.pending
  PROVE  Fits(n, to, saved, v, Idle)
  <1>1. Waits(saved, v) = Waits(doc, v) /\ Has(saved, v, Idle) = Has(doc, v, h)
        /\ Idle.paths = {}
    BY Leaves DEF Waits, Has
  <1>2. QED
    BY <1>1 DEF Fits

\* The event that is handled alone has Stripe's price: if the plan it names is neither
\* the one that runs nor the one that waits, the hook saves it.
LEMMA FitsHeard ==
  ASSUME NEW to \in Remote, NEW doc \in Doc, NEW h \in Request, Fits(1, to, doc, Idle, Idle),
         IF to.plan \in {doc.plan, doc.pending} THEN h.paths = {}
         ELSE "plan" \in h.paths /\ h.new.plan = to.plan
  PROVE  /\ Fits(0, to, doc, Idle, h)
         /\ "plan" \in h.paths => to.ending = TRUE
  <1>1. UpdatesLeft(Idle) = 0 /\ Cost(to, Idle) = to.plan /\ Ends(to, Idle) = to.ending
        /\ Idle.paths = {} /\ Waits(doc, Idle) = doc.pending
        /\ Has(doc, Idle, Idle) = doc.plan
        /\ Has(doc, Idle, h) = IF "plan" \in h.paths THEN h.new.plan ELSE doc.plan
    BY Leaves DEF Waits, Has
  <1>2. to.plan # 0
    BY DEF Remote, Plans
  <1>3. /\ doc.pending # 0 => to.plan = doc.pending
        /\ doc.pending = 0 /\ to.plan # doc.plan => to.ending = TRUE
    BY <1>1 DEF Fits
  <1>4. QED
    BY <1>1, <1>2, <1>3 DEF Fits

\* A plan that has just been made active.
LEMMA FitsCreated ==
  ASSUME NEW n \in Nat, NEW to, NEW doc, doc.plan = to.plan, doc.pending = 0
  PROVE  Fits(n, to, doc, Idle, Idle)
  BY Leaves DEF Fits, Waits, Has

\* What a person or a job begins to do.
Begins(doc, r) ==
    /\ "plan" \in r.paths <=> r.new.plan # doc.plan
    /\ "pending" \in r.paths <=> r.new.pending # doc.pending
    /\ \/ /\ r.todo = <<"change", "save">> /\ r.plan # doc.plan
          /\ \/ r.new.plan = r.plan /\ r.new.pending = 0
             \/ r.new.plan = doc.plan /\ r.new.pending = r.plan
       \/ /\ r.todo = <<"ending", "save">> /\ r.new.plan = doc.plan
          /\ \/ r.ending = TRUE /\ r.new.pending \in {0, doc.pending}
             \/ r.new.pending = 0 /\ doc.pending = 0
       \/ r.todo = <<"price", "ending", "save">> /\ r.new.pending = 0
       \/ r.todo = <<"price", "save">> /\ r.new.pending = 0 /\ r.plan = r.new.plan
       \/ /\ r.todo = <<"cancel", "save">>
          /\ r.new.plan = doc.plan /\ r.new.pending = doc.pending
       \/ /\ r.todo = <<"save">> /\ doc.pending # 0
          /\ r.new.plan = doc.pending /\ r.new.pending = 0

LEMMA FitsBegins ==
  ASSUME NEW n \in Nat, NEW to \in Remote, NEW doc \in Doc, NEW r \in Request, NEW h \in Request,
         Fits(n, to, doc, Idle, h), Begins(doc, r)
  PROVE  Fits(n, to, doc, r, h)
  <1>1. UpdatesLeft(Idle) = 0 /\ Cost(to, Idle) = to.plan /\ Ends(to, Idle) = to.ending
        /\ Idle.paths = {} /\ Waits(doc, Idle) = doc.pending
        /\ Has(doc, Idle, h) = IF "plan" \in h.paths THEN h.new.plan ELSE doc.plan
    BY Leaves DEF Waits, Has
  <1>2. /\ doc.plan \in Plans /\ doc.pending \in Plans \cup {0} /\ to.plan \in Plans
        /\ r.new.plan \in Plans /\ r.plan \in Plans /\ h.new.plan \in Plans
        /\ \A a, b, c \in Plans : a # c /\ b # c => a = b
        /\ 0 \notin Plans
    BY DEF Doc, Remote, Request, Plans
  <1>3. /\ doc.pending # 0 => to.plan = doc.pending
        /\ n < 2 /\ doc.pending = 0 /\ to.plan # Has(doc, Idle, h) => n = 1 /\ to.ending = TRUE
        /\ n < 2 /\ "plan" \in h.paths =>
             /\ doc.pending \in {0, h.new.plan}
             /\ n = 0 => to.ending = TRUE /\ doc.pending = 0 /\ doc.plan # h.new.plan
    BY <1>1 DEF Fits
  <1>4. /\ Waits(doc, r) = r.new.pending
        /\ Has(doc, r, h) = IF r.new.plan # doc.plan THEN r.new.plan
                            ELSE IF "plan" \in h.paths THEN h.new.plan ELSE doc.plan
        /\ "plan" \in r.paths <=> r.new.plan # doc.plan
    BY DEF Begins, Waits, Has
  <1>5. CASE r.todo = <<"change", "save">>
    <2>1. UpdatesLeft(r) = 1 /\ Cost(to, r) = r.plan
      BY <1>5, Leaves
    <2>2. /\ r.plan # doc.plan
          /\ \/ r.new.plan = r.plan /\ r.new.pending = 0
             \/ r.new.plan = doc.plan /\ r.new.pending = r.plan
      BY <1>5 DEF Begins
    <2>3. QED
      BY <1>1, <1>2, <1>3, <1>4, <2>1, <2>2 DEF Fits
  <1>6. CASE r.todo = <<"ending", "save">>
    <2>1. UpdatesLeft(r) = 1 /\ Cost(to, r) = to.plan /\ Ends(to, r) = r.ending
      BY <1>6, Leaves
    <2>2. /\ r.new.plan = doc.plan
          /\ \/ r.ending = TRUE /\ r.new.pending \in {0, doc.pending}
             \/ r.new.pending = 0 /\ doc.pending = 0
      BY <1>6 DEF Begins
    <2>3. QED
      BY <1>1, <1>2, <1>3, <1>4, <2>1, <2>2 DEF Fits
  <1>7. CASE r.todo = <<"price", "ending", "save">>
    <2>1. UpdatesLeft(r) = 2
      BY <1>7, Leaves
    <2>2. r.new.pending = 0
      BY <1>7 DEF Begins
    <2>3. Waits(doc, r) = 0 /\ ~(n + UpdatesLeft(r) < 2)
      BY <1>4, <2>1, <2>2
    <2>4. QED
      BY <2>3 DEF Fits
  <1>8. CASE r.todo = <<"price", "save">>
    <2>1. UpdatesLeft(r) = 1 /\ Cost(to, r) = r.plan /\ Ends(to, r) = to.ending
      BY <1>8, Leaves
    <2>2. r.new.pending = 0 /\ r.plan = r.new.plan
      BY <1>8 DEF Begins
    <2>3. QED
      BY <1>1, <1>2, <1>3, <1>4, <2>1, <2>2 DEF Fits
  <1>9. CASE r.todo = <<"cancel", "save">>
    <2>1. UpdatesLeft(r) = 0 /\ Cost(to, r) = to.plan /\ Ends(to, r) = to.ending
      BY <1>9, Leaves
    <2>2. r.new.plan = doc.plan /\ r.new.pending = doc.pending
      BY <1>9 DEF Begins
    <2>3. QED
      BY <1>1, <1>2, <1>3, <1>4, <2>1, <2>2 DEF Fits
  <1>10. CASE r.todo = <<"save">>
    <2>1. UpdatesLeft(r) = 0 /\ Cost(to, r) = to.plan /\ Ends(to, r) = to.ending
      BY <1>10, Leaves
    <2>2. doc.pending # 0 /\ r.new.plan = doc.pending /\ r.new.pending = 0
      BY <1>10 DEF Begins
    <2>3. QED
      BY <1>1, <1>2, <1>3, <1>4, <2>1, <2>2 DEF Fits
  <1>11. QED
    BY <1>5, <1>6, <1>7, <1>8, <1>9, <1>10 DEF Begins

LEMMA BegunWith ==
  ASSUME IInv, NEW p \in Callers, NEW r, Begin(p, r), r.todo # <<>>
  PROVE  request'[p] = r
  BY DEF Begin, Turn, IInv, TypeOK

LEMMA AboutSays ==
  ASSUME NEW k \in Subs, NEW by, NEW new, NEW todo
  PROVE  LET r == About(k, by, new, todo)
         IN  /\ r.todo = todo /\ r.id = k /\ r.new = new
             /\ r.plan = new.plan /\ r.ending = new.ending
             /\ "plan" \in r.paths <=> new.plan # sub[k].plan
             /\ "pending" \in r.paths <=> new.pending # sub[k].pending
  BY DEF About, Idle, Paths

\* Each of the requests and jobs begins with what it says.
LEMMA ChangePlanBegins ==
  ASSUME IInv, NEW p \in Callers, ChangePlan(p), NEW k \in Subs, request'[p].id = k
  PROVE  Begins(sub[k], request'[p])
  <1>1. PICK j \in Subs, plan \in Plans :
            LET new == IF plan > sub[j].plan
                       THEN [sub[j] EXCEPT !.plan = plan, !.pending = 0, !.ending = FALSE]
                       ELSE [sub[j] EXCEPT !.pending = plan, !.ending = FALSE]
            IN  /\ plan # sub[j].plan
                /\ Begin(p, [About(j, "person", new, <<"change", "save">>) EXCEPT !.plan = plan])
    BY DEF ChangePlan
  <1> DEFINE new == IF plan > sub[j].plan
                    THEN [sub[j] EXCEPT !.plan = plan, !.pending = 0, !.ending = FALSE]
                    ELSE [sub[j] EXCEPT !.pending = plan, !.ending = FALSE]
             a == About(j, "person", new, <<"change", "save">>)
             r == [a EXCEPT !.plan = plan]
  <1>2. \/ new.plan = plan /\ new.pending = 0
        \/ new.plan = sub[j].plan /\ new.pending = plan
    <2>1. sub[j] \in Doc
      BY GrantsBegun
    <2>2. QED
      BY <2>1 DEF Doc
  <1> HIDE DEF new
  <1>3. /\ a.todo = <<"change", "save">> /\ a.id = j /\ a.new = new
        /\ "plan" \in a.paths <=> new.plan # sub[j].plan
        /\ "pending" \in a.paths <=> new.pending # sub[j].pending
    BY AboutSays
  <1>4. DOMAIN a = DOMAIN Idle /\ "plan" \in DOMAIN Idle
    BY DEF About, Idle
  <1> HIDE DEF a
  <1>5. r.todo = a.todo /\ r.id = a.id /\ r.new = a.new /\ r.paths = a.paths /\ r.plan = plan
    BY <1>4 DEF Idle
  <1> HIDE DEF r
  <1>6. r.todo # <<>>
    BY <1>3, <1>5
  <1>7. Begin(p, r)
    BY <1>1 DEF r, a, new
  <1>8. request'[p] = r /\ j = k
    BY <1>3, <1>5, <1>6, <1>7, BegunWith
  <1>9. Begins(sub[j], r)
    BY <1>1, <1>2, <1>3, <1>5 DEF Begins
  <1>10. QED
    BY <1>8, <1>9

LEMMA CancelBegins ==
  ASSUME IInv, NEW p \in Callers, Cancel(p), NEW k \in Subs, request'[p].id = k, ~sub[k].comp
  PROVE  Begins(sub[k], request'[p])
  <1>1. PICK j \in Subs : \E pending \in {0, sub[j].pending} :
            Begin(p, About(j, "person", [sub[j] EXCEPT !.ending = TRUE, !.pending = pending],
                           IF sub[j].comp THEN <<"save">> ELSE <<"ending", "save">>))
    BY DEF Cancel
  <1>2. PICK pending \in {0, sub[j].pending} :
            Begin(p, About(j, "person", [sub[j] EXCEPT !.ending = TRUE, !.pending = pending],
                           IF sub[j].comp THEN <<"save">> ELSE <<"ending", "save">>))
    BY <1>1
  <1> DEFINE new == [sub[j] EXCEPT !.ending = TRUE, !.pending = pending]
             todo == IF sub[j].comp THEN <<"save">> ELSE <<"ending", "save">>
             r == About(j, "person", new, todo)
  <1>3. new.plan = sub[j].plan /\ new.pending = pending /\ new.ending = TRUE
    <2>1. sub[j] \in Doc
      BY GrantsBegun
    <2>2. QED
      BY <2>1 DEF Doc
  <1>4. todo # <<>>
    OBVIOUS
  <1> HIDE DEF new, todo
  <1>5. /\ r.todo = todo /\ r.id = j /\ r.new = new /\ r.ending = new.ending
        /\ "plan" \in r.paths <=> new.plan # sub[j].plan
        /\ "pending" \in r.paths <=> new.pending # sub[j].pending
    BY AboutSays
  <1> HIDE DEF r
  <1>6. Begin(p, r)
    BY <1>2 DEF r, new, todo
  <1>7. request'[p] = r /\ j = k
    BY <1>4, <1>5, <1>6, BegunWith
  <1>8. todo = <<"ending", "save">>
    BY <1>7 DEF todo
  <1>9. Begins(sub[j], r)
    BY <1>3, <1>5, <1>8 DEF Begins
  <1>10. QED
    BY <1>7, <1>9

LEMMA ResumeBegins ==
  ASSUME IInv, NEW p \in Callers, Resume(p), NEW k \in Subs, request'[p].id = k, ~sub[k].comp
  PROVE  Begins(sub[k], request'[p])
  <1>1. PICK j \in Subs :
            Begin(p, About(j, "person", [sub[j] EXCEPT !.ending = FALSE, !.pending = 0],
                           IF sub[j].comp THEN <<"save">>
                           ELSE IF sub[j].pending # 0 THEN <<"price", "ending", "save">>
                           ELSE <<"ending", "save">>))
    BY DEF Resume
  <1> DEFINE new == [sub[j] EXCEPT !.ending = FALSE, !.pending = 0]
             todo == IF sub[j].comp THEN <<"save">>
                     ELSE IF sub[j].pending # 0 THEN <<"price", "ending", "save">>
                     ELSE <<"ending", "save">>
             r == About(j, "person", new, todo)
  <1>2. new.plan = sub[j].plan /\ new.pending = 0
    <2>1. sub[j] \in Doc
      BY GrantsBegun
    <2>2. QED
      BY <2>1 DEF Doc
  <1>3. todo # <<>>
    OBVIOUS
  <1> HIDE DEF new, todo
  <1>4. /\ r.todo = todo /\ r.id = j /\ r.new = new
        /\ "plan" \in r.paths <=> new.plan # sub[j].plan
        /\ "pending" \in r.paths <=> new.pending # sub[j].pending
    BY AboutSays
  <1> HIDE DEF r
  <1>5. Begin(p, r)
    BY <1>1 DEF r, new, todo
  <1>6. request'[p] = r /\ j = k
    BY <1>3, <1>4, <1>5, BegunWith
  <1>7. \/ todo = <<"price", "ending", "save">>
        \/ todo = <<"ending", "save">> /\ sub[j].pending = 0
    BY <1>6 DEF todo
  <1>8. Begins(sub[j], r)
    BY <1>2, <1>4, <1>7 DEF Begins
  <1>9. QED
    BY <1>6, <1>8

LEMMA SetPlanBegins ==
  ASSUME IInv, NEW p \in Callers, SetPlan(p), NEW k \in Subs, request'[p].id = k
  PROVE  Begins(sub[k], request'[p])
  <1>1. CASE \E j \in Subs, plan \in Plans :
                Begin(p, About(j, "person", [sub[j] EXCEPT !.plan = plan, !.pending = 0],
                               <<"price", "save">>))
    <2>1. PICK j \in Subs, plan \in Plans :
                Begin(p, About(j, "person", [sub[j] EXCEPT !.plan = plan, !.pending = 0],
                               <<"price", "save">>))
      BY <1>1
    <2> DEFINE new == [sub[j] EXCEPT !.plan = plan, !.pending = 0]
               r == About(j, "person", new, <<"price", "save">>)
    <2>2. new.pending = 0
      <3>1. sub[j] \in Doc
        BY GrantsBegun
      <3>2. QED
        BY <3>1 DEF Doc
    <2> HIDE DEF new
    <2>3. /\ r.todo = <<"price", "save">> /\ r.id = j /\ r.new = new /\ r.plan = new.plan
          /\ "plan" \in r.paths <=> new.plan # sub[j].plan
          /\ "pending" \in r.paths <=> new.pending # sub[j].pending
      BY AboutSays
    <2> HIDE DEF r
    <2>4. r.todo # <<>>
      BY <2>3
    <2>5. Begin(p, r)
      BY <2>1 DEF r, new
    <2>6. request'[p] = r /\ j = k
      BY <2>3, <2>4, <2>5, BegunWith
    <2>7. Begins(sub[j], r)
      BY <2>2, <2>3 DEF Begins
    <2>8. QED
      BY <2>6, <2>7
  <1>2. CASE \E plan \in Plans :
                Begin(p, [Idle EXCEPT !.todo = <<"others">>, !.by = "person",
                                !.new = [NoDoc EXCEPT !.status = "active", !.plan = plan,
                                                      !.comp = TRUE]])
    <2>1. PICK plan \in Plans :
                Begin(p, [Idle EXCEPT !.todo = <<"others">>, !.by = "person",
                                !.new = [NoDoc EXCEPT !.status = "active", !.plan = plan,
                                                      !.comp = TRUE]])
      BY <1>2
    <2> DEFINE r == [Idle EXCEPT !.todo = <<"others">>, !.by = "person",
                                !.new = [NoDoc EXCEPT !.status = "active", !.plan = plan,
                                                      !.comp = TRUE]]
    <2>2. r.todo = <<"others">> /\ r.id = 0
      BY DEF Idle
    <2> HIDE DEF r
    <2>3. r.todo # <<>>
      BY <2>2
    <2>4. Begin(p, r)
      BY <2>1 DEF r
    <2>5. request'[p] = r
      BY <2>3, <2>4, BegunWith
    <2>6. QED
      BY <2>2, <2>5 DEF Subs
  <1>3. QED
    BY <1>1, <1>2 DEF SetPlan

LEMMA EndsNowBegins ==
  ASSUME IInv, NEW p \in Callers, NEW by, NEW j \in Subs, EndsNow(p, by, j),
         NEW k \in Subs, request'[p].id = k, ~sub[k].comp
  PROVE  Begins(sub[k], request'[p])
  <1> DEFINE new == [sub[j] EXCEPT !.status = "cancelled"]
             todo == IF sub[j].comp THEN <<"save">> ELSE <<"cancel", "save">>
             r == About(j, by, new, todo)
  <1>1. new.plan = sub[j].plan /\ new.pending = sub[j].pending
    <2>1. sub[j] \in Doc
      BY GrantsBegun
    <2>2. QED
      BY <2>1 DEF Doc
  <1>2. todo # <<>>
    OBVIOUS
  <1> HIDE DEF new, todo
  <1>3. /\ r.todo = todo /\ r.id = j /\ r.new = new
        /\ "plan" \in r.paths <=> new.plan # sub[j].plan
        /\ "pending" \in r.paths <=> new.pending # sub[j].pending
    BY AboutSays
  <1> HIDE DEF r
  <1>4. Begin(p, r)
    BY DEF EndsNow, r, new, todo
  <1>5. request'[p] = r /\ j = k
    BY <1>2, <1>3, <1>4, BegunWith
  <1>6. todo = <<"cancel", "save">>
    BY <1>5 DEF todo
  <1>7. Begins(sub[j], r)
    BY <1>1, <1>3, <1>6 DEF Begins
  <1>8. QED
    BY <1>5, <1>7

LEMMA PeriodEndsBegins ==
  ASSUME IInv, NEW p \in Callers, PeriodEnds(p), NEW k \in Subs, request'[p].id = k, ~sub[k].comp
  PROVE  Begins(sub[k], request'[p])
  <1>1. PICK j \in Subs :
        IF sub[j].comp THEN EndsNow(p, "job", j)
        ELSE /\ Due(j)
             /\ Begin(p, About(j, "job", [sub[j] EXCEPT !.plan = sub[j].pending, !.pending = 0],
                               <<"save">>))
    BY DEF PeriodEnds
  <1>2. CASE sub[j].comp
    BY <1>1, <1>2, EndsNowBegins
  <1>3. CASE ~sub[j].comp
    <2> DEFINE new == [sub[j] EXCEPT !.plan = sub[j].pending, !.pending = 0]
               r == About(j, "job", new, <<"save">>)
    <2>1. new.plan = sub[j].pending /\ new.pending = 0
      <3>1. sub[j] \in Doc
        BY GrantsBegun
      <3>2. QED
        BY <3>1 DEF Doc
    <2> HIDE DEF new
    <2>2. /\ r.todo = <<"save">> /\ r.id = j /\ r.new = new
          /\ "plan" \in r.paths <=> new.plan # sub[j].plan
          /\ "pending" \in r.paths <=> new.pending # sub[j].pending
      BY AboutSays
    <2> HIDE DEF r
    <2>3. r.todo # <<>>
      BY <2>2
    <2>4. Begin(p, r)
      BY <1>1, <1>3 DEF r, new
    <2>5. request'[p] = r /\ j = k
      BY <2>2, <2>3, <2>4, BegunWith
    <2>6. sub[j].pending # 0
      BY <1>1, <1>3 DEF Due
    <2>7. Begins(sub[j], r)
      BY <2>1, <2>2, <2>6 DEF Begins
    <2>8. QED
      BY <2>5, <2>7
  <1>4. QED
    BY <1>2, <1>3

LEMMA AskBegins ==
  ASSUME IInv, NEW p \in Callers, Ask(p), NEW k \in Subs, request'[p].id = k, ~sub[k].comp
  PROVE  Begins(sub[k], request'[p])
  <1>1. CASE AdminEnds(p) \/ EndUnpaid(p)
    BY <1>1, EndsNowBegins DEF AdminEnds, EndUnpaid
  <1>2. QED
    BY <1>1, ChangePlanBegins, CancelBegins, ResumeBegins, SetPlanBegins, PeriodEndsBegins
       DEF Ask

\* A step that leaves what is told of k, and who works on it, as it is.
HookCalm(q, k) ==
    \/ request'[q] = request[q]
    \/ ~Hook(q, k)'
    \/ Hook(q, k) /\ Activates(q) /\ Activates(q)' /\ request'[q].new = request[q].new
Calm(q, k) ==
    \/ request'[q] = request[q]
    \/ HookCalm(q, k) /\ ~Visitor(q, k) /\ ~Visitor(q, k)' /\ ~Reprices(q, k)

LEMMA CalmHooks ==
  ASSUME NEW k \in Subs, NEW q \in Callers
  PROVE  /\ Calm(q, k) => HookCalm(q, k)
         /\ Calm(q, k) => (Visitor(q, k)' <=> Visitor(q, k))
         /\ Calm(q, k) => (Reprices(q, k)' <=> Reprices(q, k))
         /\ Calm(q, k) /\ (Visitor(q, k) \/ Reprices(q, k)) => request'[q] = request[q]
         /\ HookCalm(q, k) /\ Reprices(q, k)' => request'[q] = request[q]
  <1>1. Activates(q)' => ~Saves(q)'
    BY TodoSteps DEF Activates, Saves
  <1>2. ASSUME request'[q] = request[q]
        PROVE  /\ Visitor(q, k)' <=> Visitor(q, k)
               /\ Reprices(q, k)' <=> Reprices(q, k)
    BY <1>2 DEF Visitor, Reprices, Hook, Saves
  <1>3. ASSUME HookCalm(q, k), request'[q] # request[q]
        PROVE  ~Reprices(q, k)'
    BY <1>1, <1>3 DEF HookCalm, Reprices
  <1>4. QED
    BY <1>2, <1>3 DEF Calm, HookCalm

LEMMA Elsewhere ==
  ASSUME NEW k \in Subs, NEW p \in Callers, request[p].id # k, request'[p].id # k,
         \A q \in Callers : q # p => request'[q] = request[q]
  PROVE  \A q \in Callers : Calm(q, k)
  <1>1. Calm(p, k)
    BY DEF Calm, HookCalm, Visitor, Hook, Reprices
  <1>2. QED
    BY <1>1 DEF Calm

LEMMA ActivatingCalm ==
  ASSUME NEW k \in Subs, NEW p \in Callers, Sound(request[p]), Activates(p), Activates(p)',
         request'[p].by = request[p].by, request'[p].id = request[p].id,
         request'[p].new = request[p].new,
         \A q \in Callers : q # p => request'[q] = request[q]
  PROVE  \A q \in Callers : Calm(q, k)
  <1>1. ~Visitor(p, k) /\ ~Visitor(p, k)'
    BY DEF Visitor, Sound, Activates, Subs
  <1>2. ~Reprices(p, k)
    BY TodoSteps DEF Reprices, Activates, Saves
  <1>3. HookCalm(p, k)
    BY DEF HookCalm, Hook
  <1>4. Calm(p, k)
    BY <1>1, <1>2, <1>3 DEF Calm
  <1>5. QED
    BY <1>4 DEF Calm

LEMMA HookStays ==
  ASSUME NEW k \in Subs, NEW q \in Callers, HookPriced(q, k), HookCalm(q, k),
         Hook(q, k) /\ Activates(q) => remote'[k].plan = remote[k].plan
  PROVE  HookPriced(q, k)'
  <1>1. CASE request'[q] = request[q]
    BY <1>1 DEF HookPriced, Hook, Activates, Saves, Reprices
  <1>2. CASE ~Hook(q, k)'
    BY <1>2 DEF HookPriced
  <1>3. CASE Hook(q, k) /\ Activates(q) /\ Activates(q)' /\ request'[q].new = request[q].new
    <2>1. ~Saves(q)'
      BY <1>3, TodoSteps DEF Activates, Saves
    <2>2. request'[q].new.plan = remote'[k].plan /\ request'[q].new.pending = 0
      BY <1>3 DEF HookPriced
    <2>3. QED
      BY <2>1, <2>2 DEF HookPriced, Reprices
  <1>4. QED
    BY <1>1, <1>2, <1>3 DEF HookCalm

LEMMA CalmWorking ==
  ASSUME NEW k \in Subs
  PROVE  /\ (\A q \in Callers : Calm(q, k)) => \A v : Working(k, v)' => Working(k, v)
         /\ (\A q \in Callers : Calm(q, k)) => \A h : Repricing(k, h)' => Repricing(k, h)
  BY CalmHooks DEF Working, Repricing

\* The price fits the plan and the plan that waits.
LEMMA FitsSame ==
  ASSUME NEW n, NEW to, NEW doc, NEW saved, NEW v, NEW h,
         saved.plan = doc.plan, saved.pending = doc.pending, Fits(n, to, doc, v, h)
  PROVE  Fits(n, to, saved, v, h)
  BY DEF Fits, Waits, Has

LEMMA StaysPriced ==
  ASSUME NEW k \in Subs, Priced(k), k \in overtaken => k \in overtaken',
         remote'[k] = remote[k], events'[k] = events[k],
         sub'[k].plan = sub[k].plan, sub'[k].pending = sub[k].pending,
         sub'[k].comp = sub[k].comp, Begun(k)' <=> Begun(k),
         \A q \in Callers : Calm(q, k)
  PROVE  Priced(k)'
  <1> SUFFICES ASSUME k \notin overtaken'
               PROVE  NewsPriced(k)' /\ (\A p \in Callers : HookPriced(p, k)') /\ PlanPriced(k)'
    BY DEF Priced
  <1>1. NewsPriced(k) /\ (\A p \in Callers : HookPriced(p, k)) /\ PlanPriced(k)
    BY DEF Priced
  <1>2. NewsPriced(k)'
    BY <1>1, NewsKinds DEF NewsPriced
  <1>3. \A p \in Callers : HookPriced(p, k)'
    BY <1>1, CalmHooks, HookStays
  <1>4. PlanPriced(k)'
    <2> SUFFICES ASSUME Begun(k)', ~sub'[k].comp, Paying(k)', NEW v \in Request, NEW h \in Request,
                        Working(k, v)', Repricing(k, h)'
                 PROVE  Fits(News(k)', remote'[k], sub'[k], v, h)
      BY DEF PlanPriced
    <2>1. Working(k, v) /\ Repricing(k, h)
      BY CalmWorking
    <2>2. Fits(News(k), remote[k], sub[k], v, h)
      BY <1>1, <2>1 DEF PlanPriced, Paying
    <2>3. QED
      BY <2>2, NewsKinds, FitsSame
  <1>5. QED
    BY <1>2, <1>3, <1>4

\* News is at Stripe's new price, and nobody makes a plan active while it changes.
LEMMA AnnouncedPriced ==
  ASSUME IInv, NEW k \in Subs, Told(k), NewsPriced(k), \A q \in Callers : HookPriced(q, k),
         NEW r, NEW types, Announces(k, r, types), Becomes(k, r, types),
         r.plan # remote[k].plan => Begun(k), \A q \in Callers : HookCalm(q, k)
  PROVE  NewsPriced(k)' /\ \A q \in Callers : HookPriced(q, k)'
  <1>1. remote'[k] = r
    BY Parts, Announced
  <1>2. ASSUME NEW q \in Callers, Hook(q, k), Activates(q)
        PROVE  remote'[k].plan = remote[k].plan
    BY <1>1, <1>2 DEF Told, Pipe
  <1>3. QED
    BY <1>2, HookStays, NewsAnnounced

\* What each step does to the price.
InOrder == \A k \in Subs : Told(k) /\ Heard(k) /\ Priced(k)

LEMMA StripePriced ==
  ASSUME IInv, InOrder, NEW k \in Subs,
         PayCheckout(k) \/ ChargeFails(k) \/ ChargePaid(k) \/ PeriodEndsAtStripe(k)
  PROVE  \A j \in Subs : Priced(j)'
  <1>1. PICK r, types : Announces(k, r, types) /\ Becomes(k, r, types) /\ types # <<"updated">>
    BY StripeAnnounces
  <1>2. UNCHANGED <<sub, request>> /\ overtaken' = overtaken
    BY StripeAnnounces DEF history
  <1>3. /\ remote'[k] = r
        /\ \A j \in Subs : j # k => remote'[j] = remote[j] /\ events'[j] = events[j]
    BY <1>1, Parts, Announced
  <1>4. \A q \in Callers, j \in Subs : Calm(q, j) /\ HookCalm(q, j)
    BY <1>2 DEF Calm, HookCalm
  <1>5. \A j \in Subs : j # k => Priced(j)'
    BY <1>2, <1>3, <1>4, StaysPriced DEF InOrder, Begun
  <1>6. ASSUME k \notin overtaken
        PROVE  NewsPriced(k)' /\ (\A q \in Callers : HookPriced(q, k)') /\ PlanPriced(k)'
    <2>1. Told(k) /\ NewsPriced(k) /\ (\A q \in Callers : HookPriced(q, k)) /\ PlanPriced(k)
      BY <1>6 DEF InOrder, Priced
    <2>2. r.plan = remote[k].plan /\ r.ending = remote[k].ending
      BY <1>1 DEF Announces
    <2>3. NewsPriced(k)' /\ \A q \in Callers : HookPriced(q, k)'
      BY <1>1, <1>4, <2>1, <2>2, AnnouncedPriced
    <2>4. PlanPriced(k)'
      <3> SUFFICES ASSUME Begun(k)', ~sub'[k].comp, Paying(k)', NEW v \in Request,
                          NEW h \in Request, Working(k, v)', Repricing(k, h)'
                   PROVE  Fits(News(k)', remote'[k], sub'[k], v, h)
        BY DEF PlanPriced
      <3>1. Begun(k) /\ ~sub[k].comp /\ Working(k, v) /\ Repricing(k, h)
        BY <1>2, <1>4, CalmWorking DEF Begun
      <3>2. Sold(k)
        BY <3>1 DEF IInv, Sale
      <3>3. types \in {<<"updated", "failed">>, <<"failed">>, <<"updated", "paid">>}
            /\ remote[k].status \in Granting
        <4>1. types # <<"deleted">>
          BY <1>1, <1>3 DEF Announces, Paying, Granting
        <4>2. remote[k].status # "open"
          BY <3>2 DEF Sold
        <4>3. QED
          BY <1>1, <4>1, <4>2 DEF Announces
      <3>4. Fits(News(k), remote[k], sub[k], v, h)
        BY <2>1, <3>1, <3>3 DEF PlanPriced, Paying
      <3>5. /\ News(k) \in 0 .. 2
            /\ News(k)' = IF types = <<"failed">> THEN News(k)
                          ELSE IF News(k) = 0 THEN 1 ELSE 2
        BY <1>1, <2>1, NewsKinds, NewsAnnounced
      <3>6. CASE types = <<"failed">>
        BY <1>2, <1>3, <2>2, <3>4, <3>5, <3>6 DEF Fits, Cost, Ends
      <3>7. CASE types # <<"failed">>
        BY <1>2, <1>3, <2>2, <3>4, <3>5, <3>7, FitsMore
      <3>8. QED
        BY <3>6, <3>7
    <2>5. QED
      BY <2>3, <2>4
  <1>7. Priced(k)'
    BY <1>2, <1>6 DEF Priced
  <1>8. QED
    BY <1>5, <1>7

LEMMA TimePriced ==
  ASSUME IInv, InOrder, TimePasses
  PROVE  \A j \in Subs : Priced(j)'
  <1>1. /\ UNCHANGED <<remote, events, request>> /\ overtaken' = overtaken
        /\ \A k \in Subs : /\ sub'[k].status = sub[k].status /\ sub'[k].plan = sub[k].plan
                           /\ sub'[k].comp = sub[k].comp /\ sub'[k].pending = sub[k].pending
    BY TimeKeeps DEF history
  <1>2. \A q \in Callers, j \in Subs : Calm(q, j)
    BY <1>1 DEF Calm
  <1>3. QED
    BY <1>1, <1>2, StaysPriced DEF InOrder, Begun

LEMMA CheckoutPriced ==
  ASSUME IInv, InOrder, NEW k \in Subs, NEW plan \in Plans, Checkout(k, plan)
  PROVE  \A j \in Subs : Priced(j)'
  <1>1. /\ UNCHANGED <<sub, events, request>> /\ overtaken' = overtaken
        /\ remote[k].status = "none" /\ remote'[k].status = "open"
        /\ \A j \in Subs : j # k => remote'[j] = remote[j]
    BY CheckoutKeeps DEF history
  <1>2. \A q \in Callers, j \in Subs : Calm(q, j)
    BY <1>1 DEF Calm
  <1>3. \A j \in Subs : j # k => Priced(j)'
    BY <1>1, <1>2, StaysPriced DEF InOrder, Begun
  <1>4. ~Sold(k) /\ Sale(k)
    BY <1>1 DEF Sold, IInv
  <1>5. NewsPriced(k)'
    BY <1>1, <1>4, NewsKinds DEF Sale, NewsPriced
  <1>6. \A q \in Callers : HookPriced(q, k)'
    BY <1>1, <1>4 DEF Sale, HookPriced, Hook
  <1>7. PlanPriced(k)'
    BY <1>1 DEF PlanPriced, Paying, Granting
  <1>8. QED
    BY <1>3, <1>5, <1>6, <1>7 DEF Priced

LEMMA AskPriced ==
  ASSUME IInv, InOrder, NEW p \in Callers, Ask(p), tangles' = tangles
  PROVE  \A j \in Subs : Priced(j)'
  <1>1. PICK r : Asked(r) /\ Begin(p, r)
    BY AskAsks
  <1>2. r \in Request /\ Sound(r) /\ r.todo # <<>> /\ r.by \in {"person", "job"}
    BY <1>1 DEF Asked
  <1>3. /\ request[p] = Idle /\ request'[p] = r
        /\ \A q \in Callers : q # p => request'[q] = request[q]
        /\ UNCHANGED <<remote, sub, events>> /\ overtaken' = overtaken
        /\ r.id # 0 =>
             \A q \in Callers : ~(request[q].by \in {"person", "job"} /\ request[q].id = r.id)
    BY <1>1, <1>2, BeginKeeps DEF history
  <1> TAKE j \in Subs
  <1>4. CASE r.id # j
    <2>1. request[p].id # j
      BY <1>3, IdleType DEF Subs
    <2>2. \A q \in Callers : Calm(q, j)
      BY <1>3, <1>4, <2>1, Elsewhere
    <2>3. QED
      BY <1>3, <2>2, StaysPriced DEF InOrder, Begun
  <1>5. CASE r.id = j
    <2>1. /\ \A q \in Callers : ~Visitor(q, j)
          /\ \A q \in Callers : q # p => ~Visitor(q, j)'
          /\ \A q \in Callers : Reprices(q, j)' <=> Reprices(q, j)
          /\ \A q \in Callers : Reprices(q, j) => request'[q] = request[q]
          /\ \A q \in Callers : HookCalm(q, j)
      <3>1. \A q \in Callers : ~Visitor(q, j)
        BY <1>3, <1>5 DEF Visitor, Subs
      <3>2. ~Hook(p, j) /\ ~Hook(p, j)'
        BY <1>2, <1>3, IdleType DEF Hook
      <3>3. QED
        BY <1>3, <3>1, <3>2 DEF Visitor, Reprices, Hook, Saves, HookCalm
    <2>2. ASSUME j \notin overtaken
          PROVE  NewsPriced(j)' /\ (\A q \in Callers : HookPriced(q, j)') /\ PlanPriced(j)'
      <3>1. NewsPriced(j) /\ (\A q \in Callers : HookPriced(q, j)) /\ PlanPriced(j)
        BY <2>2 DEF InOrder, Priced
      <3>2. NewsPriced(j)'
        BY <1>3, <3>1, NewsKinds DEF NewsPriced
      <3>3. \A q \in Callers : HookPriced(q, j)'
        BY <1>3, <2>1, <3>1, HookStays
      <3>4. PlanPriced(j)'
        <4> SUFFICES ASSUME Begun(j)', ~sub'[j].comp, Paying(j)', NEW v \in Request,
                            NEW h \in Request, Working(j, v)', Repricing(j, h)'
                     PROVE  Fits(News(j)', remote'[j], sub'[j], v, h)
          BY DEF PlanPriced
        <4>1. v = r
          <5>1. Visitor(p, j)'
            BY <1>2, <1>3, <1>5 DEF Visitor
          <5>2. QED
            BY <1>3, <2>1, <5>1 DEF Working
        <4>2. Working(j, Idle) /\ Repricing(j, h) /\ Idle \in Request
          BY <2>1, IdleType DEF Working, Repricing
        <4>3. Begun(j) /\ ~sub[j].comp /\ Paying(j)
          BY <1>3 DEF Begun, Paying
        <4>4. Fits(News(j), remote[j], sub[j], Idle, h)
          BY <3>1, <4>2, <4>3 DEF PlanPriced
        <4>5. Begins(sub[j], r)
          BY <1>3, <1>5, <4>3, AskBegins
        <4>6. News(j) \in Nat /\ remote[j] \in Remote /\ sub[j] \in Doc
          BY NewsKinds DEF IInv, TypeOK
        <4>7. Fits(News(j), remote[j], sub[j], r, h)
          BY <1>2, <4>4, <4>5, <4>6, FitsBegins
        <4>8. QED
          BY <1>3, <4>1, <4>7, NewsKinds
      <3>5. QED
        BY <3>2, <3>3, <3>4
    <2>3. QED
      BY <1>3, <2>2 DEF Priced
  <1>6. QED
    BY <1>4, <1>5

LEMMA UpdatePriced ==
  ASSUME IInv, InOrder, NEW p \in Callers, UpdateStripe(p)
  PROVE  \A j \in Subs : Priced(j)'
  <1> DEFINE r == request[p]
  <1>0. PICK k \in Subs : k = r.id
    BY UpdateActs
  <1>1. /\ Visitor(p, k) /\ Begun(k) /\ r \in Request /\ Sound(r)
        /\ sub' = sub /\ overtaken' = overtaken
        /\ \A q \in Callers : q # p => request'[q] = request[q]
        /\ \A q \in Callers, j \in Subs : NoMore(q, j)
    BY <1>0, UpdateActs DEF history
  <1>2. ~Hook(p, k) /\ ~Hook(p, k)'
    BY <1>1 DEF Visitor, Hook, NoMore
  <1>3. \A q \in Callers : HookCalm(q, k)
    BY <1>1, <1>2 DEF HookCalm
  <1>4. request'[p].id \in {k, 0}
    <2>1. Idle.id = 0
      BY IdleType
    <2>2. request'[p] = Idle \/ request'[p] = [r EXCEPT !.todo =
             IF r.todo = <<"price", "ending", "save">>
             THEN <<"ending", "save">> ELSE <<"save">>]
      BY UpdateActs
    <2>3. QED
      BY <1>0, <1>1, <2>1, <2>2 DEF Request
  <1>5. \A j \in Subs : j # k => \A q \in Callers : Calm(q, j)
    <2> TAKE j \in Subs
    <2>1. j # 0
      BY DEF Subs
    <2>2. QED
      BY <1>0, <1>1, <1>4, <2>1, Elsewhere
  <1>6. CASE remote[k].status \notin Granting /\ UNCHANGED <<remote, events>>
    <2>1. \A j \in Subs : j # k => Priced(j)'
      BY <1>1, <1>5, <1>6, StaysPriced DEF InOrder, Begun
    <2>2. ASSUME k \notin overtaken
          PROVE  NewsPriced(k)' /\ (\A q \in Callers : HookPriced(q, k)') /\ PlanPriced(k)'
      <3>1. NewsPriced(k) /\ \A q \in Callers : HookPriced(q, k)
        BY <2>2 DEF InOrder, Priced
      <3>2. NewsPriced(k)'
        BY <1>6, <3>1, NewsKinds DEF NewsPriced
      <3>3. \A q \in Callers : HookPriced(q, k)'
        BY <1>3, <1>6, <3>1, HookStays
      <3>4. PlanPriced(k)'
        BY <1>6 DEF PlanPriced, Paying
      <3>5. QED
        BY <3>2, <3>3, <3>4
    <2>3. QED
      BY <1>1, <2>1, <2>2 DEF Priced
  <1>7. CASE \E step \in {"price", "ending", "change"}, to \in Remote :
                 /\ At(p, step)
                 /\ Announces(k, to, <<"updated">>) /\ Becomes(k, to, <<"updated">>)
                 /\ to.status = remote[k].status
                 /\ to.plan = IF step = "ending" THEN remote[k].plan ELSE r.plan
                 /\ to.ending = IF step = "price" THEN remote[k].ending ELSE r.ending
                 /\ request'[p] = [r EXCEPT !.todo =
                       IF r.todo = <<"price", "ending", "save">>
                       THEN <<"ending", "save">> ELSE <<"save">>]
    <2>1. PICK step \in {"price", "ending", "change"}, to \in Remote :
                 /\ At(p, step)
                 /\ Announces(k, to, <<"updated">>) /\ Becomes(k, to, <<"updated">>)
                 /\ to.status = remote[k].status
                 /\ to.plan = IF step = "ending" THEN remote[k].plan ELSE r.plan
                 /\ to.ending = IF step = "price" THEN remote[k].ending ELSE r.ending
                 /\ request'[p] = [r EXCEPT !.todo =
                       IF r.todo = <<"price", "ending", "save">>
                       THEN <<"ending", "save">> ELSE <<"save">>]
      BY <1>7
    <2>2. /\ remote'[k] = to
          /\ \A j \in Subs : j # k => remote'[j] = remote[j] /\ events'[j] = events[j]
      BY <2>1, Parts, Announced
    <2>3. \A j \in Subs : j # k => Priced(j)'
      BY <1>1, <1>5, <2>2, StaysPriced DEF InOrder, Begun
    <2>4. PICK w \in Request :
            /\ w = request'[p] /\ w.by = r.by /\ w.id = r.id /\ w.new = r.new
            /\ w.paths = r.paths /\ w.plan = r.plan /\ w.ending = r.ending
            /\ w.todo = IF r.todo = <<"price", "ending", "save">>
                        THEN <<"ending", "save">> ELSE <<"save">>
      <3>1. request'[p] \in Request
        BY UpdateActs DEF Requests
      <3>2. QED
        BY <1>1, <2>1, <3>1 DEF Request
    <2>5. ASSUME k \notin overtaken
          PROVE  NewsPriced(k)' /\ (\A q \in Callers : HookPriced(q, k)') /\ PlanPriced(k)'
      <3>1. /\ Told(k) /\ Heard(k)
            /\ NewsPriced(k) /\ (\A q \in Callers : HookPriced(q, k)) /\ PlanPriced(k)
        BY <2>5 DEF InOrder, Priced
      <3>2. NewsPriced(k)' /\ \A q \in Callers : HookPriced(q, k)'
        BY <1>1, <1>3, <2>1, <3>1, AnnouncedPriced
      <3>3. PlanPriced(k)'
        <4> SUFFICES ASSUME ~sub'[k].comp, Paying(k)', NEW v \in Request,
                            NEW h \in Request, Working(k, v)', Repricing(k, h)'
                     PROVE  Fits(News(k)', remote'[k], sub'[k], v, h)
          BY DEF PlanPriced
        <4>1. v = w
          <5>1. Visitor(p, k)'
            BY <1>1, <2>4 DEF Visitor
          <5>2. OneVisitor(k)'
            BY <1>1, <3>1, NoVisitorMore
          <5>3. QED
            BY <2>4, <5>1, <5>2 DEF OneVisitor, Working
        <4>2. Working(k, r) /\ Repricing(k, h)
          <5>1. Working(k, r)
            BY <1>1 DEF Working
          <5>2. \A q \in Callers : q # p => (Reprices(q, k)' <=> Reprices(q, k))
            BY <1>1 DEF Reprices, Hook, Saves
          <5>3. ~Reprices(p, k) /\ ~Reprices(p, k)'
            BY <1>2 DEF Reprices
          <5>4. QED
            BY <1>1, <5>1, <5>2, <5>3 DEF Repricing
        <4>3. Paying(k) /\ ~sub[k].comp
          <5>1. remote'[k].status = remote[k].status
            BY <2>1, <2>2
          <5>2. QED
            BY <1>1, <5>1 DEF Paying
        <4>4. Fits(News(k), remote[k], sub[k], r, h)
          BY <1>1, <3>1, <4>2, <4>3 DEF PlanPriced
        <4>5. r.todo = <<step, "save">>
              \/ (step = "price" /\ r.todo = <<"price", "ending", "save">>)
          <5>1. /\ step = "price" => r.todo \in {<<"price", "save">>, <<"price", "ending", "save">>}
                /\ step = "ending" => r.todo = <<"ending", "save">>
                /\ step = "change" => r.todo = <<"change", "save">>
            BY <2>1, AtStep
          <5>2. QED
            BY <5>1
        <4>6. Fits(News(k)', to, sub[k], w, h)
          <5>1. /\ r \in Request /\ News(k) \in 0 .. 2
                /\ News(k)' = IF News(k) = 0 THEN 1 ELSE 2
            <6>1. PICK types : types = <<"updated">>
              OBVIOUS
            <6>2. types # <<"failed">>
              BY <6>1
            <6>3. Announces(k, to, types) /\ Becomes(k, to, types)
              BY <2>1, <6>1
            <6>4. QED
              BY <1>1, <3>1, <6>2, <6>3, NewsKinds, NewsAnnounced
          <5>2. /\ to.plan = IF step = "ending" THEN remote[k].plan ELSE r.plan
                /\ to.ending = IF step = "price" THEN remote[k].ending ELSE r.ending
            BY <2>1
          <5> HIDE DEF r
          <5>3. QED
            BY <2>4, <4>4, <4>5, <5>1, <5>2, FitsUpdate
        <4>7. QED
          BY <1>1, <2>2, <4>1, <4>6
      <3>4. QED
        BY <3>2, <3>3
    <2>6. QED
      BY <1>1, <2>3, <2>5 DEF Priced
  <1>8. QED
    BY <1>0, <1>6, <1>7, UpdateActs

\* A try to end a plan leaves no price to speak of.
LEMMA EndPriced ==
  ASSUME IInv, InOrder, NEW k \in Subs, TryToEnd(k), ~lost', sub' = sub,
         overtaken' = overtaken,
         \A q \in Callers : HookCalm(q, k),
         \A j \in Subs : j # k => \A q \in Callers : Calm(q, j)
  PROVE  \A j \in Subs : Priced(j)'
  <1>1. CASE \E to : Announces(k, to, <<"deleted">>) /\ Becomes(k, to, <<"deleted">>)
    <2>1. PICK to : Announces(k, to, <<"deleted">>) /\ Becomes(k, to, <<"deleted">>)
      BY <1>1
    <2>2. /\ remote'[k] = to
          /\ \A j \in Subs : j # k => remote'[j] = remote[j] /\ events'[j] = events[j]
      BY <2>1, Parts, Announced
    <2>3. to.status = "canceled" /\ to.plan = remote[k].plan
      BY <2>1 DEF Announces
    <2>4. \A j \in Subs : j # k => Priced(j)'
      BY <2>2, StaysPriced DEF InOrder, Begun
    <2>5. ASSUME k \notin overtaken
          PROVE  NewsPriced(k)' /\ \A q \in Callers : HookPriced(q, k)'
      <3>1. Told(k) /\ NewsPriced(k) /\ \A q \in Callers : HookPriced(q, k)
        BY <2>5 DEF InOrder, Priced
      <3>2. QED
        BY <2>1, <2>3, <3>1, AnnouncedPriced
    <2>6. PlanPriced(k)'
      BY <2>2, <2>3 DEF PlanPriced, Paying, Granting
    <2>7. QED
      BY <2>4, <2>5, <2>6 DEF Priced
  <1>2. CASE remote[k].status \notin Granting /\ UNCHANGED <<remote, events>>
    <2>1. \A j \in Subs : j # k => Priced(j)'
      BY <1>2, StaysPriced DEF InOrder, Begun
    <2>2. ASSUME k \notin overtaken
          PROVE  NewsPriced(k)' /\ \A q \in Callers : HookPriced(q, k)'
      <3>1. NewsPriced(k) /\ \A q \in Callers : HookPriced(q, k)
        BY <2>2 DEF InOrder, Priced
      <3>2. QED
        BY <1>2, <3>1, HookStays, NewsKinds DEF NewsPriced
    <2>3. PlanPriced(k)'
      BY <1>2 DEF PlanPriced, Paying
    <2>4. QED
      BY <2>1, <2>2, <2>3 DEF Priced
  <1>3. QED
    BY <1>1, <1>2, EndActs

LEMMA CancelPriced ==
  ASSUME IInv, InOrder, NEW p \in Callers, CancelStripe(p), ~lost'
  PROVE  \A j \in Subs : Priced(j)'
  <1> DEFINE r == request[p]
  <1>0. PICK k \in Subs : k = r.id
    BY CancelActs
  <1>1. /\ Visitor(p, k) /\ r \in Request /\ TryToEnd(k) /\ sub' = sub /\ overtaken' = overtaken
        /\ \A q \in Callers : q # p => request'[q] = request[q]
        /\ \A q \in Callers, j \in Subs : NoMore(q, j)
        /\ request'[p] = [r EXCEPT !.todo = <<"save">>]
    BY <1>0, CancelActs
  <1>2. ~Hook(p, k) /\ ~Hook(p, k)'
    BY <1>1 DEF Visitor, Hook, NoMore
  <1>3. \A q \in Callers : HookCalm(q, k)
    BY <1>1, <1>2 DEF HookCalm
  <1>4. request'[p].id = k
    BY <1>0, <1>1 DEF Request
  <1>5. \A j \in Subs : j # k => \A q \in Callers : Calm(q, j)
    BY <1>0, <1>1, <1>4, Elsewhere
  <1>6. QED
    BY <1>1, <1>3, <1>5, EndPriced

LEMMA FindPriced ==
  ASSUME IInv, InOrder, NEW p \in Callers, FindOthers(p)
  PROVE  \A j \in Subs : Priced(j)'
  <1>1. /\ Sound(request[p]) /\ request[p].todo = <<"others">>
        /\ UNCHANGED <<remote, sub, events>> /\ overtaken' = overtaken
        /\ request'[p].by = request[p].by /\ request'[p].id = request[p].id
        /\ request'[p].new = request[p].new
        /\ request'[p].todo \in {<<"create">>, <<"replace">>}
        /\ \A q \in Callers : q # p => request'[q] = request[q]
    BY FindActs
  <1>2. Activates(p) /\ Activates(p)'
    BY <1>1 DEF Activates, Activation
  <1>3. \A j \in Subs : \A q \in Callers : Calm(q, j)
    BY <1>1, <1>2, ActivatingCalm
  <1>4. QED
    BY <1>1, <1>3, StaysPriced DEF InOrder, Begun

LEMMA CancelOtherPriced ==
  ASSUME IInv, InOrder, NEW p \in Callers, CancelOther(p), ~lost'
  PROVE  \A j \in Subs : Priced(j)'
  <1>1. /\ request[p].todo = <<"replace">> /\ sub' = sub /\ overtaken' = overtaken
        /\ request'[p].todo = <<"end">>
        /\ request'[p].by = request[p].by /\ request'[p].id = request[p].id
        /\ request'[p].new = request[p].new
        /\ \A q \in Callers : q # p => request'[q] = request[q]
    BY CancelOtherActs
  <1>2. PICK k \in Subs : TryToEnd(k)
    BY CancelOtherActs
  <1>3. Activates(p) /\ Activates(p)' /\ Sound(request[p])
    BY <1>1 DEF Activates, Activation, IInv
  <1>4. \A j \in Subs : \A q \in Callers : Calm(q, j)
    BY <1>1, <1>3, ActivatingCalm
  <1>5. \A q \in Callers : HookCalm(q, k)
    BY <1>4, CalmHooks
  <1>6. QED
    BY <1>1, <1>2, <1>4, <1>5, EndPriced

LEMMA EndOtherPriced ==
  ASSUME IInv, InOrder, NEW p \in Callers, EndOther(p)
  PROVE  \A j \in Subs : Priced(j)'
  <1> DEFINE r == request[p]
  <1>0. PICK k \in Subs : k = r.other
    BY EndOtherActs
  <1>1. /\ r.todo = <<"end">> /\ Begun(k)
        /\ UNCHANGED <<remote, events>> /\ overtaken' = overtaken
        /\ \A q \in Callers : q # p => request'[q] = request[q]
        /\ request'[p].by = r.by /\ request'[p].id = r.id
        /\ request'[p].new = r.new
        /\ request'[p].todo \in {<<"create">>, <<"replace">>}
        /\ \A j \in Subs : j # k => sub'[j] = sub[j]
        /\ sub'[k].status = "cancelled" /\ sub'[k].comp = sub[k].comp
        /\ sub'[k].plan = sub[k].plan /\ sub'[k].pending = sub[k].pending
    BY <1>0, EndOtherActs DEF history
  <1>2. Activates(p) /\ Activates(p)' /\ Sound(r)
    BY <1>1 DEF Activates, Activation, IInv
  <1>3. \A j \in Subs : \A q \in Callers : Calm(q, j)
    BY <1>1, <1>2, ActivatingCalm
  <1>4. \A j \in Subs : /\ sub'[j].plan = sub[j].plan /\ sub'[j].pending = sub[j].pending
                        /\ sub'[j].comp = sub[j].comp /\ (Begun(j)' <=> Begun(j))
    BY <1>1 DEF Begun
  <1>5. QED
    BY <1>1, <1>3, <1>4, StaysPriced DEF InOrder

\* Who saves a plan saves the one that was reckoned with.
LEMMA SavePriced ==
  ASSUME IInv, InOrder, NEW p \in Callers, Save(p)
  PROVE  \A j \in Subs : Priced(j)'
  <1> DEFINE r == request[p]
  <1>0. PICK k \in Subs : k = r.id
    BY SaveActs
  <1>1. /\ r \in Request /\ r.todo = <<"save">>
        /\ r.by \in {"person", "job", "hook"}
        /\ UNCHANGED <<remote, events>> /\ overtaken' = overtaken
        /\ request'[p] = Idle
        /\ \A q \in Callers : q # p => request'[q] = request[q]
        /\ \A j \in Subs : j # k => sub'[j] = sub[j]
        /\ sub'[k].comp = sub[k].comp /\ Begun(k)
        /\ sub'[k].plan = IF "plan" \in r.paths THEN r.new.plan ELSE sub[k].plan
        /\ sub'[k].pending = IF "pending" \in r.paths THEN r.new.pending ELSE sub[k].pending
    BY <1>0, SaveActs DEF history
  <1>2. \A j \in Subs : ~Hook(p, j)' /\ ~Visitor(p, j)' /\ ~Reprices(p, j)'
    BY <1>1, IdleHeard DEF Reprices
  <1>3. \A j \in Subs : j # k => \A q \in Callers : Calm(q, j)
    <2> TAKE j \in Subs
    <2>1. request'[p].id # j
      BY <1>1, IdleType DEF Subs
    <2>2. QED
      BY <1>0, <1>1, <2>1, Elsewhere
  <1>4. \A j \in Subs : j # k => Priced(j)'
    BY <1>1, <1>3, StaysPriced DEF InOrder, Begun
  <1>5. \A q \in Callers : HookCalm(q, k)
    BY <1>1, <1>2 DEF HookCalm
  <1>6. \A q \in Callers : q # p => /\ Visitor(q, k)' <=> Visitor(q, k)
                                    /\ Reprices(q, k)' <=> Reprices(q, k)
    BY <1>1 DEF Visitor, Reprices, Hook, Saves
  <1>7. News(k) \in Nat /\ News(k)' = News(k)
    BY <1>1, NewsKinds
  <1>8. ASSUME k \notin overtaken
        PROVE  NewsPriced(k)' /\ (\A q \in Callers : HookPriced(q, k)') /\ PlanPriced(k)'
    <2>1. /\ Told(k) /\ Heard(k)
          /\ NewsPriced(k) /\ (\A q \in Callers : HookPriced(q, k)) /\ PlanPriced(k)
      BY <1>8 DEF InOrder, Priced
    <2>2. NewsPriced(k)'
      BY <1>1, <2>1, NewsKinds DEF NewsPriced
    <2>3. \A q \in Callers : HookPriced(q, k)'
      BY <1>1, <1>5, <2>1, HookStays
    <2>4. PlanPriced(k)'
      <3> SUFFICES ASSUME ~sub'[k].comp, Paying(k)', NEW v \in Request,
                          NEW h \in Request, Working(k, v)', Repricing(k, h)'
                   PROVE  Fits(News(k)', remote'[k], sub'[k], v, h)
        BY DEF PlanPriced
      <3>1. Begun(k) /\ ~sub[k].comp /\ Paying(k)
        BY <1>1 DEF Paying
      <3>2. CASE r.by # "hook"
        <4>1. Visitor(p, k) /\ ~Reprices(p, k)
          BY <1>0, <1>1, <3>2 DEF Visitor, Reprices, Hook
        <4>2. v = Idle
          <5>1. \A q \in Callers : ~Visitor(q, k)'
            BY <1>2, <1>6, <2>1, <4>1 DEF Heard, OneVisitor
          <5>2. QED
            BY <5>1 DEF Working
        <4>3. Working(k, r)
          BY <4>1 DEF Working
        <4>4. Repricing(k, h)
          BY <1>1, <1>2, <1>6, <4>1 DEF Repricing
        <4>5. Fits(News(k), remote[k], sub[k], r, h)
          BY <1>1, <2>1, <3>1, <4>3, <4>4 DEF PlanPriced
        <4>6. Fits(News(k), remote[k], sub'[k], Idle, h)
          BY <1>1, <1>7, <4>5, FitsSaved
        <4>7. QED
          BY <1>1, <1>7, <4>2, <4>6
      <3>3. CASE r.by = "hook"
        <4>1. Hook(p, k) /\ ~Visitor(p, k) /\ Saves(p)
          BY <1>0, <1>1, <3>3 DEF Hook, Visitor, Saves
        <4>2. Working(k, v)
          BY <1>1, <1>2, <1>6, <4>1 DEF Working
        <4>3. \A q \in Callers : q # p => ~Reprices(q, k)
          BY <2>1, <4>1 DEF Told, Pipe, Reprices
        <4>4. h = Idle
          BY <1>2, <1>6, <4>3 DEF Repricing
        <4> DEFINE g == IF "plan" \in r.paths THEN r ELSE Idle
        <4>5. g \in Request /\ Repricing(k, g)
          BY <1>1, <4>1, <4>3, IdleType DEF Repricing, Reprices
        <4>6. Fits(News(k), remote[k], sub[k], v, g)
          BY <2>1, <3>1, <4>2, <4>5 DEF PlanPriced
        <4>7. sub'[k].plan = IF "plan" \in g.paths THEN g.new.plan ELSE sub[k].plan
          BY <1>1, Leaves
        <4>8. sub'[k].pending = sub[k].pending
          BY <1>1, <2>1, <4>1 DEF HookPriced
        <4> HIDE DEF g
        <4>9. Fits(News(k), remote[k], sub'[k], v, Idle)
          BY <1>7, <4>6, <4>7, <4>8, FitsTold
        <4>10. QED
          BY <1>1, <1>7, <4>4, <4>9
      <3>4. QED
        BY <3>2, <3>3
    <2>5. QED
      BY <2>2, <2>3, <2>4
  <1>9. QED
    BY <1>1, <1>4, <1>8 DEF Priced

\* An event that tells the plan and is not stale finds the price it names; the events
\* of invoices leave plan and price alone.
LEMMA DeliverPriced ==
  ASSUME IInv, InOrder, NEW p \in Callers, NEW k \in Subs, NEW i \in DOMAIN events[k],
         Deliver(p, k, i), tangles' = tangles
  PROVE  \A j \in Subs : Priced(j)'
  <1>1. i = 1 /\ \A q \in Callers : ~Hook(q, k)
    BY DeliverActs
  <1>2. PICK n \in Nat, e \in Event, r \in Request :
          /\ n = Len(events[k]) /\ e = events[k][1] /\ r = request'[p]
    BY <1>1, DeliverActs DEF Handled
  <1>3. /\ Sold(k) /\ WellFormed(e)
        /\ UNCHANGED <<remote, sub>>
        /\ Handled(k, e, r) /\ request[p] = Idle
        /\ \A q \in Callers : q # p => request'[q] = request[q]
        /\ \A j \in Subs : j # k => events'[j] = events[j]
        /\ n \in Nat /\ n > 0 /\ DOMAIN events[k] = 1 .. n
    BY <1>1, <1>2, DeliverActs
  <1>4. overtaken' = IF Stale(k, 1) THEN overtaken \cup {k} ELSE overtaken
    BY <1>1, DeliverActs
  <1>5. (r # Idle => r.by = "hook" /\ r.id = k) /\ Idle.by = "none" /\ Idle.id = 0
    BY <1>3, IdleType DEF Handled
  <1>6. ASSUME NEW j \in Subs, j # k
        PROVE  Priced(j)'
    <2>1. request[p].id # j /\ request'[p].id # j
      BY <1>2, <1>3, <1>5, <1>6 DEF Subs
    <2>2. \A q \in Callers : Calm(q, j)
      BY <1>3, <2>1, Elsewhere
    <2>3. QED
      BY <1>3, <1>4, <1>6, <2>2, StaysPriced DEF InOrder, Begun
  <1>7. ASSUME k \notin overtaken', TellsPlan(e)
        PROVE  NewsPriced(k)' /\ (\A q \in Callers : HookPriced(q, k)') /\ PlanPriced(k)'
    <2>1. /\ k \notin overtaken /\ ~Stale(k, 1)
          /\ \A q \in Callers : ~(request[q].by # "hook" /\ request[q].id = k)
      BY <1>2, <1>4, <1>7 DEF Stale
    <2>2. /\ Pipe(k) /\ StatusInStep(k) /\ EndingInStep(k)
          /\ NewsPriced(k) /\ PlanPriced(k)
      BY <2>1 DEF InOrder, Priced, Told
    <2>7. /\ NewsPriced(k)' /\ News(k) = 1 /\ News(k)' = 0 /\ e.plan = remote[k].plan
          /\ \A j \in DOMAIN events[k] : j > 1 => ~TellsPlan(events[k][j])
      BY <1>1, <1>2, <1>7, <2>1, <2>2, NewsHandled
    <2>3. /\ e.type = "deleted" => remote[k].status = "canceled"
          /\ e.type = "updated" => remote[k].status # "canceled"
          /\ e.type \in {"completed", "updated", "deleted"}
      <3>1. \A j \in DOMAIN events[k] :
                /\ events[k][j] \in Event /\ WellFormed(events[k][j])
                /\ events[k][j].status = "canceled" => remote[k].status = "canceled"
        BY DEF IInv, TypeOK, Sale
      <3>2. events[k][n].status = remote[k].status /\ n \in DOMAIN events[k]
        BY <1>2, <1>3, <2>2 DEF StatusInStep
      <3>3. e.type \in {"completed", "updated", "deleted"}
        BY <1>7 DEF TellsPlan, Event
      <3>4. e.type = "deleted" => remote[k].status = "canceled"
        BY <1>2, <1>3, <3>1 DEF WellFormed
      <3>5. ASSUME e.type = "updated"
            PROVE  remote[k].status # "canceled"
        <4>1. CASE n = 1
          BY <1>2, <1>3, <3>2, <3>5, <4>1 DEF WellFormed
        <4>2. CASE n > 1
          <5>1. ~TellsPlan(events[k][n])
            BY <2>7, <3>2, <4>2
          <5>2. events[k][n].type # "deleted"
            BY <5>1 DEF TellsPlan
          <5>3. QED
            BY <3>1, <3>2, <5>2 DEF WellFormed
        <4>3. QED
          BY <1>3, <4>1, <4>2
      <3>6. QED
        BY <3>3, <3>4, <3>5
    <2>4. e.type = "updated" => e.ending = remote[k].ending
      <3>1. \A j \in DOMAIN events[k] : j > 1 => ~Tells(k, j)
        BY <2>7 DEF TellsPlan, Tells
      <3>2. 1 \in DOMAIN events[k]
        BY <1>3
      <3>3. QED
        BY <1>2, <1>3, <2>2, <3>1, <3>2 DEF EndingInStep, Tells
    <2>5. e.type = "completed" => ~Begun(k)
      BY <1>1, <1>2, <2>2 DEF Pipe
    <2>6. /\ \A q \in Callers : ~Visitor(q, k) /\ ~Reprices(q, k)
          /\ \A q \in Callers : q # p => ~Visitor(q, k)' /\ ~Hook(q, k)' /\ ~Reprices(q, k)'
          /\ ~Visitor(p, k)'
      <3>1. \A q \in Callers : ~Visitor(q, k) /\ ~Reprices(q, k)
        BY <1>1, <2>1 DEF Visitor, Reprices
      <3>2. \A q \in Callers : q # p => ~Visitor(q, k)' /\ ~Hook(q, k)' /\ ~Reprices(q, k)'
        BY <1>1, <1>3, <3>1 DEF Visitor, Reprices, Hook
      <3>3. ~Visitor(p, k)'
        BY <1>2, <1>5 DEF Visitor
      <3>4. QED
        BY <3>1, <3>2, <3>3
    <2> DEFINE g == IF "plan" \in r.paths THEN r ELSE Idle
    <2>8. ASSUME Begun(k), r # Idle
          PROVE  /\ r.todo = <<"save">> /\ ~Activates(p)' /\ Saves(p)'
                 /\ "pending" \notin r.paths
                 /\ "plan" \in r.paths <=>
                        e.type = "updated" /\ remote[k].plan \notin {sub[k].plan, sub[k].pending}
                 /\ "plan" \in r.paths =>
                        r.new.plan = remote[k].plan /\ r.new.ending = remote[k].ending
      <3>1. /\ r.todo = <<"save">> /\ r.new = Applied(k, e)
            /\ r.paths = {f \in Paths : r.new[f] # sub[k][f]}
        BY <1>3, <2>5, <2>8 DEF Handled
      <3>2. ~Activates(p)' /\ Saves(p)'
        BY <1>2, <3>1, TodoSteps DEF Activates, Saves
      <3>3. /\ r.new.pending = sub[k].pending
            /\ r.new.ending = IF e.type = "updated" THEN e.ending ELSE sub[k].ending
            /\ r.new.plan = IF e.type = "updated" /\ e.plan \notin {sub[k].plan, sub[k].pending}
                            THEN e.plan ELSE sub[k].plan
        BY <2>5, <2>8, <3>1, AppliedType
      <3>4. /\ "pending" \in r.paths <=> r.new.pending # sub[k].pending
            /\ "plan" \in r.paths <=> r.new.plan # sub[k].plan
        BY <3>1 DEF Paths
      <3>5. QED
        BY <2>7, <2>4, <3>1, <3>2, <3>3, <3>4
    <2>9. ASSUME Begun(k), r # Idle, e.type = "updated"
          PROVE  /\ Fits(0, remote[k], sub[k], Idle, g)
                 /\ "plan" \in r.paths => remote[k].ending = TRUE
      <3>1. remote[k] \in Remote /\ sub[k] \in Doc /\ g \in Request
        BY IdleType DEF IInv, TypeOK
      <3>2. Paying(k) /\ ~sub[k].comp
        <4>1. remote[k].status # "canceled"
          BY <2>3, <2>9
        <4>2. Sale(k)
          BY DEF IInv
        <4>3. QED
          BY <1>3, <3>1, <4>1, <4>2 DEF Paying, Sold, Remote, Sale
      <3>3. Working(k, Idle) /\ Repricing(k, Idle)
        BY <2>6 DEF Working, Repricing
      <3>4. Fits(1, remote[k], sub[k], Idle, Idle)
        BY <2>7, <2>2, <2>9, <3>2, <3>3, IdleType DEF PlanPriced
      <3>5. IF remote[k].plan \in {sub[k].plan, sub[k].pending} THEN g.paths = {}
            ELSE "plan" \in g.paths /\ g.new.plan = remote[k].plan
        BY <2>8, <2>9, Leaves
      <3>6. "plan" \in r.paths => "plan" \in g.paths
        OBVIOUS
      <3> HIDE DEF g
      <3>7. QED
        BY <3>1, <3>4, <3>5, <3>6, FitsHeard
    <2>10. \A q \in Callers : HookPriced(q, k)'
      <3>1. \A q \in Callers : q # p => HookPriced(q, k)'
        BY <2>6 DEF HookPriced
      <3>2. HookPriced(p, k)'
        <4>1. CASE r = Idle
          BY <1>2, <1>5, <4>1 DEF HookPriced, Hook
        <4>2. CASE r # Idle /\ Begun(k)
          BY <1>2, <2>8, <2>9, <4>2 DEF HookPriced, Reprices
        <4>3. CASE r # Idle /\ ~Begun(k)
          <5>1. e.type = "completed"
            BY <1>3, <4>3 DEF Handled
          <5>2. /\ r.todo = <<"others">> /\ r.new.plan = remote[k].plan /\ r.new.pending = 0
            BY <1>3, <2>7, <5>1 DEF Handled
          <5>3. ~Saves(p)'
            BY <1>2, <5>2 DEF Saves
          <5>4. QED
            BY <1>2, <1>3, <5>2, <5>3 DEF HookPriced, Reprices
        <4>4. QED
          BY <4>1, <4>2, <4>3
      <3>3. QED
        BY <3>1, <3>2
    <2>11. PlanPriced(k)'
      <3> SUFFICES ASSUME Begun(k)', ~sub'[k].comp, Paying(k)', NEW v \in Request,
                          NEW h \in Request, Working(k, v)', Repricing(k, h)'
                   PROVE  Fits(News(k)', remote'[k], sub'[k], v, h)
        BY DEF PlanPriced
      <3>1. Begun(k) /\ Paying(k)
        BY <1>3 DEF Begun, Paying
      <3>2. e.type = "updated"
        <4>1. e.type # "deleted"
          BY <2>3, <3>1 DEF Paying, Granting
        <4>2. QED
          BY <2>3, <2>5, <3>1, <4>1
      <3>3. r # Idle
        BY <1>3, <3>1, <3>2 DEF Handled
      <3>4. v = Idle
        BY <2>6 DEF Working
      <3>5. h = g
        <4>1. Hook(p, k)' /\ Saves(p)'
          BY <1>2, <1>5, <2>8, <3>1, <3>3 DEF Hook
        <4>2. Reprices(p, k)' <=> "plan" \in r.paths
          BY <1>2, <4>1 DEF Reprices
        <4>3. QED
          BY <1>2, <2>6, <4>2 DEF Repricing
      <3>6. Fits(0, remote[k], sub[k], Idle, g)
        BY <2>9, <3>1, <3>2, <3>3
      <3>7. News(k)' = 0 /\ remote' = remote /\ sub' = sub
        BY <1>3, <2>7
      <3> HIDE DEF g
      <3>8. QED
        BY <3>4, <3>5, <3>6, <3>7
    <2>12. QED
      BY <2>7, <2>10, <2>11
  <1>8. ASSUME k \notin overtaken', ~TellsPlan(e)
        PROVE  NewsPriced(k)' /\ (\A q \in Callers : HookPriced(q, k)') /\ PlanPriced(k)'
    <2>1. k \notin overtaken /\ ~Stale(k, 1)
      BY <1>2, <1>4, <1>8 DEF Stale
    <2>2. NewsPriced(k) /\ (\A q \in Callers : HookPriced(q, k)) /\ PlanPriced(k)
      BY <2>1 DEF InOrder, Priced
    <2>3. NewsPriced(k)' /\ News(k)' = News(k)
      BY <1>1, <1>2, <1>8, <2>1, <2>2, NewsHandled
    <2>4. e.type \notin {"completed", "updated", "deleted"} /\ e \in Event
      BY <1>2, <1>8 DEF TellsPlan
    <2>5. ASSUME r # Idle
          PROVE  /\ r.todo = <<"save">> /\ "plan" \notin r.paths /\ "pending" \notin r.paths
      <3>1. /\ r.todo = <<"save">> /\ r.new = Applied(k, e)
            /\ r.paths = {f \in Paths : r.new[f] # sub[k][f]}
        BY <1>3, <2>4, <2>5 DEF Handled
      <3>2. r.new.plan = sub[k].plan /\ r.new.pending = sub[k].pending
        BY <2>4, <3>1, AppliedType
      <3>3. QED
        BY <3>1, <3>2
    <2>6. /\ ~Visitor(p, k) /\ ~Visitor(p, k)' /\ ~Reprices(p, k) /\ ~Reprices(p, k)'
          /\ HookPriced(p, k)'
      <3>1. ~Visitor(p, k) /\ ~Reprices(p, k)
        BY <1>3, <1>5 DEF Visitor, Reprices, Hook
      <3>2. CASE r = Idle
        BY <1>2, <1>5, <3>1, <3>2 DEF Visitor, Reprices, Hook, HookPriced
      <3>3. CASE r # Idle
        <4>1. ~Activates(p)'
          BY <1>2, <2>5, <3>3, TodoSteps DEF Activates
        <4>2. QED
          BY <1>2, <1>5, <2>5, <3>1, <3>3, <4>1 DEF Visitor, Reprices, HookPriced
      <3>4. QED
        BY <3>2, <3>3
    <2>7. \A q \in Callers : q # p => HookPriced(q, k)'
      BY <1>3, <2>2 DEF HookPriced, Hook, Activates, Saves, Reprices
    <2>8. PlanPriced(k)'
      <3> SUFFICES ASSUME Begun(k)', ~sub'[k].comp, Paying(k)', NEW v \in Request,
                          NEW h \in Request, Working(k, v)', Repricing(k, h)'
                   PROVE  Fits(News(k)', remote'[k], sub'[k], v, h)
        BY DEF PlanPriced
      <3>1. \A q \in Callers : q # p => /\ Visitor(q, k)' <=> Visitor(q, k)
                                        /\ Reprices(q, k)' <=> Reprices(q, k)
        BY <1>3 DEF Visitor, Reprices, Hook, Saves
      <3>2. Working(k, v) /\ Repricing(k, h)
        BY <1>3, <2>6, <3>1 DEF Working, Repricing
      <3>3. Fits(News(k), remote[k], sub[k], v, h)
        BY <1>3, <2>2, <3>2 DEF PlanPriced, Begun, Paying
      <3>4. QED
        BY <1>3, <2>3, <3>3
    <2>9. QED
      BY <2>3, <2>6, <2>7, <2>8
  <1>9. QED
    BY <1>6, <1>7, <1>8 DEF Priced

LEMMA CreatePriced ==
  ASSUME IInv, InOrder, NEW p \in Callers, Create(p)
  PROVE  \A j \in Subs : Priced(j)'
  <1> DEFINE r == request[p]
  <1>1. /\ Activates(p)
        /\ UNCHANGED <<remote, events>> /\ overtaken' = overtaken
        /\ request'[p] = Idle
        /\ \A q \in Callers : q # p => request'[q] = request[q]
    BY CreateActs DEF history
  <1>2. PICK k \in Subs :
          /\ \/ r.id = 0 /\ ~Begun(k) /\ remote[k].status = "none" /\ r.new.comp
             \/ r.id = k /\ Hook(p, k) /\ Sold(k) /\ ~r.new.comp
          /\ sub' = [sub EXCEPT ![k] = r.new]
    BY CreateActs
  <1>3. sub'[k] = r.new /\ \A j \in Subs : j # k => sub'[j] = sub[j]
    BY <1>2 DEF IInv, TypeOK
  <1>4. \A j \in Subs : ~Hook(p, j)' /\ ~Visitor(p, j)' /\ ~Reprices(p, j)'
    BY <1>1, IdleHeard DEF Reprices
  <1>5. ASSUME NEW j \in Subs, j # k
        PROVE  Priced(j)'
    <2>1. request'[p].id # j /\ request[p].id # j
      BY <1>1, <1>2, <1>5, IdleType DEF Subs
    <2>2. \A q \in Callers : Calm(q, j)
      BY <1>1, <2>1, Elsewhere
    <2>3. QED
      BY <1>1, <1>3, <1>5, <2>2, StaysPriced DEF InOrder, Begun
  <1>6. \A q \in Callers : HookCalm(q, k)
    BY <1>1, <1>4 DEF HookCalm
  <1>7. ASSUME k \notin overtaken
        PROVE  NewsPriced(k)' /\ (\A q \in Callers : HookPriced(q, k)') /\ PlanPriced(k)'
    <2>1. /\ Told(k) /\ Sale(k)
          /\ NewsPriced(k) /\ \A q \in Callers : HookPriced(q, k)
      BY <1>7 DEF InOrder, Priced, IInv
    <2>2. NewsPriced(k)'
      BY <1>1, <2>1, NewsKinds DEF NewsPriced
    <2>3. \A q \in Callers : HookPriced(q, k)'
      BY <1>1, <1>6, <2>1, HookStays
    <2>4. PlanPriced(k)'
      <3>1. CASE r.new.comp
        BY <1>3, <3>1 DEF PlanPriced
      <3>2. CASE r.id = k /\ Hook(p, k) /\ Sold(k)
        <4>1. ~Begun(k) /\ \A q \in Callers : Hook(q, k) => q = p
          BY <1>1, <2>1, <3>2 DEF Told, Pipe
        <4>2. \A q \in Callers : ~Visitor(q, k)' /\ ~Reprices(q, k)'
          <5>1. \A q \in Callers : q # p => ~Visitor(q, k) /\ ~Hook(q, k)
            BY <2>1, <4>1 DEF Sale
          <5>2. QED
            BY <1>1, <1>4, <5>1 DEF Visitor, Reprices, Hook
        <4>3. r.new.plan = remote[k].plan /\ r.new.pending = 0
          BY <1>1, <2>1, <3>2 DEF HookPriced
        <4>4. News(k) \in Nat /\ News(k)' = News(k)
          BY <1>1, NewsKinds
        <4>5. Fits(News(k), remote[k], r.new, Idle, Idle)
          BY <4>3, <4>4, FitsCreated
        <4>6. \A v, h \in Request : Working(k, v)' /\ Repricing(k, h)' => v = Idle /\ h = Idle
          BY <4>2 DEF Working, Repricing
        <4>7. QED
          BY <1>1, <1>3, <4>4, <4>5, <4>6 DEF PlanPriced
      <3>3. QED
        BY <1>2, <3>1, <3>2
    <2>5. QED
      BY <2>2, <2>3, <2>4
  <1>8. QED
    BY <1>1, <1>5, <1>7 DEF Priced

LEMMA MishapsBefore ==
  ASSUME IInv, Next, mishaps' = 0
  PROVE  mishaps = 0 /\ \A p \in Callers : ~Die(p)
  <1>1. mishaps \in Nat
    BY SubscriptionConstants DEF IInv, TypeOK
  <1>2. ASSUME Stripe
        PROVE  mishaps = 0
    <2>1. ASSUME TimePasses
          PROVE  mishaps' = mishaps
      BY <2>1 DEF TimePasses, bounds
    <2>2. ASSUME NEW k \in Subs,
                 PayCheckout(k) \/ ChargeFails(k) \/ ChargePaid(k) \/ PeriodEndsAtStripe(k)
          PROVE  mishaps' = mishaps
      BY <2>2, StripeAnnounces
    <2>3. mishaps' = mishaps
      BY <1>2, <2>1, <2>2 DEF Stripe
    <2>4. QED
      BY <2>3
  <1>3. ASSUME \E k \in Subs, plan \in Plans : Checkout(k, plan)
        PROVE  mishaps = 0
    <2>1. PICK k \in Subs, plan \in Plans : Checkout(k, plan)
      BY <1>3
    <2>2. mishaps' = mishaps
      BY <2>1, CheckoutKeeps
    <2>3. QED
      BY <2>2
  <1>4. ASSUME NEW p \in Callers, Ask(p)
        PROVE  mishaps = 0
    <2>1. PICK r : Asked(r) /\ Begin(p, r)
      BY <1>4, AskAsks
    <2>2. QED
      BY <2>1 DEF Begin
  <1>5. ASSUME NEW k, TryToEnd(k)
        PROVE  mishaps = 0
    BY <1>1, <1>5 DEF TryToEnd
  <1>6. ASSUME NEW p \in Callers, Handle(p)
        PROVE  mishaps = 0
    <2>1. CASE CancelOther(p)
      <3>1. \E k \in request[p].others : TryToEnd(k)
        BY <2>1 DEF CancelOther
      <3>2. QED
        BY <1>5, <3>1
    <2>2. CASE \E k \in Subs : \E i \in DOMAIN events[k] : Deliver(p, k, i)
      BY <2>2 DEF Deliver
    <2>3. CASE FindOthers(p) \/ EndOther(p) \/ Create(p)
      BY <2>3 DEF FindOthers, EndOther, Create, bounds
    <2>4. QED
      BY <1>6, <2>1, <2>2, <2>3 DEF Handle
  <1>7. ASSUME NEW p \in Callers, UpdateStripe(p) \/ CancelStripe(p) \/ Save(p)
        PROVE  mishaps = 0
    <2>1. CASE CancelStripe(p)
      <3>1. TryToEnd(request[p].id)
        BY <2>1 DEF CancelStripe
      <3>2. QED
        BY <1>5, <3>1
    <2>2. CASE UpdateStripe(p) \/ Save(p)
      BY <2>2 DEF UpdateStripe, Save, bounds
    <2>3. QED
      BY <1>7, <2>1, <2>2
  <1>8. \A p \in Callers : ~Die(p)
    BY <1>1, DieActs
  <1>9. QED
    BY <1>2, <1>3, <1>4, <1>6, <1>7, <1>8 DEF Next

LEMMA InitInPrice ==
  ASSUME Init
  PROVE  InPrice
  <1> SUFFICES ASSUME NEW k \in Subs
               PROVE  Priced(k)
    BY DEF InPrice
  <1>1. /\ events[k] = <<>> /\ \A p \in Callers : request[p] = Idle
        /\ Paying(k) => remote[k].plan = sub[k].plan /\ sub[k].pending = 0
    BY DEF Init, Paying, NoDoc, Granting
  <1>2. \A p \in Callers : ~Hook(p, k) /\ ~Visitor(p, k) /\ ~Reprices(p, k)
    BY <1>1, IdleType DEF Hook, Visitor, Reprices
  <1>3. NewsPriced(k) /\ \A p \in Callers : HookPriced(p, k)
    BY <1>1, <1>2, NewsKinds DEF NewsPriced, HookPriced
  <1>4. PlanPriced(k)
    <2> SUFFICES ASSUME Paying(k), NEW v \in Request, NEW h \in Request,
                        Working(k, v), Repricing(k, h)
                 PROVE  Fits(News(k), remote[k], sub[k], v, h)
      BY DEF PlanPriced
    <2>1. v = Idle /\ h = Idle
      BY <1>2 DEF Working, Repricing
    <2>2. News(k) \in Nat
      BY NewsKinds
    <2>3. QED
      BY <1>1, <2>1, <2>2, FitsCreated
  <1>5. QED
    BY <1>3, <1>4 DEF Priced

LEMMA StepInPrice ==
  ASSUME IInv, InStep, InPrice, [Next]_vars
  PROVE  InPrice'
  <1>1. CASE UNCHANGED vars
    <2>1. UNCHANGED <<remote, sub, events, request, begun, mishaps, tangles, history>>
      BY <1>1 DEF vars, bounds
    <2>2. (Clean' <=> Clean) /\ overtaken' = overtaken
      BY <2>1 DEF Clean, history
    <2>3. ASSUME NEW j \in Subs, Priced(j)
          PROVE  Priced(j)'
      <3>1. \A q \in Callers : Calm(q, j)
        BY <2>1 DEF Calm
      <3>2. Begun(j)' <=> Begun(j)
        BY <2>1 DEF Begun
      <3>3. QED
        BY <2>1, <2>2, <2>3, <3>1, <3>2, StaysPriced
    <2>4. QED
      BY <2>1, <2>2, <2>3 DEF InPrice
  <1>2. ASSUME Next, Clean', mishaps' = 0
        PROVE  \A j \in Subs : Priced(j)'
    <2>1. /\ Clean /\ mishaps = 0 /\ tangles' = tangles /\ ~lost'
          /\ \A p \in Callers : ~Die(p)
      BY <1>2, CleanBefore, MishapsBefore DEF Clean
    <2>2. InOrder
      BY <2>1 DEF InOrder, InPrice, InStep
    <2>3. CASE Stripe
      BY <2>2, <2>3, StripePriced, TimePriced DEF Stripe
    <2>4. CASE \E k \in Subs, plan \in Plans : Checkout(k, plan)
      BY <2>2, <2>4, CheckoutPriced
    <2>5. ASSUME NEW p \in Callers, Ask(p)
          PROVE  \A j \in Subs : Priced(j)'
      BY <2>1, <2>2, <2>5, AskPriced
    <2>6. ASSUME NEW p \in Callers, Handle(p)
          PROVE  \A j \in Subs : Priced(j)'
      BY <2>1, <2>2, <2>6, DeliverPriced, FindPriced, CancelOtherPriced, EndOtherPriced,
         CreatePriced DEF Handle
    <2>7. ASSUME NEW p \in Callers, UpdateStripe(p) \/ CancelStripe(p) \/ Save(p)
          PROVE  \A j \in Subs : Priced(j)'
      BY <2>1, <2>2, <2>7, UpdatePriced, CancelPriced, SavePriced
    <2>8. QED
      BY <1>2, <2>1, <2>3, <2>4, <2>5, <2>6, <2>7 DEF Next
  <1>3. QED
    BY <1>1, <1>2 DEF InPrice

LEMMA AlwaysInPrice == Spec => [](IInv /\ InStep /\ InPrice)
  <1>1. Init => IInv /\ InStep /\ InPrice
    BY InitIInv, InitInStep, InitInPrice
  <1>2. IInv /\ InStep /\ InPrice /\ [Next]_vars => IInv' /\ InStep' /\ InPrice'
    BY StepIInv, StepInStep, StepInPrice
  <1>3. QED
    BY <1>1, <1>2, PTL DEF Spec

\* The business pays for the plan it has, or for the one that waits: Stripe's price is
\* one of the two once all is over, if no request died and no stale event was handled.
THEOREM PriceStaysInStep == Spec => []PriceInStep
  <1>1. ASSUME IInv, InStep, InPrice
        PROVE  PriceInStep
    <2> SUFFICES ASSUME Clean, Settled, mishaps = 0, NEW k \in Subs, k \notin overtaken,
                        Grants(k), ~sub[k].comp
                 PROVE  remote[k].plan \in {sub[k].plan, sub[k].pending}
      BY DEF PriceInStep
    <2>1. PlanPriced(k)
      BY <1>1 DEF InPrice, Priced
    <2>2. \A p \in Callers : ~Visitor(p, k) /\ ~Reprices(p, k)
      <3>1. \A p \in Callers : request[p].by = "none"
        BY <1>1 DEF Settled, Busy, IInv, Sound
      <3>2. QED
        BY <3>1 DEF Visitor, Reprices, Hook
    <2>3. Begun(k) /\ Paying(k)
      <3>1. Begun(k)
        BY <1>1, GrantsBegun
      <3>2. sub[k].status = Mapped(remote[k].status)
        BY <1>1, <3>1, SettledCopy
      <3>3. QED
        BY <3>1, <3>2 DEF Grants, Mapped, Paying, Granting
    <2>4. Working(k, Idle) /\ Repricing(k, Idle) /\ Idle \in Request
      BY <2>2, IdleType DEF Working, Repricing
    <2>5. Fits(0, remote[k], sub[k], Idle, Idle)
      <3>1. News(k) = 0
        BY NewsKinds DEF Settled
      <3>2. QED
        BY <2>1, <2>3, <2>4, <3>1 DEF PlanPriced
    <2>6. UpdatesLeft(Idle) = 0 /\ Cost(remote[k], Idle) = remote[k].plan
          /\ Waits(sub[k], Idle) = sub[k].pending /\ Has(sub[k], Idle, Idle) = sub[k].plan
      BY Leaves DEF Waits, Has
    <2>7. QED
      BY <2>5, <2>6 DEF Fits
  <1>2. QED
    BY <1>1, AlwaysInPrice, PTL

\* The webhook lowers no plan: a downgrade that was asked for waits for the end of its
\* period, whatever events Stripe sends, but where the plan is ending, a request died,
\* or somebody was changing the plan meanwhile.
THEOREM NoPlanLowered == Spec => WebhookLowersNoPlan
  <1> DEFINE Kept == \A k \in Subs, p \in Callers :
                       /\ Clean /\ mishaps = 0 /\ k \notin overtaken
                       /\ At(p, "save") /\ request[p].by = "hook" /\ request[p].id = k
                       /\ request'[p] # request[p]
                       /\ ~request[p].new.ending
                       => sub'[k].plan >= sub[k].plan
  <1>1. ASSUME IInv, InPrice, [Next]_vars
        PROVE  [Kept]_vars
    <2> SUFFICES ASSUME Next, NEW k \in Subs, NEW p \in Callers,
                        Clean, mishaps = 0, k \notin overtaken, At(p, "save"),
                        request[p].by = "hook", request[p].id = k, request'[p] # request[p],
                        ~request[p].new.ending
                 PROVE  sub'[k].plan >= sub[k].plan
      BY <1>1
    <2>1. Hook(p, k) /\ Saves(p) /\ "plan" \notin request[p].paths
      <3>1. Hook(p, k) /\ Saves(p)
        BY <1>1, AtStep DEF Hook, Saves
      <3>2. HookPriced(p, k)
        BY <1>1 DEF InPrice, Priced
      <3>3. QED
        BY <3>1, <3>2 DEF HookPriced, Reprices
    <2>2. sub[k].plan \in Nat
      <3>1. sub[k] \in Doc
        BY <1>1 DEF IInv, TypeOK
      <3>2. QED
        BY <3>1 DEF Doc, Plans
    <2>3. sub'[k].plan = sub[k].plan
      <3>1. request[p].todo = <<"save">>
        BY <2>1 DEF Saves
      <3>2. CASE Stripe
        BY <1>1, <3>2, StripeAnnounces, TimeKeeps DEF Stripe
      <3>3. CASE \E j \in Subs, plan \in Plans : Checkout(j, plan)
        BY <3>3 DEF Checkout
      <3>4. ASSUME NEW q \in Callers, Ask(q)
            PROVE  sub' = sub
        <4>1. PICK r : Asked(r) /\ Begin(q, r)
          BY <1>1, <3>4, AskAsks
        <4>2. QED
          BY <4>1 DEF Begin
      <3>5. ASSUME NEW q \in Callers, UpdateStripe(q) \/ CancelStripe(q) \/ Die(q) \/ FindOthers(q)
                                      \/ CancelOther(q)
                                      \/ \E j \in Subs : \E i \in DOMAIN events[j] : Deliver(q, j, i)
            PROVE  sub' = sub
        BY <3>5 DEF UpdateStripe, CancelStripe, Die, FindOthers, CancelOther, Deliver
      <3>6. ASSUME NEW q \in Callers, EndOther(q) \/ Create(q)
            PROVE  FALSE
        <4>1. /\ request[q].todo \in {<<"end">>, <<"create">>}
              /\ \A x \in Callers : x # q => request'[x] = request[x]
          BY <1>1, <3>6, EndOtherActs, CreateActs
        <4>2. request[q].todo # <<"save">>
          BY <4>1
        <4>3. QED
          BY <3>1, <4>1, <4>2
      <3>7. ASSUME NEW q \in Callers, Save(q)
            PROVE  sub'[k].plan = sub[k].plan
        <4>1. q = p
          BY <1>1, <3>7, SaveActs
        <4>2. QED
          BY <1>1, <2>1, <3>7, <4>1, SaveActs DEF Hook
      <3>8. QED
        BY <3>2, <3>3, <3>4, <3>5, <3>6, <3>7 DEF Next, Handle
    <2>4. QED
      BY <2>2, <2>3
  <1>2. QED
    BY <1>1, AlwaysInPrice, PTL DEF Spec, WebhookLowersNoPlan
=============================================================================
