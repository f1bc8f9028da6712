-------------------------- MODULE OffersPlanProofs --------------------------
(***************************************************************************)
(* What follows from the order of a request's steps.  Each call of the code  *)
(* leaves one of a few lists of steps to do; an invariant over these lists   *)
(* gives the three properties that depend on what comes last, or next: the   *)
(* count of live offers is right again, an offer hidden for its reports has  *)
(* a case, and an offer goes to review only after two absences.             *)
(***************************************************************************)
EXTENDS OffersProofs

-----------------------------------------------------------------------------
(* What a request may have left to do.                                      *)

\* Before it has counted, between its count and the write of it, before it
\* writes the offer's status, anything else of the offer, or the offer itself, and
\* before it expires the offer.
Counting == {
    <<"count", "write">>,
    <<"count", "write", "revision">>,
    <<"count", "write", "decide", "reports">>,
    <<"count", "write", "candidate">>,
    <<"count", "write", "orphans">>,
    <<"count", "write", "supersede", "done">>,
    <<"hidden", "count", "write">>}
Writing == {
    <<"write">>,
    <<"write", "revision">>,
    <<"write", "decide", "reports">>,
    <<"write", "candidate">>,
    <<"write", "orphans">>,
    <<"write", "supersede", "done">>}
Changing == {
    <<"offer", "count", "write">>,
    <<"offer", "count", "write", "revision">>,
    <<"offer", "count", "write", "decide", "reports">>,
    <<"offer", "count", "write", "orphans">>,
    <<"offer", "count", "write", "supersede", "done">>,
    <<"offer", "hidden", "count", "write">>,
    <<"revision", "offer", "count", "write">>,
    <<"supersede", "offer", "count", "write">>}
Keeping  == {<<"offer">>, <<"supersede", "offer">>}
Creating == {<<"create", "count", "write", "candidate">>}
Expiring == {<<"expire">>, <<"expire", "count", "write">>}
Short == {
    <<>>, <<"revision">>, <<"candidate">>, <<"orphans">>, <<"supersede">>, <<"done">>,
    <<"supersede", "done">>, <<"decide", "reports">>, <<"reports">>, <<"decide">>,
    <<"propose", "check">>, <<"check">>, <<"report", "case">>, <<"case">>, <<"distinct">>,
    <<"appeal">>, <<"restore">>, <<"find">>, <<"store">>}
Todos == Counting \cup Writing \cup Changing \cup Keeping \cup Creating \cup Expiring \cup Short
Elses == {<<>>, <<"orphans">>, <<"count", "write", "supersede", "done">>}

\* No list is of two kinds.
LEMMA Disjoint ==
  /\ Short \cap (Counting \cup Writing \cup Changing \cup Keeping \cup Creating) = {}
  /\ Counting \cap (Writing \cup Changing \cup Keeping \cup Creating) = {}
  /\ Writing \cap (Changing \cup Keeping \cup Creating) = {}
  /\ Keeping \cap (Changing \cup Creating) = {} /\ Changing \cap Creating = {}
  /\ Expiring \cap (Short \cup Counting \cup Writing \cup Changing \cup Keeping \cup Creating) = {}
  BY DEF Short, Counting, Writing, Changing, Keeping, Creating, Expiring

\* The first step of a written-out list.
LEMMA HeadOf ==
  ASSUME NEW a, NEW b, NEW c, NEW d, NEW e
  PROVE  /\ Head(<<a>>) = a /\ Head(<<a, b>>) = a /\ Head(<<a, b, c>>) = a
         /\ Head(<<a, b, c, d>>) = a /\ Head(<<a, b, c, d, e>>) = a
  OBVIOUS

\* After the count comes its write, and after the write what changes no offer.
LEMMA CountingTails ==
  /\ \A t \in Counting : /\ t # <<>> /\ Head(t) \in {"count", "hidden"}
                         /\ Head(t) = "count" => Tail(t) \in Writing
                         /\ Head(t) = "hidden" => t = <<"hidden", "count", "write">>
                                                  /\ Tail(t) \in Counting
  /\ \A t \in Writing : t # <<>> /\ Head(t) = "write" /\ Tail(t) \in Short
  BY DEF Short, Counting, Writing

\* Whoever changes the offer's status, or creates it, counts next.
LEMMA ChangingTails ==
  /\ \A t \in Changing : /\ t # <<>> /\ Head(t) \in {"offer", "revision", "supersede"}
                         /\ Head(t) = "offer" => Tail(t) \in Counting
                         /\ Head(t) # "offer" => Tail(t) = <<"offer", "count", "write">>
  /\ \A t \in Keeping : /\ t # <<>> /\ Head(t) \in {"offer", "supersede"}
                        /\ Head(t) = "offer" => Tail(t) = <<>>
                        /\ Head(t) = "supersede" => Tail(t) = <<"offer">>
  /\ \A t \in Creating : /\ t # <<>> /\ Head(t) = "create"
                         /\ Tail(t) = <<"count", "write", "candidate">>
  /\ \A t \in Expiring : /\ t # <<>> /\ Head(t) = "expire"
                         /\ Tail(t) \in {<<>>, <<"count", "write">>}
  <1>1. ASSUME NEW t \in Changing
        PROVE  /\ t # <<>> /\ Head(t) \in {"offer", "revision", "supersede"}
               /\ Head(t) = "offer" => Tail(t) \in Counting
               /\ Head(t) # "offer" => Tail(t) = <<"offer", "count", "write">>
    <2>1. CASE t = <<"offer", "count", "write">>
      <3>1. Tail(t) = <<"count", "write">> /\ Head(t) = "offer" /\ t # <<>>
        BY <2>1
      <3>2. QED
        BY <3>1 DEF Counting
    <2>2. CASE t = <<"offer", "count", "write", "revision">>
      <3>1. Tail(t) = <<"count", "write", "revision">> /\ Head(t) = "offer" /\ t # <<>>
        BY <2>2
      <3>2. QED
        BY <3>1 DEF Counting
    <2>3. CASE t = <<"offer", "count", "write", "decide", "reports">>
      <3>1. Tail(t) = <<"count", "write", "decide", "reports">> /\ Head(t) = "offer" /\ t # <<>>
        BY <2>3
      <3>2. QED
        BY <3>1 DEF Counting
    <2>4. CASE t = <<"offer", "count", "write", "orphans">>
      <3>1. Tail(t) = <<"count", "write", "orphans">> /\ Head(t) = "offer" /\ t # <<>>
        BY <2>4
      <3>2. QED
        BY <3>1 DEF Counting
    <2>5. CASE t = <<"offer", "count", "write", "supersede", "done">>
      <3>1. Tail(t) = <<"count", "write", "supersede", "done">> /\ Head(t) = "offer" /\ t # <<>>
        BY <2>5
      <3>2. QED
        BY <3>1 DEF Counting
    <2>6. CASE t = <<"offer", "hidden", "count", "write">>
      <3>1. Tail(t) = <<"hidden", "count", "write">> /\ Head(t) = "offer" /\ t # <<>>
        BY <2>6
      <3>2. QED
        BY <3>1 DEF Counting
    <2>7. CASE t = <<"revision", "offer", "count", "write">>
      BY <2>7
    <2>8. CASE t = <<"supersede", "offer", "count", "write">>
      BY <2>8
    <2>9. QED
      BY <2>1, <2>2, <2>3, <2>4, <2>5, <2>6, <2>7, <2>8 DEF Changing
  <1>2. /\ \A t \in Keeping : /\ t # <<>> /\ Head(t) \in {"offer", "supersede"}
                              /\ Head(t) = "offer" => Tail(t) = <<>>
                              /\ Head(t) = "supersede" => Tail(t) = <<"offer">>
        /\ \A t \in Creating : /\ t # <<>> /\ Head(t) = "create"
                               /\ Tail(t) = <<"count", "write", "candidate">>
        /\ \A t \in Expiring : /\ t # <<>> /\ Head(t) = "expire"
                               /\ Tail(t) \in {<<>>, <<"count", "write">>}
    BY DEF Keeping, Creating, Expiring
  <1>3. QED
    BY <1>1, <1>2

\* What is left of a list that writes no offer writes none either.
LEMMA ShortTails ==
  ASSUME NEW t \in Short, t # <<>>
  PROVE  /\ Head(t) \notin {"offer", "count", "write", "create", "hidden", "expire"}
         /\ Tail(t) \in Short
  <1>1. CASE t \in {<<"revision">>, <<"candidate">>, <<"orphans">>, <<"supersede">>, <<"done">>,
                    <<"reports">>, <<"decide">>, <<"check">>, <<"case">>, <<"distinct">>,
                    <<"appeal">>, <<"restore">>, <<"find">>, <<"store">>}
    <2>1. PICK a \in Steps \ {"offer", "count", "write", "create", "hidden", "expire"} : t = <<a>>
      BY <1>1 DEF Steps
    <2>2. Head(t) = a /\ Tail(t) = <<>>
      BY <2>1
    <2>3. QED
      BY <2>1, <2>2 DEF Short
  <1>2. CASE t \in {<<"supersede", "done">>, <<"decide", "reports">>, <<"propose", "check">>,
                    <<"report", "case">>}
    <2>1. PICK a \in {"supersede", "decide", "propose", "report"},
               b \in {"done", "reports", "check", "case"} : t = <<a, b>>
      BY <1>2
    <2>2. Head(t) = a /\ Tail(t) = <<b>>
      BY <2>1
    <2>3. QED
      BY <2>1, <2>2 DEF Short
  <1>3. QED
    BY <1>1, <1>2 DEF Short

\* Two lists joined, given position by position.
LEMMA Joined ==
  ASSUME NEW S, NEW s \in Seq(S), NEW t \in Seq(S), NEW u \in Seq(S),
         Len(u) = Len(s) + Len(t),
         \A i \in 1 .. Len(s) : u[i] = s[i],
         \A i \in 1 .. Len(t) : u[Len(s) + i] = t[i]
  PROVE  s \o t = u
  <1> DEFINE c == s \o t
  <1>1. /\ c \in Seq(S) /\ Len(c) = Len(s) + Len(t)
        /\ \A i \in 1 .. Len(c) : c[i] = IF i <= Len(s) THEN s[i] ELSE t[i - Len(s)]
    BY ConcatProperties
  <1>2. Len(s) \in Nat /\ Len(t) \in Nat
    OBVIOUS
  <1> HIDE DEF c
  <1>3. ASSUME NEW i \in 1 .. Len(c)
        PROVE  c[i] = u[i]
    <2>1. CASE i <= Len(s)
      BY <1>1, <1>2, <2>1
    <2>2. CASE i > Len(s)
      <3> DEFINE j == i - Len(s)
      <3>1. j \in 1 .. Len(t) /\ Len(s) + j = i
        BY <1>1, <1>2, <2>2
      <3>2. c[i] = t[j]
        BY <1>1, <1>2, <2>2
      <3> HIDE DEF j
      <3>3. QED
        BY <3>1, <3>2
    <2>3. QED
      BY <1>1, <1>2, <2>1, <2>2
  <1>4. c = u
    BY <1>1, <1>3, SeqEqual
  <1>5. QED
    BY <1>4 DEF c

\* The joins the model makes, written out.
LEMMA OneAndOne ==
  ASSUME NEW a, NEW b
  PROVE  <<a>> \o <<b>> = <<a, b>>
  <1> DEFINE S == {a, b}
             s == <<a>>
             t == <<b>>
             u == <<a, b>>
  <1>1. /\ s \in Seq(S) /\ t \in Seq(S) /\ u \in Seq(S)
        /\ Len(s) = 1 /\ Len(t) = 1 /\ Len(u) = 2
        /\ u[1] = s[1] /\ u[2] = t[1]
    OBVIOUS
  <1> HIDE DEF S, s, t, u
  <1>2. /\ Len(u) = Len(s) + Len(t)
        /\ \A i \in 1 .. Len(s) : u[i] = s[i]
        /\ \A i \in 1 .. Len(t) : u[Len(s) + i] = t[i]
    BY <1>1
  <1>3. s \o t = u
    BY <1>1, <1>2, Joined
  <1>4. QED
    BY <1>3 DEF s, t, u

LEMMA OneAndTwo ==
  ASSUME NEW a, NEW b, NEW c
  PROVE  <<a>> \o <<b, c>> = <<a, b, c>>
  <1> DEFINE S == {a, b, c}
             s == <<a>>
             t == <<b, c>>
             u == <<a, b, c>>
  <1>1. /\ s \in Seq(S) /\ t \in Seq(S) /\ u \in Seq(S)
        /\ Len(s) = 1 /\ Len(t) = 2 /\ Len(u) = 3
        /\ u[1] = s[1] /\ u[2] = t[1] /\ u[3] = t[2]
    OBVIOUS
  <1> HIDE DEF S, s, t, u
  <1>2. /\ Len(u) = Len(s) + Len(t)
        /\ \A i \in 1 .. Len(s) : u[i] = s[i]
        /\ \A i \in 1 .. Len(t) : u[Len(s) + i] = t[i]
    BY <1>1
  <1>3. s \o t = u
    BY <1>1, <1>2, Joined
  <1>4. QED
    BY <1>3 DEF s, t, u

LEMMA OneAndThree ==
  ASSUME NEW a, NEW b, NEW c, NEW d
  PROVE  <<a>> \o <<b, c, d>> = <<a, b, c, d>>
  <1> DEFINE S == {a, b, c, d}
             s == <<a>>
             t == <<b, c, d>>
             u == <<a, b, c, d>>
  <1>1. /\ s \in Seq(S) /\ t \in Seq(S) /\ u \in Seq(S)
        /\ Len(s) = 1 /\ Len(t) = 3 /\ Len(u) = 4
        /\ u[1] = s[1] /\ u[2] = t[1] /\ u[3] = t[2] /\ u[4] = t[3]
    OBVIOUS
  <1> HIDE DEF S, s, t, u
  <1>2. /\ Len(u) = Len(s) + Len(t)
        /\ \A i \in 1 .. Len(s) : u[i] = s[i]
        /\ \A i \in 1 .. Len(t) : u[Len(s) + i] = t[i]
    BY <1>1
  <1>3. s \o t = u
    BY <1>1, <1>2, Joined
  <1>4. QED
    BY <1>3 DEF s, t, u

LEMMA OneAndFour ==
  ASSUME NEW a, NEW b, NEW c, NEW d, NEW e
  PROVE  <<a>> \o <<b, c, d, e>> = <<a, b, c, d, e>>
  <1> DEFINE S == {a, b, c, d, e}
             s == <<a>>
             t == <<b, c, d, e>>
             u == <<a, b, c, d, e>>
  <1>1. /\ s \in Seq(S) /\ t \in Seq(S) /\ u \in Seq(S)
        /\ Len(s) = 1 /\ Len(t) = 4 /\ Len(u) = 5
        /\ u[1] = s[1] /\ u[2] = t[1] /\ u[3] = t[2] /\ u[4] = t[3] /\ u[5] = t[4]
    OBVIOUS
  <1> HIDE DEF S, s, t, u
  <1>2. /\ Len(u) = Len(s) + Len(t)
        /\ \A i \in 1 .. Len(s) : u[i] = s[i]
        /\ \A i \in 1 .. Len(t) : u[Len(s) + i] = t[i]
    BY <1>1
  <1>3. s \o t = u
    BY <1>1, <1>2, Joined
  <1>4. QED
    BY <1>3 DEF s, t, u

LEMMA TwoAndOne ==
  ASSUME NEW a, NEW b, NEW c
  PROVE  <<a, b>> \o <<c>> = <<a, b, c>>
  <1> DEFINE S == {a, b, c}
             s == <<a, b>>
             t == <<c>>
             u == <<a, b, c>>
  <1>1. /\ s \in Seq(S) /\ t \in Seq(S) /\ u \in Seq(S)
        /\ Len(s) = 2 /\ Len(t) = 1 /\ Len(u) = 3
        /\ u[1] = s[1] /\ u[2] = s[2] /\ u[3] = t[1]
    OBVIOUS
  <1> HIDE DEF S, s, t, u
  <1>2. /\ Len(u) = Len(s) + Len(t)
        /\ \A i \in 1 .. Len(s) : u[i] = s[i]
        /\ \A i \in 1 .. Len(t) : u[Len(s) + i] = t[i]
    BY <1>1
  <1>3. s \o t = u
    BY <1>1, <1>2, Joined
  <1>4. QED
    BY <1>3 DEF s, t, u

LEMMA TwoAndTwo ==
  ASSUME NEW a, NEW b, NEW c, NEW d
  PROVE  <<a, b>> \o <<c, d>> = <<a, b, c, d>>
  <1> DEFINE S == {a, b, c, d}
             s == <<a, b>>
             t == <<c, d>>
             u == <<a, b, c, d>>
  <1>1. /\ s \in Seq(S) /\ t \in Seq(S) /\ u \in Seq(S)
        /\ Len(s) = 2 /\ Len(t) = 2 /\ Len(u) = 4
        /\ u[1] = s[1] /\ u[2] = s[2] /\ u[3] = t[1] /\ u[4] = t[2]
    OBVIOUS
  <1> HIDE DEF S, s, t, u
  <1>2. /\ Len(u) = Len(s) + Len(t)
        /\ \A i \in 1 .. Len(s) : u[i] = s[i]
        /\ \A i \in 1 .. Len(t) : u[Len(s) + i] = t[i]
    BY <1>1
  <1>3. s \o t = u
    BY <1>1, <1>2, Joined
  <1>4. QED
    BY <1>3 DEF s, t, u

LEMMA ThreeAndOne ==
  ASSUME NEW a, NEW b, NEW c, NEW d
  PROVE  <<a, b, c>> \o <<d>> = <<a, b, c, d>>
  <1> DEFINE S == {a, b, c, d}
             s == <<a, b, c>>
             t == <<d>>
             u == <<a, b, c, d>>
  <1>1. /\ s \in Seq(S) /\ t \in Seq(S) /\ u \in Seq(S)
        /\ Len(s) = 3 /\ Len(t) = 1 /\ Len(u) = 4
        /\ u[1] = s[1] /\ u[2] = s[2] /\ u[3] = s[3] /\ u[4] = t[1]
    OBVIOUS
  <1> HIDE DEF S, s, t, u
  <1>2. /\ Len(u) = Len(s) + Len(t)
        /\ \A i \in 1 .. Len(s) : u[i] = s[i]
        /\ \A i \in 1 .. Len(t) : u[Len(s) + i] = t[i]
    BY <1>1
  <1>3. s \o t = u
    BY <1>1, <1>2, Joined
  <1>4. QED
    BY <1>3 DEF s, t, u

\* The lists of steps that the code's calls make.
LEMMA Recounts ==
  /\ Recount \o <<"revision">> = <<"count", "write", "revision">>
  /\ Recount \o <<"orphans">> = <<"count", "write", "orphans">>
  /\ Recount \o <<"decide", "reports">> = <<"count", "write", "decide", "reports">>
  /\ Recount \o <<"supersede", "done">> = <<"count", "write", "supersede", "done">>
  /\ <<"hidden">> \o Recount = <<"hidden", "count", "write">>
  /\ <<"create">> \o Recount \o <<"candidate">> = <<"create", "count", "write", "candidate">>
  /\ <<"expire">> \o Recount = <<"expire", "count", "write">>
  /\ <<"expire">> \o <<>> = <<"expire">>
  <1>1. Recount \o <<"revision">> = <<"count", "write", "revision">>
    BY TwoAndOne, Zenon DEF Recount
  <1>2. Recount \o <<"orphans">> = <<"count", "write", "orphans">>
    BY TwoAndOne, Zenon DEF Recount
  <1>3. Recount \o <<"decide", "reports">> = <<"count", "write", "decide", "reports">>
    BY TwoAndTwo, Zenon DEF Recount
  <1>4. Recount \o <<"supersede", "done">> = <<"count", "write", "supersede", "done">>
    BY TwoAndTwo, Zenon DEF Recount
  <1>5. <<"hidden">> \o Recount = <<"hidden", "count", "write">>
    BY OneAndTwo, Zenon DEF Recount
  <1>6. <<"create">> \o Recount = <<"create", "count", "write">>
    BY OneAndTwo, Zenon DEF Recount
  <1>7. <<"create", "count", "write">> \o <<"candidate">>
          = <<"create", "count", "write", "candidate">>
    BY ThreeAndOne, Zenon
  <1>8. <<"expire">> \o Recount = <<"expire", "count", "write">>
    BY OneAndTwo, Zenon DEF Recount
  <1>9. <<"expire">> \o <<>> = <<"expire">>
    OBVIOUS
  <1>10. QED
    BY <1>1, <1>2, <1>3, <1>4, <1>5, <1>6, <1>7, <1>8, <1>9

\* The same, when the offer is written first.
LEMMA Writes ==
  /\ OfferThen(<<>>) = <<"offer">>
  /\ OfferThen(Recount) = <<"offer", "count", "write">>
  /\ OfferThen(Recount \o <<"revision">>) = <<"offer", "count", "write", "revision">>
  /\ OfferThen(Recount \o <<"orphans">>) = <<"offer", "count", "write", "orphans">>
  /\ OfferThen(Recount \o <<"decide", "reports">>)
        = <<"offer", "count", "write", "decide", "reports">>
  /\ OfferThen(Recount \o <<"supersede", "done">>)
        = <<"offer", "count", "write", "supersede", "done">>
  /\ OfferThen(<<"hidden">> \o Recount) = <<"offer", "hidden", "count", "write">>
  /\ <<"supersede">> \o OfferThen(Recount) = <<"supersede", "offer", "count", "write">>
  /\ <<"revision">> \o OfferThen(Recount) = <<"revision", "offer", "count", "write">>
  /\ <<"supersede">> \o <<"offer">> = <<"supersede", "offer">>
  <1>1. OfferThen(<<>>) = <<"offer">>
    BY DEF OfferThen
  <1>2. OfferThen(Recount) = <<"offer", "count", "write">>
    BY OneAndTwo, Zenon DEF OfferThen, Recount
  <1>3. OfferThen(<<"count", "write", "revision">>) = <<"offer", "count", "write", "revision">>
    BY OneAndThree, Zenon DEF OfferThen
  <1>4. OfferThen(<<"count", "write", "orphans">>) = <<"offer", "count", "write", "orphans">>
    BY OneAndThree, Zenon DEF OfferThen
  <1>5. OfferThen(<<"count", "write", "decide", "reports">>)
          = <<"offer", "count", "write", "decide", "reports">>
    BY OneAndFour, Zenon DEF OfferThen
  <1>6. OfferThen(<<"count", "write", "supersede", "done">>)
          = <<"offer", "count", "write", "supersede", "done">>
    BY OneAndFour, Zenon DEF OfferThen
  <1>7. OfferThen(<<"hidden", "count", "write">>) = <<"offer", "hidden", "count", "write">>
    BY OneAndThree, Zenon DEF OfferThen
  <1>8. <<"supersede">> \o <<"offer", "count", "write">>
          = <<"supersede", "offer", "count", "write">>
    BY OneAndThree, Zenon
  <1>9. <<"revision">> \o <<"offer", "count", "write">> = <<"revision", "offer", "count", "write">>
    BY OneAndThree, Zenon
  <1>10. <<"supersede">> \o <<"offer">> = <<"supersede", "offer">>
    BY OneAndOne, Zenon
  <1>11. QED
    BY Recounts, <1>1, <1>2, <1>3, <1>4, <1>5, <1>6, <1>7, <1>8, <1>9, <1>10

-----------------------------------------------------------------------------
(* Requests that begin.                                                     *)

\* It has one of the lists left; what it writes agrees with the list.
Planned(r) ==
    /\ r.todo \in Todos /\ r.else \in Elses
    /\ r.todo \in Keeping => "status" \notin r.fields
    /\ r.todo \in Creating => r.new.status \in {"active", "pending"}

Plan == \A p \in Callers : Planned(request[p])

\* The lists of those who may hide the offer, who check it, who decide a case of it
\* and who report it.
Hiding   == {<<"distinct">>, <<"offer", "hidden", "count", "write">>,
             <<"hidden", "count", "write">>}
Looking  == {<<"propose", "check">>, <<"check">>}
ToDecide == {<<"offer", "count", "write", "decide", "reports">>,
             <<"count", "write", "decide", "reports">>, <<"write", "decide", "reports">>,
             <<"decide", "reports">>, <<"decide">>}
Reporting == {<<"report", "case">>, <<"case">>}

\* It writes that the reports hide the offer, or what a case remembers.
Hides(r) == /\ r.todo \in Changing \cup Keeping
            /\ "status" \in r.fields /\ r.new.status = "hidden_by_reports"

\* It closes case c when it is done.
Decides(r, c) == r.id = c /\ r.to \in {"upheld", "rejected"} /\ r.todo \in ToDecide

\* A decision that will take the offer out of hiding.
Lifts(r) ==
    /\ r.todo = <<"offer", "count", "write", "decide", "reports">>
    /\ "status" \in r.fields /\ r.new.status # "hidden_by_reports"

\* It hid the offer and can give it back.
Remembers(c) == case[c].autoHidden /\ case[c].before \in Public

\* Read from a case that remembers, a decision brings the hidden offer back.
Decision(r) ==
    \A c \in Cases : Decides(r, c) =>
        /\ c \in OpenCases
        /\ r.to = "upheld" /\ Remembers(c) => r.before \in Public
        /\ offer.status = "hidden_by_reports" /\ Remembers(c) => Lifts(r)

\* What a request is when it begins.
Fresh(r) ==
    /\ Planned(r)
    /\ r.todo \notin Writing \cup Hiding
    /\ r.to \in Outcomes => r.todo \in Looking
    /\ r.actor = "reports" => r.id = 0 /\ r.to \notin Deciding
    /\ r.todo \in Reporting => r.actor = "reports"
    /\ Hides(r) => \E c \in Cases : case[c].autoHidden /\ ~Remembers(c)
    /\ Decision(r)

FreshBegins(p) == \E r : Begin(p, r) /\ Fresh(r)

\* What a request of Save is.
LEMMA SaveTerms ==
  ASSUME NEW actor, NEW new, NEW then, NEW s, s = Save(actor, new, then)
  PROVE  /\ s.actor = actor /\ s.todo = OfferThen(then) /\ s.else = <<>> /\ s.new = new
         /\ "status" \in s.fields <=> new.status # offer.status
         /\ s.status = Stored /\ s.manager = Managers
         /\ s.to = Idle.to /\ s.id = 0
  BY DEF Save, Idle, OfferThen, Fields

\* Nothing decided, nothing found.
LEMMA IdleDecides == Idle.to \notin Outcomes \cup Deciding
  BY DEF Idle, Outcomes, Deciding

\* Of what kind the lists are that the calls leave.
LEMMA KnownTodos ==
  /\ {<<"offer", "count", "write">>, <<"offer", "count", "write", "revision">>,
      <<"revision", "offer", "count", "write">>,
      <<"supersede", "offer", "count", "write">>} \subseteq Changing \ (Hiding \cup ToDecide)
  /\ {<<"count", "write">>} \subseteq Counting \ (Hiding \cup ToDecide)
  /\ <<"offer">> \in Keeping \ (Hiding \cup ToDecide)
  /\ {<<"revision">>, <<"candidate">>, <<"orphans">>, <<"supersede", "done">>,
      <<"propose", "check">>, <<"check">>, <<"appeal">>, <<"find">>, <<"store">>}
        \subseteq Short \ (Hiding \cup ToDecide \cup Reporting)
  /\ <<"decide">> \in Short \ (Hiding \cup Reporting)
  /\ <<"report", "case">> \in Short \ (Hiding \cup ToDecide)
  /\ Reporting \subseteq Short
  /\ <<"create", "count", "write", "candidate">> \in Creating \ (Hiding \cup ToDecide)
  /\ Expiring \cap (Hiding \cup ToDecide) = {}
  BY DEF Changing, Counting, Keeping, Short, Creating, Expiring, Hiding, ToDecide, Reporting

\* A request that decides no case.
LEMMA OthersFresh ==
  ASSUME NEW r,
         r.todo \in Todos \ (Writing \cup Hiding), r.else \in Elses,
         r.todo \in ToDecide => r.to \notin {"upheld", "rejected"},
         r.todo \in Reporting => r.actor = "reports",
         r.todo \in Creating => r.new.status \in {"active", "pending"},
         r.todo \in Changing \cup Keeping =>
             \/ "status" \notin r.fields
             \/ r.todo \in Changing /\ r.new.status # "hidden_by_reports",
         r.to \in Outcomes => r.todo \in Looking,
         r.actor = "reports" => r.id = 0 /\ r.to \notin Deciding
  PROVE  Fresh(r)
  BY Disjoint DEF Fresh, Planned, Hides, Decision, Decides

\* One that changes the status, but not to hide the offer.
LEMMA ChangingFresh ==
  ASSUME NEW r, r.todo \in Changing \ (Hiding \cup ToDecide), r.else \in Elses,
         "status" \notin r.fields \/ r.new.status # "hidden_by_reports",
         r.to \notin Outcomes, r.actor # "reports"
  PROVE  Fresh(r)
  <1>1. /\ r.todo \in Todos \ (Writing \cup Hiding \cup ToDecide)
        /\ r.todo \notin Creating \cup Reporting
    BY Disjoint, KnownTodos DEF Todos
  <1>2. QED
    BY <1>1, OthersFresh

\* One that writes the offer and keeps its status.
LEMMA KeepingFresh ==
  ASSUME NEW r, r.todo \in Keeping \ (Hiding \cup ToDecide), r.else \in Elses,
         "status" \notin r.fields, r.to \notin Outcomes, r.actor # "reports"
  PROVE  Fresh(r)
  <1>1. /\ r.todo \in Todos \ (Writing \cup Hiding \cup ToDecide)
        /\ r.todo \notin Creating \cup Reporting
    BY Disjoint, KnownTodos DEF Todos
  <1>2. QED
    BY <1>1, OthersFresh

\* One that does not write the offer.
LEMMA QuietFresh ==
  ASSUME NEW r, r.todo \in (Short \cup Counting) \ Hiding, r.else \in Elses,
         r.todo \in ToDecide => r.to \notin {"upheld", "rejected"},
         r.todo \in Reporting => r.actor = "reports",
         r.to \in Outcomes => r.todo \in Looking,
         r.actor = "reports" => r.id = 0 /\ r.to \notin Deciding
  PROVE  Fresh(r)
  <1>1. /\ r.todo \in Todos \ (Writing \cup Hiding)
        /\ r.todo \notin Creating \cup Changing \cup Keeping
    BY Disjoint DEF Todos
  <1>2. QED
    BY <1>1, OthersFresh

\* A person saves the offer and recounts.
LEMMA SavesFresh ==
  ASSUME NEW p, NEW actor \in People, NEW new,
         new.status # "hidden_by_reports" \/ new.status = offer.status,
         Begin(p, Save(actor, new, Recount))
  PROVE  FreshBegins(p)
  <1> DEFINE s == Save(actor, new, Recount)
  <1>0. s = Save(actor, new, Recount) /\ Begin(p, s)
    OBVIOUS
  <1> HIDE DEF s
  <1>1. /\ s.actor = actor /\ s.todo = OfferThen(Recount) /\ s.else = <<>>
        /\ ("status" \in s.fields <=> new.status # offer.status) /\ s.to = Idle.to /\ s.new = new
    BY <1>0, SaveTerms
  <1>2. s.todo \in Changing \ (Hiding \cup ToDecide) /\ s.else \in Elses
    BY <1>1, Writes, KnownTodos DEF Elses
  <1>3. "status" \notin s.fields \/ s.new.status # "hidden_by_reports"
    BY <1>1
  <1>4. s.to \notin Outcomes /\ s.actor # "reports"
    BY <1>1, IdleDecides DEF People
  <1>5. Fresh(s)
    BY <1>2, <1>3, <1>4, ChangingFresh
  <1>6. QED
    BY <1>0, <1>5 DEF FreshBegins

\* What the business and its customers begin.
LEMMA OwnersFresh ==
  ASSUME IInv, NEW p \in Callers,
         OwnerSubmit(p) \/ OwnerPause(p) \/ OwnerResume(p) \/ OwnerUpdate(p) \/ OwnerRemove(p)
         \/ OwnerConfirm(p) \/ RedeemLast(p)
  PROVE  FreshBegins(p)
  <1>1. offer \in Offer /\ {"owner", "reader"} \subseteq People
    BY DEF IInv, Documents, People
  <1>2. ASSUME NEW new \in Offer, new.status # "hidden_by_reports" \/ new.status = offer.status,
               OwnerSaves(p, new)
        PROVE  FreshBegins(p)
    BY <1>1, <1>2, TakenType, SavesFresh DEF OwnerSaves
  <1>3. \A o \in Offer : LiveStatus(o) # "hidden_by_reports"
                         /\ "hidden_by_reports" \notin Decided(o)
    BY DEF LiveStatus, Decided
  <1>4. CASE OwnerSubmit(p)
    <2>1. PICK status \in Decided(offer) : Begin(p, Save("owner", To(status), Recount))
      BY <1>4 DEF OwnerSubmit
    <2>2. To(status).status # "hidden_by_reports"
      BY <1>1, <1>3, <2>1, Live, ToStatus
    <2>3. QED
      BY <1>1, <2>1, <2>2, SavesFresh
  <1>5. ASSUME NEW status \in Statuses, status # "hidden_by_reports"
        PROVE  To(status) \in Offer /\ To(status).status # "hidden_by_reports"
    BY <1>5, ToStatus
  <1>6. {"paused", "removed", "expired", "none"} \subseteq Statuses
    BY DEF Statuses, Stored, Ending, Closed
  <1>7. CASE OwnerPause(p)
    BY <1>2, <1>5, <1>6, <1>7 DEF OwnerPause
  <1>8. CASE OwnerResume(p)
    BY <1>1, <1>2, <1>3, <1>5, <1>8, Live DEF OwnerResume
  <1>9. CASE OwnerRemove(p)
    BY <1>1, <1>2, <1>5, <1>6, <1>9, SavesFresh DEF OwnerRemove
  <1>10. CASE RedeemLast(p)
    BY <1>1, <1>5, <1>6, <1>10, SavesFresh DEF RedeemLast
  <1>11. CASE OwnerUpdate(p)
    <2>1. PICK submit \in BOOLEAN, future \in BOOLEAN :
            LET edited == [offer EXCEPT !.ended = FALSE, !.future = future]
                again  == submit \/ offer.status \in Public \cup {"scheduled", "pending"}
            IN  \E status \in IF again THEN Decided(edited)
                              ELSE {IF offer.status = "rejected" THEN "draft" ELSE offer.status} :
                    OwnerSaves(p, [edited EXCEPT !.status = status])
      BY <1>11 DEF OwnerUpdate
    <2> DEFINE edited == [offer EXCEPT !.ended = FALSE, !.future = future]
    <2>2. edited \in Offer
      BY <1>1, OfferTerms
    <2>3. PICK status \in Decided(edited) \cup {"draft", offer.status} :
            OwnerSaves(p, [edited EXCEPT !.status = status])
      BY <2>1
    <2> HIDE DEF edited
    <2>4. status \in Statuses /\ (status # "hidden_by_reports" \/ status = offer.status)
      <3>1. "draft" \in Statuses /\ offer.status \in Statuses
        BY <1>1 DEF Offer, Statuses, Stored
      <3>2. QED
        BY <1>3, <2>2, <2>3, <3>1, Live
    <2>5. QED
      BY <1>2, <2>2, <2>3, <2>4, OfferStatus
  <1>12. CASE OwnerConfirm(p)
    <2> DEFINE s == Save("owner", Taken(offer), <<>>)
    <2>4. Begin(p, s) /\ s = Save("owner", Taken(offer), <<>>)
      BY <1>12 DEF OwnerConfirm
    <2> HIDE DEF s
    <2>1. /\ s.actor = "owner" /\ s.todo = OfferThen(<<>>) /\ s.else = <<>> /\ s.to = Idle.to
          /\ "status" \in s.fields <=> Taken(offer).status # offer.status
      BY <2>4, SaveTerms
    <2>2. s.todo = <<"offer">>
      BY <2>1, Writes
    <2>3. "status" \notin s.fields
      BY <1>1, <2>1, TakenType
    <2>5. s.todo \in Keeping \ (Hiding \cup ToDecide) /\ s.else \in Elses
      BY <2>1, <2>2, KnownTodos DEF Elses
    <2>6. Fresh(s)
      BY <2>1, <2>3, <2>5, IdleDecides, KeepingFresh
    <2>7. QED
      BY <2>4, <2>6 DEF FreshBegins
  <1>13. QED
    BY <1>4, <1>7, <1>8, <1>9, <1>10, <1>11, <1>12

\* What admins begin on the offer.
LEMMA AdminsFresh ==
  ASSUME IInv, NEW p \in Callers,
         AdminApprove(p) \/ AdminReject(p) \/ AdminPause(p) \/ SetExpiry(p)
         \/ RestoreReviewed(p)
  PROVE  FreshBegins(p)
  <1>1. offer \in Offer /\ "admin" \in People
        /\ {"paused", "rejected", "expired", "active", "revision_pending"} \subseteq Statuses
    BY DEF IInv, Documents, People, Statuses, Stored, Ending, Closed, Public
  <1>2. CASE AdminApprove(p)
    <2>1. PICK edited \in {offer} \cup {[offer EXCEPT !.ended = FALSE, !.future = f] :
                                            f \in BOOLEAN} :
            Begin(p, Save("admin", [edited EXCEPT !.status = LiveStatus(edited)], Recount))
      BY <1>2 DEF AdminApprove
    <2>2. edited \in Offer
      BY <1>1, <2>1, OfferTerms
    <2>3. [edited EXCEPT !.status = LiveStatus(edited)].status # "hidden_by_reports"
      BY <2>2 DEF LiveStatus, Offer
    <2>4. QED
      BY <1>1, <2>1, <2>3, SavesFresh
  <1>3. CASE AdminReject(p)
    BY <1>1, <1>3, ToStatus, SavesFresh DEF AdminReject
  <1>4. CASE AdminPause(p)
    BY <1>1, <1>4, ToStatus, SavesFresh DEF AdminPause
  <1>5. CASE SetExpiry(p)
    <2> DEFINE new(past) ==
          [offer EXCEPT !.ended = past,
                        !.status = IF past /\ @ \in {"active", "scheduled", "paused"}
                                   THEN "expired" ELSE @]
    <2>1. PICK past \in BOOLEAN : Begin(p, Save("admin", new(past), Recount))
      BY <1>5 DEF SetExpiry
    <2>2. new(past).status \in {"expired", offer.status}
      BY <1>1 DEF Offer
    <2> HIDE DEF new
    <2>3. QED
      BY <1>1, <2>1, <2>2, SavesFresh
  <1>6. CASE RestoreReviewed(p)
    <2> DEFINE new(status) == [offer EXCEPT !.status = status, !.absent = 0]
    <2>1. PICK status \in {"active", "revision_pending"} :
            Begin(p, Save("admin", new(status), Recount))
      BY <1>6 DEF RestoreReviewed
    <2>2. new(status).status = status
      BY <1>1 DEF Offer
    <2> HIDE DEF new
    <2>3. QED
      BY <1>1, <2>1, <2>2, SavesFresh
  <1>7. QED
    BY <1>2, <1>3, <1>4, <1>5, <1>6

\* What they begin on revisions and offers to review.
LEMMA ReviewersFresh ==
  ASSUME IInv, NEW p \in Callers,
         ExpireReviewed(p) \/ ApplyRevision(p) \/ DiscardRevision(p)
  PROVE  FreshBegins(p)
  <1>1. offer \in Offer /\ {"expired", "active"} \subseteq Statuses
    BY DEF IInv, Documents, Statuses, Stored, Closed, Ending, Public
  <1>2. CASE ExpireReviewed(p)
    <2> DEFINE s == Save("admin", To("expired"), Recount)
               r == [s EXCEPT !.todo = <<"supersede">> \o @]
    <2>1. s = Save("admin", To("expired"), Recount) /\ Begin(p, r)
      BY <1>2 DEF ExpireReviewed
    <2>2. /\ r.actor = s.actor /\ r.todo = <<"supersede">> \o s.todo /\ r.else = s.else
          /\ r.fields = s.fields /\ r.new = s.new /\ r.to = s.to
      BY DEF Save, Idle
    <2> HIDE DEF s, r
    <2>3. s.actor = "admin" /\ s.todo = OfferThen(Recount) /\ s.else = <<>>
          /\ s.to = Idle.to /\ s.new = To("expired")
      BY <2>1, SaveTerms
    <2>5. r.todo = <<"supersede", "offer", "count", "write">>
      BY <2>2, <2>3, Writes
    <2>6. r.new.status # "hidden_by_reports"
      BY <1>1, <2>2, <2>3, ToStatus
    <2>7. r.todo \in Changing \ (Hiding \cup ToDecide) /\ r.else \in Elses
      BY <2>2, <2>3, <2>5, KnownTodos DEF Elses
    <2>8. Fresh(r)
      BY <2>2, <2>3, <2>6, <2>7, IdleDecides, ChangingFresh
    <2>9. QED
      BY <2>1, <2>8 DEF FreshBegins
  <1>3. CASE ApplyRevision(p)
    <2> DEFINE new == [offer EXCEPT !.status = "active", !.absent = 0, !.ended = FALSE]
               s == Save("admin", new, Recount \o <<"revision">>)
    <2>1. new.status = "active"
      BY <1>1 DEF Offer
    <2>2. PICK id \in Pending : Begin(p, [s EXCEPT !.id = id, !.to = "applied"])
      BY <1>3 DEF ApplyRevision
    <2> DEFINE r == [s EXCEPT !.id = id, !.to = "applied"]
    <2>3. s = Save("admin", new, Recount \o <<"revision">>) /\ Begin(p, r)
      BY <2>2
    <2>4. /\ r.actor = s.actor /\ r.todo = s.todo /\ r.else = s.else
          /\ r.fields = s.fields /\ r.new = s.new /\ r.to = "applied"
      BY DEF Save, Idle
    <2> HIDE DEF s, r, new
    <2>5. s.actor = "admin" /\ s.todo = OfferThen(Recount \o <<"revision">>) /\ s.else = <<>>
          /\ s.new = new
      BY <2>3, SaveTerms
    <2>6. r.todo = <<"offer", "count", "write", "revision">>
      BY <2>4, <2>5, Writes
    <2>7. r.todo \in Changing \ (Hiding \cup ToDecide) /\ r.else \in Elses
      BY <2>4, <2>5, <2>6, KnownTodos DEF Elses
    <2>8. Fresh(r)
      BY <2>1, <2>4, <2>5, <2>7, ChangingFresh DEF Outcomes
    <2>9. QED
      BY <2>3, <2>8 DEF FreshBegins
  <1>4. CASE DiscardRevision(p)
    <2> DEFINE to == IF offer.status = "revision_pending" THEN "active" ELSE offer.status
               s == Save("admin", To(to), Recount)
               r(id) == [s EXCEPT !.id = id, !.to = "discarded",
                                  !.todo = IF offer.status = "revision_pending"
                                           THEN <<"revision">> \o @ ELSE <<"revision">>]
    <2>1. PICK id \in Pending : Begin(p, r(id))
      BY <1>4 DEF DiscardRevision
    <2>2. s = Save("admin", To(to), Recount)
      OBVIOUS
    <2>3. /\ r(id).actor = s.actor /\ r(id).else = s.else /\ r(id).new = s.new
          /\ r(id).todo = IF offer.status = "revision_pending"
                          THEN <<"revision">> \o s.todo ELSE <<"revision">>
          /\ r(id).to = "discarded"
      BY DEF Save, Idle
    <2>4. To(to).status = to
      BY <1>1, ToStatus DEF Offer
    <2>5. offer.status = "revision_pending" => to = "active"
      OBVIOUS
    <2> HIDE DEF s, r, to
    <2>6. s.actor = "admin" /\ s.todo = OfferThen(Recount) /\ s.else = <<>> /\ s.new = To(to)
      BY <2>2, SaveTerms
    <2>8. r(id).else \in Elses
      BY <2>3, <2>6 DEF Elses
    <2>9. CASE offer.status = "revision_pending"
      <3>1. r(id).todo = <<"revision", "offer", "count", "write">>
        BY <2>3, <2>6, <2>9, Writes
      <3>2. r(id).todo \in Changing \ (Hiding \cup ToDecide)
        BY <3>1, KnownTodos
      <3>3. Fresh(r(id))
        BY <2>3, <2>4, <2>5, <2>6, <2>8, <2>9, <3>2, ChangingFresh DEF Outcomes
      <3>4. QED
        BY <2>1, <3>3 DEF FreshBegins
    <2>10. CASE offer.status # "revision_pending"
      <3>1. r(id).todo = <<"revision">>
        BY <2>3, <2>10
      <3>2. r(id).todo \in Short \ (Hiding \cup ToDecide \cup Reporting)
        BY <3>1, KnownTodos
      <3>3. Fresh(r(id))
        BY <2>3, <2>6, <2>8, <3>2, QuietFresh DEF Outcomes
      <3>4. QED
        BY <2>1, <3>3 DEF FreshBegins
    <2>11. QED
      BY <2>9, <2>10
  <1>5. QED
    BY <1>2, <1>3, <1>4

\* What begins without a write of the offer.
LEMMA QuietRequests ==
  ASSUME IInv, NEW p \in Callers,
         RefreshCounts(p) \/ ApproveCandidate(p) \/ RejectCandidate(p) \/ Check(p)
         \/ Deduplicate(p) \/ Report(p) \/ AskBusiness(p) \/ DecideAppeal(p)
  PROVE  FreshBegins(p)
  <1>1. Idle.else \in Elses /\ Idle.id = 0
    BY DEF Idle, Elses
  <1>2. CASE RefreshCounts(p)
    <2> DEFINE r == [Idle EXCEPT !.actor = "job", !.todo = Recount]
    <2>1. Begin(p, r)
      BY <1>2 DEF RefreshCounts
    <2>2. r.actor = "job" /\ r.todo = <<"count", "write">> /\ r.else = Idle.else /\ r.to = Idle.to
      BY DEF Idle, Recount
    <2> HIDE DEF r
    <2>3. r.todo \in Counting \ (Hiding \cup ToDecide)
      BY <2>2, KnownTodos
    <2>4. r.todo \notin Reporting
      BY <2>3, Disjoint, KnownTodos
    <2>5. Fresh(r)
      BY <1>1, <2>2, <2>3, <2>4, IdleDecides, QuietFresh
    <2>6. QED
      BY <2>1, <2>5 DEF FreshBegins
  <1>3. CASE ApproveCandidate(p)
    <2> DEFINE r(new) ==
          [Idle EXCEPT
            !.actor = IF new.managedBy = "scraper" THEN "admin" ELSE "owner",
            !.todo = IF offer.status = "none" THEN <<"create">> \o Recount \o <<"candidate">>
                     ELSE <<"candidate">>,
            !.new = new, !.to = "approved"]
    <2>1. PICK new \in {To("active"), Taken(To("active")), Taken(To("pending"))} :
            Begin(p, r(new))
      BY <1>3 DEF ApproveCandidate
    <2>2. new.status \in {"active", "pending"}
      <3>1. {"active", "pending"} \subseteq Statuses
        BY DEF Statuses, Stored, Ending, Public
      <3>2. \A status \in {"active", "pending"} : To(status) \in Offer /\ To(status).status = status
        BY <3>1, ToStatus
      <3>3. QED
        BY <3>2, TakenType
    <2>3. /\ r(new).actor \in {"admin", "owner"} /\ r(new).else = Idle.else
          /\ r(new).new = new /\ r(new).to = "approved"
          /\ r(new).todo \in {<<"create">> \o Recount \o <<"candidate">>, <<"candidate">>}
      BY DEF Idle
    <2> HIDE DEF r
    <2>4. r(new).todo \in {<<"create", "count", "write", "candidate">>, <<"candidate">>}
      BY <2>3, Recounts
    <2>5. CASE r(new).todo = <<"candidate">>
      BY <1>1, <2>1, <2>3, <2>5, KnownTodos, QuietFresh DEF FreshBegins, Outcomes
    <2>6. CASE r(new).todo = <<"create", "count", "write", "candidate">>
      <3>1. r(new).todo \in Creating \ (Hiding \cup ToDecide)
        BY <2>6, KnownTodos
      <3>2. /\ r(new).todo \in Todos \ (Writing \cup Hiding \cup ToDecide)
            /\ r(new).todo \notin Changing \cup Keeping \cup Reporting
        BY <3>1, Disjoint, KnownTodos DEF Todos
      <3>3. Fresh(r(new))
        BY <1>1, <2>2, <2>3, <3>2, OthersFresh DEF Outcomes
      <3>4. QED
        BY <2>1, <3>3 DEF FreshBegins
    <2>7. QED
      BY <2>4, <2>5, <2>6
  <1>4. CASE RejectCandidate(p)
    <2> DEFINE r == [Idle EXCEPT !.actor = "admin", !.todo = <<"candidate">>,
                                 !.to = "rejected"]
    <2>1. Begin(p, r)
      BY <1>4 DEF RejectCandidate
    <2>2. r.actor = "admin" /\ r.todo = <<"candidate">> /\ r.else = Idle.else
          /\ r.to = "rejected"
      BY DEF Idle
    <2> HIDE DEF r
    <2>3. QED
      BY <1>1, <2>1, <2>2, KnownTodos, QuietFresh DEF FreshBegins, Outcomes
  <1>5. CASE Check(p)
    <2> DEFINE r(outcome) ==
          [Idle EXCEPT !.actor = "check", !.to = outcome,
                       !.todo = IF outcome = "changed" THEN <<"propose", "check">>
                                ELSE <<"check">>]
    <2>1. PICK outcome \in Outcomes : Begin(p, r(outcome))
      BY <1>5 DEF Check
    <2>2. r(outcome).actor = "check" /\ r(outcome).todo \in Looking
          /\ r(outcome).else = Idle.else
      BY DEF Idle, Looking
    <2> HIDE DEF r
    <2>3. r(outcome).todo \in Short \ (Hiding \cup ToDecide \cup Reporting)
      BY <2>2, KnownTodos DEF Looking
    <2>4. QED
      BY <1>1, <2>1, <2>2, <2>3, QuietFresh DEF FreshBegins
  <1>6. CASE Report(p)
    <2> DEFINE r == [Idle EXCEPT !.actor = "reports", !.before = offer.status,
                                 !.todo = <<"report", "case">>]
    <2>1. Begin(p, r)
      BY <1>6 DEF Report
    <2>2. /\ r.actor = "reports" /\ r.todo = <<"report", "case">> /\ r.else = Idle.else
          /\ r.id = 0 /\ r.to = Idle.to
      BY DEF Idle
    <2> HIDE DEF r
    <2>3. QED
      BY <1>1, <2>1, <2>2, KnownTodos, IdleDecides, QuietFresh DEF FreshBegins
  <1>7. CASE AskBusiness(p)
    <2> DEFINE r(c) == [Idle EXCEPT !.actor = "admin", !.id = c, !.to = "info_requested",
                                    !.before = case[c].before, !.todo = <<"decide">>]
    <2>1. PICK c \in OpenCases : Begin(p, r(c))
      BY <1>7 DEF AskBusiness
    <2>2. r(c).actor = "admin" /\ r(c).todo = <<"decide">> /\ r(c).else = Idle.else
          /\ r(c).to = "info_requested"
      BY DEF Idle
    <2> HIDE DEF r
    <2>3. QED
      BY <1>1, <2>1, <2>2, KnownTodos, QuietFresh DEF FreshBegins, Outcomes
  <1>8. CASE DecideAppeal(p)
    <2> DEFINE r(c, to) == [Idle EXCEPT !.actor = "admin", !.id = c, !.to = to,
                                        !.todo = <<"appeal">>]
    <2>1. PICK c \in Cases, to \in {"accepted", "declined"} : Begin(p, r(c, to))
      BY <1>8 DEF DecideAppeal
    <2>2. r(c, to).actor = "admin" /\ r(c, to).todo = <<"appeal">>
          /\ r(c, to).else = Idle.else /\ r(c, to).to = to
      BY DEF Idle
    <2> HIDE DEF r
    <2>3. QED
      BY <1>1, <2>1, <2>2, KnownTodos, QuietFresh DEF FreshBegins, Outcomes
  <1>9. CASE Deduplicate(p)
    <2> DEFINE r == [Idle EXCEPT !.actor = "check", !.todo = <<"find">>]
    <2>1. Begin(p, r)
      BY <1>9 DEF Deduplicate
    <2>2. r.actor = "check" /\ r.todo = <<"find">> /\ r.else = Idle.else /\ r.to = Idle.to
      BY DEF Idle
    <2> HIDE DEF r
    <2>3. QED
      BY <1>1, <2>1, <2>2, KnownTodos, IdleDecides, QuietFresh DEF FreshBegins
  <1>10. QED
    BY <1>2, <1>3, <1>4, <1>5, <1>6, <1>7, <1>8, <1>9

\* What the jobs and the opt-out begin.
LEMMA JobsFresh ==
  ASSUME IInv, NEW p \in Callers,
         PublishScheduled(p) \/ FindEnded(p) \/ ReviewStale(p) \/ OptOut(p)
  PROVE  FreshBegins(p)
  <1>1. /\ {"active", "expired", "removed"} \subseteq Statuses
        /\ <<>> \in Elses /\ <<"orphans">> \in Elses
        /\ <<"count", "write", "supersede", "done">> \in Elses
    BY DEF Statuses, Stored, Ending, Closed, Public, Elses
  <1>2. ASSUME NEW actor \in {"job", "optOut"}, NEW status \in {"active", "expired", "removed"},
               NEW from, NEW manager, NEW then, NEW else \in Elses,
               OfferThen(then) \in Changing \ (Hiding \cup ToDecide),
               Begin(p, Update(actor, To(status), from, manager, then, else))
        PROVE  FreshBegins(p)
    <2> DEFINE r == Update(actor, To(status), from, manager, then, else)
    <2>1. r.to = Idle.to
      BY DEF Update, Idle
    <2>2. r = Update(actor, To(status), from, manager, then, else) /\ Begin(p, r)
      BY <1>2
    <2> HIDE DEF r
    <2>3. r.actor = actor /\ r.todo = OfferThen(then) /\ r.else = else /\ r.new = To(status)
      BY <2>2, UpdateTerms
    <2>4. To(status).status = status
      BY <1>1, ToStatus
    <2>5. Fresh(r)
      BY <1>2, <2>1, <2>3, <2>4, IdleDecides, ChangingFresh
    <2>6. QED
      BY <2>2, <2>5 DEF FreshBegins
  <1>3. ASSUME NEW actor \in {"job", "optOut"}, NEW todo \in {<<"orphans">>, <<"supersede", "done">>},
               Begin(p, [Idle EXCEPT !.actor = actor, !.todo = todo])
        PROVE  FreshBegins(p)
    <2> DEFINE r == [Idle EXCEPT !.actor = actor, !.todo = todo]
    <2>1. r.actor = actor /\ r.todo = todo /\ r.else = <<>> /\ r.to = Idle.to
      BY DEF Idle
    <2> HIDE DEF r
    <2>2. r.todo \in Short \ (Hiding \cup ToDecide \cup Reporting)
      BY <2>1, KnownTodos
    <2>3. Fresh(r)
      BY <1>1, <2>1, <2>2, IdleDecides, QuietFresh
    <2>4. QED
      BY <1>3, <2>3 DEF FreshBegins, r
  <1>4. CASE PublishScheduled(p)
    <2>2. OfferThen(Recount) \in Changing \ (Hiding \cup ToDecide)
      BY Writes, KnownTodos
    <2>3. QED
      BY <1>1, <1>2, <1>4, <2>2 DEF PublishScheduled
  <1>5. CASE ReviewStale(p)
    <2>2. OfferThen(Recount \o <<"orphans">>) \in Changing \ (Hiding \cup ToDecide)
      BY Writes DEF Changing, Hiding, ToDecide
    <2>3. QED
      BY <1>1, <1>2, <1>3, <1>5, <2>2 DEF ReviewStale
  <1>6. CASE OptOut(p)
    <2> DEFINE then == Recount \o <<"supersede", "done">>
    <2>3. then \in Elses
      BY <1>1, Recounts
    <2>4. OfferThen(then) \in Changing \ (Hiding \cup ToDecide)
      BY Writes DEF Changing, Hiding, ToDecide
    <2> HIDE DEF then
    <2>5. QED
      BY <1>1, <1>2, <1>3, <1>6, <2>3, <2>4 DEF OptOut, then
  <1>7. CASE FindEnded(p)
    <2> DEFINE r == [Idle EXCEPT !.actor = "job",
                                 !.todo = <<"expire">> \o (IF EndedNow THEN Recount ELSE <<>>)]
    <2>1. Begin(p, r)
      BY <1>7 DEF FindEnded
    <2>2. /\ r.actor = "job" /\ r.else = <<>> /\ r.to = Idle.to
          /\ r.todo \in {<<"expire">> \o Recount, <<"expire">> \o <<>>}
      BY DEF Idle
    <2> HIDE DEF r
    <2>3. r.todo \in Expiring \ (Hiding \cup ToDecide)
      BY <2>2, Recounts, KnownTodos DEF Expiring
    <2>4. /\ r.todo \in Todos \ (Writing \cup Hiding \cup ToDecide)
          /\ r.todo \notin Changing \cup Keeping \cup Creating \cup Reporting
      BY <2>3, Disjoint, KnownTodos DEF Todos
    <2>5. Fresh(r)
      BY <1>1, <2>2, <2>4, IdleDecides, OthersFresh
    <2>6. QED
      BY <2>1, <2>5 DEF FreshBegins
  <1>8. QED
    BY <1>4, <1>5, <1>6, <1>7

\* What the decision of a case leaves to do.
LEMMA DecisionTodos ==
  /\ <<"offer", "count", "write", "decide", "reports">> \in Changing \ Hiding
  /\ <<"decide", "reports">> \in Short \ (Hiding \cup Looking \cup Reporting)
  BY DEF Changing, Short, Hiding, Looking, Reporting

\* An admin decides an open case: the offer is written first, or left as it is.
LEMMA DecisionFresh ==
  ASSUME NEW r, NEW c \in OpenCases, r.id = c, r.actor = "admin", r.else = <<>>,
         r.to \in {"upheld", "rejected"},
         \/ r.todo = <<"decide", "reports">>
         \/ /\ r.todo = <<"offer", "count", "write", "decide", "reports">>
            /\ r.new.status = "hidden_by_reports" => case[c].autoHidden /\ ~Remembers(c),
         r.to = "upheld" /\ Remembers(c) => r.before \in Public,
         offer.status = "hidden_by_reports" /\ Remembers(c) => Lifts(r)
  PROVE  Fresh(r)
  <1>1. r.todo \in (Changing \cup Short) \ Hiding /\ r.else \in Elses
    BY DecisionTodos DEF Elses
  <1>2. r.todo \in Todos \ (Writing \cup Hiding \cup Keeping \cup Creating)
    BY <1>1, Disjoint DEF Todos
  <1>3. Hides(r) => case[c].autoHidden /\ ~Remembers(c)
    BY <1>2, DecisionTodos, Disjoint DEF Hides
  <1>4. c \in Cases
    BY DEF OpenCases
  <1>5. Decision(r)
    BY DEF Decision, Decides
  <1>6. r.to \notin Outcomes /\ r.todo \notin Reporting
    BY DecisionTodos, KnownTodos, Disjoint DEF Outcomes
  <1>7. QED
    BY <1>1, <1>2, <1>3, <1>4, <1>5, <1>6 DEF Fresh, Planned

\* Both decisions of a case are such requests.
LEMMA CasesFresh ==
  ASSUME IInv, NEW p \in Callers, Uphold(p) \/ RejectCase(p)
  PROVE  FreshBegins(p)
  <1> DEFINE then == Recount \o <<"decide", "reports">>
  <1>1. offer \in Offer /\ case \in [Cases -> Case] /\ {"removed", "expired"} \subseteq Statuses
    BY DEF IInv, Documents, Statuses, Stored, Closed
  <1>2. OfferThen(then) = <<"offer", "count", "write", "decide", "reports">>
    BY Writes
  <1> HIDE DEF then
  <1>3. CASE Uphold(p)
    <2> DEFINE s == Save("admin", To("removed"), then)
               r(c) == [s EXCEPT !.id = c, !.to = "upheld",
                            !.before = IF case[c].before = "none" THEN offer.status
                                       ELSE case[c].before,
                            !.todo = IF offer.status = "removed" THEN <<"decide", "reports">>
                                     ELSE @]
    <2>1. PICK c \in OpenCases : Begin(p, r(c))
      BY <1>3 DEF Uphold, then
    <2>2. s = Save("admin", To("removed"), then)
      OBVIOUS
    <2>3. /\ r(c).actor = s.actor /\ r(c).else = s.else /\ r(c).new = s.new
          /\ r(c).fields = s.fields /\ r(c).status = s.status /\ r(c).manager = s.manager
          /\ r(c).id = c /\ r(c).to = "upheld"
          /\ r(c).before = IF case[c].before = "none" THEN offer.status ELSE case[c].before
          /\ r(c).todo = IF offer.status = "removed" THEN <<"decide", "reports">> ELSE s.todo
      BY DEF Save, Idle
    <2> HIDE DEF s, r
    <2>4. /\ s.actor = "admin" /\ s.todo = OfferThen(then) /\ s.else = <<>>
          /\ s.new = To("removed") /\ s.status = Stored /\ s.manager = Managers
          /\ ("status" \in s.fields <=> To("removed").status # offer.status)
      BY <2>2, SaveTerms
    <2>5. To("removed").status = "removed"
      BY <1>1, ToStatus
    <2>6. Remembers(c) => r(c).before \in Public
      BY <2>3 DEF Remembers, Public
    <2>7. offer.status = "hidden_by_reports" => Lifts(r(c))
      BY <1>2, <2>3, <2>4, <2>5 DEF Lifts
    <2>8. Fresh(r(c))
      BY <1>2, <2>3, <2>4, <2>5, <2>6, <2>7, DecisionFresh
    <2>9. QED
      BY <2>1, <2>8 DEF FreshBegins
  <1>4. CASE RejectCase(p)
    <2> DEFINE status(c) == IF offer.ended THEN "expired" ELSE case[c].before
               s(c) == Save("admin", To(status(c)), then)
               r(c) == [s(c) EXCEPT !.id = c, !.to = "rejected", !.before = case[c].before,
                            !.todo = IF case[c].autoHidden /\ offer.status = "hidden_by_reports"
                                     THEN @ ELSE <<"decide", "reports">>]
    <2>1. PICK c \in OpenCases : Begin(p, r(c))
      BY <1>4 DEF RejectCase, then
    <2>2. s(c) = Save("admin", To(status(c)), then)
      OBVIOUS
    <2>3. /\ r(c).actor = s(c).actor /\ r(c).else = s(c).else /\ r(c).new = s(c).new
          /\ r(c).fields = s(c).fields /\ r(c).status = s(c).status
          /\ r(c).manager = s(c).manager
          /\ r(c).id = c /\ r(c).to = "rejected"
          /\ r(c).todo = IF case[c].autoHidden /\ offer.status = "hidden_by_reports"
                         THEN s(c).todo ELSE <<"decide", "reports">>
      BY DEF Save, Idle
    <2>4. status(c) \in Statuses /\ status(c) \in {"expired", case[c].before}
      BY <1>1, <2>1 DEF OpenCases, Case
    <2> HIDE DEF s, r, status
    <2>5. /\ s(c).actor = "admin" /\ s(c).todo = OfferThen(then) /\ s(c).else = <<>>
          /\ s(c).new = To(status(c)) /\ s(c).status = Stored /\ s(c).manager = Managers
          /\ ("status" \in s(c).fields <=> To(status(c)).status # offer.status)
      BY <2>2, SaveTerms
    <2>6. To(status(c)).status = status(c)
      BY <2>4, ToStatus
    <2>7. Remembers(c) => case[c].autoHidden /\ status(c) # "hidden_by_reports"
      BY <2>4 DEF Remembers, Public
    <2>8. offer.status = "hidden_by_reports" /\ Remembers(c) => Lifts(r(c))
      BY <1>2, <2>3, <2>5, <2>6, <2>7 DEF Lifts
    <2>9. \/ r(c).todo = <<"decide", "reports">>
          \/ /\ r(c).todo = <<"offer", "count", "write", "decide", "reports">>
             /\ r(c).new.status = "hidden_by_reports" => case[c].autoHidden /\ ~Remembers(c)
      BY <1>2, <2>3, <2>5, <2>6, <2>7
    <2>10. Fresh(r(c))
      BY <2>3, <2>5, <2>8, <2>9, DecisionFresh
    <2>11. QED
      BY <2>1, <2>10 DEF FreshBegins
  <1>5. QED
    BY <1>3, <1>4

\* Whoever begins, begins afresh.
LEMMA AskFresh ==
  ASSUME IInv, NEW p \in Callers, Ask(p)
  PROVE  FreshBegins(p)
  BY OwnersFresh, AdminsFresh, ReviewersFresh, QuietRequests, JobsFresh, CasesFresh DEF Ask

-----------------------------------------------------------------------------
(* The steps of a request, as far as they change what is left of it.         *)

\* Nothing to do is planned.
LEMMA IdlePlanned == Planned(Idle) /\ Idle.todo \in Short
  <1>1. Idle.todo = <<>> /\ Idle.else = <<>>
    BY DEF Idle
  <1>2. <<>> \in Short /\ <<>> \in Elses
    BY DEF Short, Elses
  <1>3. QED
    BY <1>1, <1>2, Disjoint DEF Planned, Todos

\* At the start nobody has anything to do.
LEMMA InitPlan ==
  ASSUME Init
  PROVE  Plan
  BY IdlePlanned DEF Init, Plan

\* A request goes on with r, or ends.
LEMMA Turns ==
  ASSUME NEW p, NEW r, Turn(p, r)
  PROVE  \E s \in {r, Idle} : /\ request' = [request EXCEPT ![p] = s]
                              /\ s.todo = r.todo
  <1> DEFINE s == IF r.todo = <<>> THEN Idle ELSE r
  <1>1. request' = [request EXCEPT ![p] = s]
    BY DEF Turn
  <1>2. s \in {r, Idle} /\ s.todo = r.todo
    BY IdleSound
  <1> HIDE DEF s
  <1>3. QED
    BY <1>1, <1>2

\* One request is replaced by a planned one.
LEMMA PlanTook ==
  ASSUME Plan, request \in [Callers -> Request], NEW p \in Callers, NEW s, Planned(s),
         request' = [request EXCEPT ![p] = s]
  PROVE  Plan'
  <1>1. \A q \in Callers : request'[q] = IF q = p THEN s ELSE request[q]
    OBVIOUS
  <1>2. QED
    BY <1>1 DEF Plan, Planned

\* The same, when it goes on or ends.
LEMMA PlanTurned ==
  ASSUME Plan, IInv, NEW p \in Callers, NEW r, Planned(r), Turn(p, r)
  PROVE  Plan'
  <1>1. PICK s \in {r, Idle} : request' = [request EXCEPT ![p] = s]
    BY Turns
  <1>2. Planned(s)
    BY IdlePlanned
  <1>3. QED
    BY <1>1, <1>2, PlanTook DEF IInv, Requests

\* What is left after the next step.
LEMMA AfterTerms ==
  ASSUME IInv, NEW p \in Callers
  PROVE  LET r == request[p]
             a == After(p)
         IN  /\ a.todo = Tail(r.todo) /\ a.else = r.else /\ a.actor = r.actor /\ a.to = r.to
             /\ a.id = r.id /\ a.fields = r.fields /\ a.new = r.new /\ a.before = r.before
             /\ a.status = r.status /\ a.manager = r.manager /\ a.counted = r.counted
  BY DEF After, IInv, Requests, Request

\* It is planned if the whole was.
LEMMA AfterPlanned ==
  ASSUME IInv, Plan, NEW p \in Callers, Busy(p)
  PROVE  Planned(After(p))
  <1> DEFINE t == request[p].todo
             a == After(p)
  <1>1. t \in Todos /\ t # <<>> /\ Planned(request[p])
    BY DEF Plan, Planned, Busy
  <1>2. /\ a.todo = Tail(t) /\ a.else = request[p].else
        /\ a.fields = request[p].fields /\ a.new = request[p].new
    BY AfterTerms
  <1> HIDE DEF t, a
  <1>3. {<<"offer", "count", "write">>} \subseteq Changing /\ <<"offer">> \in Keeping
        /\ <<"count", "write", "candidate">> \in Counting /\ <<>> \in Short
        /\ <<"count", "write">> \in Counting
    BY DEF Changing, Keeping, Counting, Short
  <1>4. Tail(t) \in Todos \ Creating /\ (Tail(t) \in Keeping => t \in Keeping)
    <2>1. CASE t \in Counting \cup Writing
      BY <2>1, CountingTails, Disjoint DEF Todos
    <2>2. CASE t \in Changing
      BY <1>3, <2>2, ChangingTails, Disjoint DEF Todos
    <2>3. CASE t \in Keeping
      BY <1>3, <2>3, ChangingTails, Disjoint DEF Todos
    <2>4. CASE t \in Creating
      BY <1>3, <2>4, ChangingTails, Disjoint DEF Todos
    <2>5. CASE t \in Short
      BY <1>1, <2>5, ShortTails, Disjoint DEF Todos
    <2>6. CASE t \in Expiring
      BY <1>3, <2>6, ChangingTails, Disjoint DEF Todos
    <2>7. QED
      BY <1>1, <2>1, <2>2, <2>3, <2>4, <2>5, <2>6 DEF Todos
  <1>5. QED
    BY <1>1, <1>2, <1>4 DEF Planned, t, a

\* Of what kind the list is that begins with a step.
LEMMA AtKind ==
  ASSUME Plan, NEW p \in Callers, NEW step, At(p, step)
  PROVE  LET t == request[p].todo
         IN  /\ t \in Todos /\ t # <<>> /\ Head(t) = step
             /\ step = "write" => t \in Writing
             /\ step = "hidden" => t = <<"hidden", "count", "write">>
             /\ step = "count" => t \in Counting
             /\ step = "create" => t \in Creating
             /\ step = "expire" => t \in Expiring
             /\ step = "offer" => t \in Changing \cup Keeping
             /\ step \notin {"write", "hidden", "count", "create", "expire"} =>
                    t \in Changing \cup Keeping \cup Short
             /\ step \notin {"write", "hidden", "count", "create", "expire", "offer",
                             "revision", "supersede"} => t \in Short
  <1> DEFINE t == request[p].todo
  <1>1. t \in Todos /\ t # <<>> /\ Head(t) = step
    BY DEF Plan, Planned, At, Busy
  <1> HIDE DEF t
  <1>2. CASE t \in Counting
    BY <1>1, <1>2, CountingTails DEF t
  <1>3. CASE t \in Writing
    BY <1>1, <1>3, CountingTails DEF t
  <1>4. CASE t \in Changing \cup Keeping \cup Creating \cup Expiring
    BY <1>1, <1>4, ChangingTails DEF t
  <1>5. CASE t \in Short
    BY <1>1, <1>5, ShortTails DEF t
  <1>6. QED
    BY <1>1, <1>2, <1>3, <1>4, <1>5 DEF Todos, t

\* A check that changes the offer writes what recheckTransition says, and recounts
\* if that changes the status.
LEMMA ApplyCheckTerms ==
  ASSUME IInv, NEW p \in Callers, ApplyCheck(p)
  PROVE  \/ Turn(p, Idle)
         \/ \E r : \E open \in BOOLEAN :
              /\ Turn(p, r)
              /\ r.actor = request[p].actor /\ r.to = request[p].to /\ r.id = request[p].id
              /\ r.else = request[p].else /\ r.before = request[p].before
              /\ offer.status \in Rechecked
              /\ r.new = Recheck(offer, request[p].to, open)
              /\ r.status = {offer.status} /\ r.manager = {"scraper"}
              /\ ("status" \in r.fields <=> r.new.status # offer.status)
              /\ IF r.new.status # offer.status
                 THEN r.todo \in {<<"offer", "count", "write">>,
                                  <<"supersede", "offer", "count", "write">>}
                 ELSE r.todo \in Keeping
  <1> DEFINE outcome == request[p].to
             moot == outcome = "seen" /\ Pending # {}
             new  == Recheck(offer, outcome, Pending # {} /\ ~moot)
             then == IF new.status # offer.status THEN Recount ELSE <<>>
             todo == (IF moot THEN <<"supersede">> ELSE <<>>) \o <<"offer">> \o then
             fields == {"absent"} \cup (IF new.status # offer.status THEN {"status"} ELSE {})
             r == [request[p] EXCEPT !.todo = todo, !.new = new, !.fields = fields,
                                     !.status = {offer.status}, !.manager = {"scraper"}]
  <1>1. SUFFICES ASSUME ~Turn(p, Idle)
                 PROVE  \E s : \E open \in BOOLEAN :
              /\ Turn(p, s)
              /\ s.actor = request[p].actor /\ s.to = request[p].to /\ s.id = request[p].id
              /\ s.else = request[p].else /\ s.before = request[p].before
              /\ offer.status \in Rechecked
              /\ s.new = Recheck(offer, request[p].to, open)
              /\ s.status = {offer.status} /\ s.manager = {"scraper"}
              /\ ("status" \in s.fields <=> s.new.status # offer.status)
              /\ IF s.new.status # offer.status
                 THEN s.todo \in {<<"offer", "count", "write">>,
                                  <<"supersede", "offer", "count", "write">>}
                 ELSE s.todo \in Keeping
    OBVIOUS
  <1>2. Turn(p, r) /\ offer.status \in Rechecked
    BY <1>1 DEF ApplyCheck
  <1>3. request[p] \in Request
    BY DEF IInv, Requests
  <1>4. /\ r.actor = request[p].actor /\ r.to = outcome /\ r.id = request[p].id
        /\ r.else = request[p].else /\ r.before = request[p].before /\ r.todo = todo
        /\ r.new = new /\ r.fields = fields
        /\ r.status = {offer.status} /\ r.manager = {"scraper"}
    BY <1>3 DEF Request
  <1>5. PICK open \in BOOLEAN : new = Recheck(offer, outcome, open)
    OBVIOUS
  <1>6. "status" \in fields <=> new.status # offer.status
    OBVIOUS
  <1>7. IF new.status # offer.status
        THEN todo \in {<<"offer", "count", "write">>, <<"supersede", "offer", "count", "write">>}
        ELSE todo \in Keeping
    <2> HIDE DEF new, moot
    <2>1. CASE ~moot
      <3>1. <<>> \o <<"offer">> = <<"offer">>
        OBVIOUS
      <3>2. todo = OfferThen(then)
        BY <2>1, <3>1 DEF OfferThen
      <3>3. QED
        BY <3>2, Writes DEF Keeping
    <2>2. CASE moot
      <3>1. todo = <<"supersede">> \o <<"offer">> \o then
        BY <2>2
      <3>2. CASE new.status = offer.status
        <4>1. <<"supersede", "offer">> \o <<>> = <<"supersede", "offer">>
          OBVIOUS
        <4>2. todo = <<"supersede", "offer">>
          BY <3>1, <3>2, <4>1, Writes
        <4>3. QED
          BY <3>2, <4>2 DEF Keeping
      <3>3. CASE new.status # offer.status
        <4>1. <<"supersede", "offer">> \o <<"count", "write">>
                = <<"supersede", "offer", "count", "write">>
          BY TwoAndTwo, Zenon
        <4>2. todo = <<"supersede", "offer", "count", "write">>
          BY <3>1, <3>3, <4>1, Writes DEF Recount
        <4>3. QED
          BY <3>3, <4>2
      <3>4. QED
        BY <3>2, <3>3
    <2>3. QED
      BY <2>1, <2>2
  <1> HIDE DEF r, new, todo, fields
  <1>8. r.new = Recheck(offer, request[p].to, open)
    BY <1>4, <1>5
  <1>9. /\ ("status" \in r.fields <=> r.new.status # offer.status)
        /\ IF r.new.status # offer.status
           THEN r.todo \in {<<"offer", "count", "write">>,
                            <<"supersede", "offer", "count", "write">>}
           ELSE r.todo \in Keeping
    BY <1>4, <1>6, <1>7
  <1>10. r.actor = request[p].actor /\ r.to = request[p].to /\ r.id = request[p].id
         /\ r.else = request[p].else /\ r.before = request[p].before
         /\ r.status = {offer.status} /\ r.manager = {"scraper"}
    BY <1>4
  <1>11. QED
    BY <1>2, <1>8, <1>9, <1>10

\* Enough people have reported the offer: it is to be hidden, and the case told.
LEMMA CountReportersTerms ==
  ASSUME IInv, NEW p \in Callers, CountReporters(p)
  PROVE  \/ Turn(p, Idle)
         \/ \E r : /\ Turn(p, r)
                   /\ r.todo = <<"offer", "hidden", "count", "write">> /\ r.else = <<>>
                   /\ r.actor = "reports" /\ r.to = Idle.to /\ r.id = request[p].id
                   /\ r.before = request[p].before
                   /\ r.new = To("hidden_by_reports") /\ r.fields = {"status"}
  <1> DEFINE then == <<"hidden">> \o Recount
             u == Update("reports", To("hidden_by_reports"), Public, Managers, then, <<>>)
             r == [u EXCEPT !.before = request[p].before, !.id = request[p].id]
  <1>1. Turn(p, Idle) \/ Turn(p, r)
    BY DEF CountReporters
  <1>2. u.to = Idle.to
    BY DEF Update, Idle
  <1>3. /\ r.todo = u.todo /\ r.else = u.else /\ r.actor = u.actor /\ r.to = u.to
        /\ r.id = request[p].id /\ r.before = request[p].before /\ r.new = u.new
        /\ r.fields = u.fields
    BY DEF Update, Idle
  <1>4. u = Update("reports", To("hidden_by_reports"), Public, Managers, then, <<>>)
    OBVIOUS
  <1> HIDE DEF u, r
  <1>5. u.todo = OfferThen(then) /\ u.else = <<>> /\ u.actor = "reports"
        /\ u.new = To("hidden_by_reports") /\ u.fields = {"status"}
    BY <1>4, UpdateTerms
  <1>6. OfferThen(then) = <<"offer", "hidden", "count", "write">>
    BY Writes
  <1> HIDE DEF then
  <1>7. QED
    BY <1>1, <1>2, <1>3, <1>5, <1>6

\* An accepted appeal that finds the offer removed saves it as an admin does.
LEMMA RestoreAppealedTerms ==
  ASSUME IInv, NEW p \in Callers, RestoreAppealed(p)
  PROVE  \/ Turn(p, Idle)
         \/ \E r : /\ Turn(p, r)
                   /\ r.todo = <<"offer", "count", "write">> /\ r.else = <<>>
                   /\ r.actor = "admin" /\ r.to = Idle.to /\ r.id = 0
                   /\ r.new.status # "hidden_by_reports"
  <1> DEFINE before == case[request[p].id].before
             status == IF offer.ended THEN "expired"
                       ELSE IF before = "hidden_by_reports" THEN "active" ELSE before
             r == Save("admin", To(status), Recount)
  <1>1. (Turn(p, Idle) \/ Turn(p, r)) /\ r = Save("admin", To(status), Recount)
    BY DEF RestoreAppealed
  <1>2. status \in Statuses /\ status # "hidden_by_reports"
    <2>1. request[p].id \in Cases
      BY AtStep DEF RestoreAppealed, Allowed, OnCase
    <2>2. before \in Statuses
      BY <2>1 DEF IInv, Documents, Case
    <2>3. {"expired", "active"} \subseteq Statuses
      BY DEF Statuses, Stored, Closed, Ending, Public
    <2> HIDE DEF before
    <2>4. QED
      BY <2>2, <2>3
  <1> HIDE DEF r, status
  <1>3. /\ r.todo = OfferThen(Recount) /\ r.else = <<>> /\ r.actor = "admin"
        /\ r.to = Idle.to /\ r.id = 0 /\ r.new = To(status)
    BY <1>1, SaveTerms
  <1>4. To(status).status = status
    BY <1>2, ToStatus
  <1>5. QED
    BY <1>1, <1>2, <1>3, <1>4, Writes

\* A candidate that a run has found, or not, is to be saved or stored.
LEMMA FindCandidateTerms ==
  ASSUME IInv, NEW p \in Callers, FindCandidate(p)
  PROVE  \/ Turn(p, Idle)
         \/ \E r : /\ Turn(p, r)
                   /\ r.todo \in {<<"candidate">>, <<"store">>} /\ r.else = request[p].else
                   /\ r.actor = request[p].actor /\ r.id = request[p].id
                   /\ r.to \in {"open", "failed"}
  <1> DEFINE todo == IF candidate \in {"open", "failed"} THEN <<"candidate">> ELSE <<"store">>
             r(to) == [request[p] EXCEPT !.to = to, !.todo = todo]
  <1>1. PICK to \in {"open", "failed"} : Turn(p, Idle) \/ Turn(p, r(to))
    BY DEF FindCandidate
  <1>2. request[p] \in Request
    BY DEF IInv, Requests
  <1>3. todo \in {<<"candidate">>, <<"store">>}
    OBVIOUS
  <1> HIDE DEF todo
  <1>4. /\ r(to).todo = todo /\ r(to).else = request[p].else
        /\ r(to).actor = request[p].actor /\ r(to).id = request[p].id /\ r(to).to = to
    BY <1>2 DEF Request
  <1> HIDE DEF r
  <1>5. QED
    BY <1>1, <1>3, <1>4

\* The job that ends offers counts next, or leaves it with an offer it had not found.
LEMMA ExpireEndedTerms ==
  ASSUME IInv, Plan, NEW p \in Callers, ExpireEnded(p)
  PROVE  /\ request[p].todo \in Expiring /\ Head(request[p].todo) = "expire" /\ Busy(p)
         /\ After(p).todo \in {<<>>, <<"count", "write">>}
         /\ \/ /\ Turn(p, After(p)) /\ NoteRace(p)
               /\ offer'.status = "expired"
               /\ unfound \/ After(p).todo = <<>> => unfound'
            \/ /\ Turn(p, After(p)) \/ Turn(p, Idle)
               /\ UNCHANGED <<offer, raced, unfound>>
         /\ UNCHANGED <<count, crashes, case, misses, crossed>>
  <1>1. At(p, "expire")
    BY DEF ExpireEnded
  <1>2. request[p].todo \in Expiring
    BY <1>1, AtKind
  <1>3. After(p).todo = Tail(request[p].todo)
    BY AfterTerms
  <1>4. After(p).todo \in {<<>>, <<"count", "write">>}
    BY <1>2, <1>3, ChangingTails
  <1>5. To("expired").status = "expired"
    BY ToStatus DEF Statuses, Stored, Closed
  <1>6. CASE EndedNow
    BY <1>1, <1>2, <1>3, <1>4, <1>5, <1>6 DEF ExpireEnded, Advance, At, bounds
  <1>7. CASE ~EndedNow
    <2>1. Turn(p, After(p)) \/ Turn(p, Idle)
      BY <1>7 DEF ExpireEnded
    <2>2. UNCHANGED <<offer, raced, unfound, count, crashes, case, misses, crossed>>
      BY <1>7 DEF ExpireEnded, bounds
    <2>3. QED
      BY <1>1, <1>2, <1>4, <2>1, <2>2 DEF At
  <1>8. QED
    BY <1>6, <1>7

\* What neither touches: the offer, its count, and what concerns their race.
Uncounted == UNCHANGED <<offer, count, raced, unfound, crashes>>

\* Steps that go on with the next one.
AdvancingSteps(p) ==
    \/ SaveCandidate(p) \/ StoreCandidate(p) \/ SaveRevision(p) \/ Supersede(p)
    \/ ProposeRevision(p) \/ FinishOptOut(p) \/ FileReport(p) \/ SaveDecision(p) \/ CloseReports(p)

\* Steps that decide what comes next.
TurningSteps(p) ==
    \/ ApplyCheck(p) \/ CloseOrphans(p) \/ UpsertCase(p) \/ CountReporters(p)
    \/ FindCandidate(p) \/ SaveAppeal(p) \/ RestoreAppealed(p)

\* A step that goes on with the next one leaves the offer and its count alone.
LEMMA Advances ==
  ASSUME NEW p \in Callers, AdvancingSteps(p)
  PROVE  /\ Turn(p, After(p)) /\ Busy(p) /\ Uncounted
         /\ \E step \in Steps \ {"write", "hidden", "count", "create", "expire", "offer"} : At(p, step)
  <1>1. {"candidate", "store", "revision", "supersede", "propose", "done", "report", "decide",
         "reports"} \subseteq Steps \ {"write", "hidden", "count", "create", "expire", "offer"}
    BY DEF Steps
  <1>2. Turn(p, After(p)) /\ \E step \in Steps \ {"write", "hidden", "count", "create", "expire", "offer"} :
                                At(p, step)
    BY <1>1 DEF AdvancingSteps, SaveCandidate, StoreCandidate, SaveRevision, Supersede, ProposeRevision,
                FinishOptOut, FileReport, SaveDecision, CloseReports, Advance
  <1>3. Uncounted
    BY DEF AdvancingSteps, SaveCandidate, StoreCandidate, SaveRevision, Supersede, ProposeRevision,
           FinishOptOut, FileReport, SaveDecision, CloseReports, Uncounted, bounds, history
  <1>4. QED
    BY <1>2, <1>3 DEF At

\* So does one that decides what comes next, and what comes next is planned.
LEMMA TurningKinds ==
  ASSUME IInv, Plan, NEW p \in Callers, TurningSteps(p)
  PROVE  /\ Uncounted /\ request[p].todo \in Short
         /\ \E r : Turn(p, r) /\ Planned(r) /\ r.todo \in Changing \cup Keeping \cup Short
  <1> DEFINE r == request[p]
  <1>1. Uncounted
    BY DEF TurningSteps, ApplyCheck, CloseOrphans, UpsertCase, CountReporters, FindCandidate, SaveAppeal,
           RestoreAppealed, Uncounted, docs, bounds, history
  <1>2. PICK step \in {"check", "orphans", "case", "distinct", "find", "appeal", "restore"} :
          At(p, step)
    BY DEF TurningSteps, ApplyCheck, CloseOrphans, UpsertCase, CountReporters, FindCandidate, SaveAppeal,
           RestoreAppealed
  <1>3. r.todo \in Short /\ Planned(r) /\ r \in Request
    BY <1>2, AtKind DEF Plan, IInv, Requests
  <1>4. ASSUME NEW s, Turn(p, s), s.todo \in Short, s.else \in Elses
        PROVE  Planned(s)
    BY <1>4, Disjoint DEF Planned, Todos
  <1>5. ASSUME NEW s, Turn(p, s), s.todo \in Changing, s.else \in Elses
        PROVE  Planned(s)
    BY <1>5, Disjoint DEF Planned, Todos
  <1>6. CASE Turn(p, Idle)
    BY <1>1, <1>3, <1>6, IdlePlanned
  <1>7. CASE ~Turn(p, Idle) /\ ApplyCheck(p)
    <2>1. PICK s : /\ Turn(p, s) /\ s.else = r.else
                   /\ ("status" \in s.fields <=> s.new.status # offer.status)
                   /\ IF s.new.status # offer.status
                      THEN s.todo \in {<<"offer", "count", "write">>,
                                       <<"supersede", "offer", "count", "write">>}
                      ELSE s.todo \in Keeping
      BY <1>7, ApplyCheckTerms
    <2>2. s.else \in Elses
      BY <1>3, <2>1 DEF Planned
    <2>3. CASE s.new.status # offer.status
      <3>1. s.todo \in Changing
        BY <2>1, <2>3, KnownTodos
      <3>2. QED
        BY <1>1, <1>3, <1>5, <2>1, <2>2, <3>1
    <2>4. CASE s.new.status = offer.status
      <3>1. s.todo \in Keeping /\ "status" \notin s.fields
        BY <2>1, <2>4
      <3>2. Planned(s)
        BY <2>2, <3>1, Disjoint DEF Planned, Todos
      <3>3. QED
        BY <1>1, <1>3, <2>1, <3>1, <3>2
    <2>5. QED
      BY <2>3, <2>4
  <1>8. CASE CloseOrphans(p)
    <2> DEFINE a == After(p)
               todo == IF offer.status \in Closed THEN <<"supersede">> ELSE <<>>
               s == [a EXCEPT !.todo = todo]
    <2>1. Turn(p, s)
      BY <1>8 DEF CloseOrphans
    <2>2. todo \in Short
      BY DEF Short
    <2>3. a \in Request /\ a.else = r.else
      BY <1>2, AtStep, AfterTerms
    <2> HIDE DEF a, todo
    <2>4. s.todo = todo /\ s.else = r.else
      BY <2>3 DEF Request
    <2> HIDE DEF s
    <2>5. QED
      BY <1>1, <1>3, <1>4, <2>1, <2>2, <2>4 DEF Planned
  <1>9. CASE ~Turn(p, Idle) /\ UpsertCase(p)
    <2>1. PICK c \in Cases : Turn(p, [r EXCEPT !.id = c, !.todo = <<"distinct">>])
      BY <1>9 DEF UpsertCase
    <2> DEFINE s == [r EXCEPT !.id = c, !.todo = <<"distinct">>]
    <2>2. s.todo = <<"distinct">> /\ s.else = r.else
      BY <1>3 DEF Request
    <2>3. <<"distinct">> \in Short
      BY DEF Short
    <2> HIDE DEF s
    <2>4. QED
      BY <1>1, <1>3, <1>4, <2>1, <2>2, <2>3 DEF Planned, s
  <1>10. CASE ~Turn(p, Idle) /\ CountReporters(p)
    <2>1. PICK s : Turn(p, s) /\ s.todo = <<"offer", "hidden", "count", "write">>
                   /\ s.else = <<>>
      BY <1>10, CountReportersTerms
    <2>2. s.todo \in Changing /\ s.else \in Elses
      BY <2>1 DEF Changing, Elses
    <2>3. QED
      BY <1>1, <1>3, <1>5, <2>1, <2>2
  <1>11. CASE ~Turn(p, Idle) /\ SaveAppeal(p)
    <2>1. Turn(p, [r EXCEPT !.todo = <<"restore">>])
      BY <1>11 DEF SaveAppeal
    <2> DEFINE s == [r EXCEPT !.todo = <<"restore">>]
    <2>2. s.todo = <<"restore">> /\ s.else = r.else
      BY <1>3 DEF Request
    <2>3. <<"restore">> \in Short
      BY DEF Short
    <2> HIDE DEF s
    <2>4. QED
      BY <1>1, <1>3, <1>4, <2>1, <2>2, <2>3 DEF Planned, s
  <1>12. CASE ~Turn(p, Idle) /\ RestoreAppealed(p)
    <2>1. PICK s : Turn(p, s) /\ s.todo = <<"offer", "count", "write">> /\ s.else = <<>>
      BY <1>12, RestoreAppealedTerms
    <2>2. s.todo \in Changing /\ s.else \in Elses
      BY <2>1, KnownTodos DEF Elses
    <2>3. QED
      BY <1>1, <1>3, <1>5, <2>1, <2>2
  <1>13. CASE ~Turn(p, Idle) /\ FindCandidate(p)
    <2>1. PICK s : Turn(p, s) /\ s.todo \in {<<"candidate">>, <<"store">>} /\ s.else = r.else
      BY <1>13, FindCandidateTerms
    <2>2. s.todo \in Short
      BY <2>1, KnownTodos
    <2>3. QED
      BY <1>1, <1>3, <1>4, <2>1, <2>2 DEF Planned
  <1>14. QED
    BY <1>6, <1>7, <1>8, <1>9, <1>10, <1>11, <1>12, <1>13 DEF TurningSteps

\* What comes next after the others.
LEMMA AdvancingKinds ==
  ASSUME IInv, Plan, NEW p \in Callers, AdvancingSteps(p)
  PROVE  /\ Uncounted /\ request[p].todo \in Changing \cup Keeping \cup Short
         /\ Turn(p, After(p)) /\ Planned(After(p))
         /\ After(p).todo \in Changing \cup Keeping \cup Short
  <1>1. PICK step \in Steps \ {"write", "hidden", "count", "create", "expire", "offer"} : At(p, step)
    BY Advances
  <1> DEFINE t == request[p].todo
  <1>2. t \in Changing \cup Keeping \cup Short /\ t # <<>> /\ Head(t) # "offer"
    BY <1>1, AtKind
  <1>3. {<<"offer", "count", "write">>} \subseteq Changing /\ <<"offer">> \in Keeping
    BY DEF Changing, Keeping
  <1> HIDE DEF t
  <1>4. Tail(t) \in Changing \cup Keeping \cup Short
    <2>1. CASE t \in Changing \cup Keeping
      BY <1>2, <1>3, <2>1, ChangingTails
    <2>2. CASE t \in Short
      BY <1>2, <2>2, ShortTails
    <2>3. QED
      BY <1>2, <2>1, <2>2
  <1>5. QED
    BY <1>2, <1>4, Advances, AfterTerms, AfterPlanned DEF t

\* What is left once the offer is written, or may not be.
LEMMA WriteTerms ==
  ASSUME IInv, Plan, NEW p \in Callers, WriteOffer(p)
  PROVE  LET r == request[p]
             todo == IF Matches(p) THEN Tail(r.todo) ELSE r.else
             w == Written(p, todo)
         IN  /\ Turn(p, w) /\ Planned(w) /\ w.todo = todo
             /\ w.actor = r.actor /\ w.to = r.to /\ w.id = r.id /\ w.before = r.before
             /\ r.todo \in Changing \cup Keeping
             /\ r.todo \in Changing /\ Matches(p) => todo \in Counting
             /\ r.todo \in Keeping /\ Matches(p) => "status" \notin r.fields /\ todo = <<>>
             /\ ~Matches(p) => todo \in Elses
  <1> DEFINE r == request[p]
             t == r.todo
             todo == IF Matches(p) THEN Tail(r.todo) ELSE r.else
             w == Written(p, todo)
  <1>1. At(p, "offer") /\ Turn(p, w)
    BY DEF WriteOffer
  <1>2. t \in Changing \cup Keeping /\ Head(t) = "offer" /\ Planned(r) /\ r \in Request
    BY <1>1, AtKind DEF Plan, IInv, Requests
  <1>3. /\ w.todo = todo /\ w.actor = r.actor /\ w.to = r.to /\ w.id = r.id
        /\ w.before = r.before /\ w.else = <<>>
    BY <1>2 DEF Written, Request
  <1>4. \A s \in Elses : s \in Short \cup Counting
    BY DEF Elses, Short, Counting
  <1>5. <<>> \in Short /\ <<>> \in Elses
    BY DEF Short, Elses
  <1>6. /\ t \in Changing /\ Matches(p) => todo \in Counting
        /\ t \in Keeping /\ Matches(p) => "status" \notin r.fields /\ todo = <<>>
        /\ ~Matches(p) => todo \in Elses
    BY <1>2, ChangingTails DEF Planned
  <1> HIDE DEF todo, w
  <1>7. todo \in Short \cup Counting
    BY <1>2, <1>4, <1>5, <1>6
  <1>8. Planned(w)
    BY <1>3, <1>5, <1>7, Disjoint DEF Planned, Todos
  <1>9. QED
    BY <1>1, <1>2, <1>3, <1>6, <1>8 DEF todo, w

\* An offer that is created is counted next.
LEMMA CreateTerms ==
  ASSUME IInv, Plan, NEW p \in Callers, CreateOffer(p)
  PROVE  LET r == request[p]
             w == Written(p, Tail(r.todo))
         IN  /\ w.actor = r.actor /\ w.to = r.to /\ w.id = r.id
             /\ w.todo = <<"count", "write", "candidate">> /\ Planned(w)
             /\ r.todo \in Creating /\ r.new.status \in {"active", "pending"}
             /\ \/ Turn(p, Idle) /\ UNCHANGED <<offer, raced>>
                \/ Turn(p, w) /\ offer.status = "none" /\ offer' = r.new /\ NoteRace(p)
  <1> DEFINE r == request[p]
             todo == Tail(r.todo)
             w == Written(p, todo)
  <1>1. At(p, "create") /\ \/ Turn(p, Idle) /\ UNCHANGED <<offer, raced>>
                           \/ Turn(p, w) /\ offer.status = "none" /\ offer' = r.new /\ NoteRace(p)
    BY DEF CreateOffer
  <1>2. r.todo \in Creating /\ Planned(r) /\ r \in Request
    BY <1>1, AtKind DEF Plan, IInv, Requests
  <1>3. todo = <<"count", "write", "candidate">>
    BY <1>2, ChangingTails
  <1>4. w.todo = todo /\ w.actor = r.actor /\ w.to = r.to /\ w.id = r.id /\ w.else = <<>>
    BY <1>2 DEF Written, Request
  <1>5. todo \in Counting /\ <<>> \in Elses
    BY <1>3 DEF Counting, Elses
  <1> HIDE DEF todo, w
  <1>6. Planned(w)
    BY <1>4, <1>5, Disjoint DEF Planned, Todos
  <1>7. QED
    BY <1>1, <1>2, <1>3, <1>4, <1>6 DEF Planned, todo, w

\* Every step leaves every request with a planned list.
LEMMA PlanStep ==
  ASSUME IInv, Plan, [Next]_vars
  PROVE  Plan'
  <1>1. ASSUME NEW p \in Callers, Ask(p)
        PROVE  Plan'
    <2>1. request \in [Callers -> Request]
      BY DEF IInv, Requests
    <2>2. PICK r : Begin(p, r) /\ Fresh(r)
      BY <1>1, AskFresh DEF FreshBegins
    <2>3. QED
      BY <2>1, <2>2, PlanTook DEF Begin, Fresh
  <1>2. ASSUME NEW p \in Callers, Proceed(p)
        PROVE  Plan'
    <2>1. CASE WriteOffer(p)
      BY <2>1, WriteTerms, PlanTurned
    <2>2. CASE CreateOffer(p)
      BY <2>2, CreateTerms, IdlePlanned, PlanTurned
    <2>3. CASE CountActive(p)
      <3> DEFINE a == After(p)
                 s == [a EXCEPT !.counted = One(offer.status)]
      <3>1. Planned(a) /\ a \in Request /\ Turn(p, s)
        BY <2>3, AtStep, AfterPlanned DEF CountActive
      <3>2. s.todo = a.todo /\ s.else = a.else /\ s.fields = a.fields /\ s.new = a.new
        BY <3>1 DEF Request
      <3> HIDE DEF a, s
      <3>3. Planned(s)
        BY <3>1, <3>2 DEF Planned
      <3>4. QED
        BY <3>1, <3>3, PlanTurned
    <2>4. CASE WriteCount(p) \/ SaveHidden(p)
      BY <2>4, AtStep, AfterPlanned, PlanTurned DEF WriteCount, SaveHidden, Advance
    <2>5. CASE AdvancingSteps(p)
      BY <2>5, AdvancingKinds, PlanTurned
    <2>6. CASE TurningSteps(p)
      BY <2>6, TurningKinds, PlanTurned
    <2>7. CASE ExpireEnded(p)
      <3>1. Busy(p) /\ (Turn(p, After(p)) \/ Turn(p, Idle))
        BY <2>7, ExpireEndedTerms
      <3>2. QED
        BY <3>1, AfterPlanned, IdlePlanned, PlanTurned
    <2>8. QED
      BY <1>2, <2>1, <2>2, <2>3, <2>4, <2>5, <2>6, <2>7 DEF Proceed, AdvancingSteps, TurningSteps
  <1>3. ASSUME NEW p \in Callers, Crash(p)
        PROVE  Plan'
    BY <1>3, IdlePlanned, PlanTook DEF Crash, IInv, Requests
  <1>4. ASSUME request' = request
        PROVE  Plan'
    BY <1>4 DEF Plan, Planned
  <1>5. QED
    BY <1>1, <1>2, <1>3, <1>4 DEF Next, Appeal, OfferStarts, OfferEnds, vars

-----------------------------------------------------------------------------
(* The business's count of live offers.                                     *)

\* While no recount is overtaken, no offer expired unfound and nobody dies: a count that
\* is to be written is right, and one that is not right will be counted again.
Counted ==
    crashes = 0 /\ ~raced /\ ~unfound =>
        /\ \A p \in Callers :
            request[p].todo \in Writing => request[p].counted = One(offer.status)
        /\ \/ count = One(offer.status)
           \/ \E p \in Callers : request[p].todo \in Counting \cup Writing

\* The count is right at the start.
LEMMA InitCounted ==
  ASSUME Init
  PROVE  Counted
  <1>1. Idle.todo \notin Writing
    BY IdlePlanned, Disjoint
  <1>2. QED
    BY <1>1 DEF Init, Counted

\* With nobody at work, nobody is about to count.
LEMMA CountedImplies == Counted => CountRightWhenIdle
  <1>1. <<>> \notin Counting \cup Writing
    BY CountingTails
  <1>2. QED
    BY <1>1 DEF Counted, CountRightWhenIdle, Idling, Busy

\* A request that goes on and leaves the offer and the count alone.
LEMMA CountedGoesOn ==
  ASSUME IInv, Counted, NEW p \in Callers, NEW s, request' = [request EXCEPT ![p] = s],
         Uncounted,
         s.todo \in Writing => s.counted = One(offer.status),
         request[p].todo \in Counting \cup Writing => s.todo \in Counting \cup Writing
  PROVE  Counted'
  <1>1. \A q \in Callers : request'[q] = IF q = p THEN s ELSE request[q]
    BY DEF IInv, Requests
  <1>2. QED
    BY <1>1 DEF Counted, Uncounted

\* The same, when it turns to other steps than those of a count.
LEMMA CountedTurns ==
  ASSUME IInv, Counted, NEW p \in Callers, NEW r, Turn(p, r), Uncounted,
         request[p].todo \in Changing \cup Keeping \cup Short, r.todo \notin Writing
  PROVE  Counted'
  <1>1. PICK s : request' = [request EXCEPT ![p] = s] /\ s.todo = r.todo
    BY Turns
  <1>2. request[p].todo \notin Counting \cup Writing
    BY Disjoint
  <1>3. QED
    BY <1>1, <1>2, CountedGoesOn

\* The status changes: nobody is about to write a count, but the one who changes
\* it is about to count.
LEMMA CountedAgain ==
  ASSUME IInv, Plan, NEW p \in Callers, NEW s, request' = [request EXCEPT ![p] = s],
         NoteRace(p), Counted, s.todo \in Counting, UNCHANGED crashes, unfound => unfound'
  PROVE  Counted'
  <1>1. \A q \in Callers : request'[q] = IF q = p THEN s ELSE request[q]
    BY DEF IInv, Requests
  <1>2. SUFFICES ASSUME crashes' = 0, ~raced', ~unfound'
                 PROVE  /\ \A q \in Callers :
                            request'[q].todo \in Writing => request'[q].counted = One(offer'.status)
                        /\ \E q \in Callers : request'[q].todo \in Counting \cup Writing
    BY DEF Counted
  <1>3. ~raced /\ (offer'.status # offer.status => \A q \in Callers \ {p} : ~At(q, "write"))
    BY <1>2 DEF NoteRace
  <1>4. ASSUME NEW q \in Callers, request'[q].todo \in Writing
        PROVE  request'[q].counted = One(offer'.status)
    <2>1. q # p /\ request'[q] = request[q]
      BY <1>1, <1>4, Disjoint
    <2>2. At(q, "write")
      BY <1>4, <2>1, CountingTails DEF At, Busy
    <2>3. offer'.status = offer.status
      BY <1>3, <2>1, <2>2
    <2>4. QED
      BY <1>2, <1>3, <1>4, <2>1, <2>3 DEF Counted
  <1>5. QED
    BY <1>1, <1>4

\* The write of the offer.
LEMMA WriteCounted ==
  ASSUME IInv, Plan, Counted, NEW p \in Callers, WriteOffer(p)
  PROVE  Counted'
  <1> DEFINE r == request[p]
             todo == IF Matches(p) THEN Tail(r.todo) ELSE r.else
             w == Written(p, todo)
  <1>1. /\ Turn(p, w) /\ w.todo = todo
        /\ r.todo \in Changing \cup Keeping
        /\ r.todo \in Changing /\ Matches(p) => todo \in Counting
        /\ r.todo \in Keeping /\ Matches(p) => "status" \notin r.fields /\ todo = <<>>
        /\ ~Matches(p) => todo \in Elses
    BY WriteTerms
  <1> HIDE DEF todo, w
  <1>2. PICK s : request' = [request EXCEPT ![p] = s] /\ s.todo = todo
    BY <1>1, Turns
  <1>3. UNCHANGED <<crashes, count, unfound>>
    BY DEF WriteOffer, bounds
  <1>4. r.todo \notin Counting \cup Writing
    BY <1>1, Disjoint
  <1>5. \A t \in Elses : t \notin Writing
    BY DEF Elses, Writing
  <1>6. CASE Matches(p) /\ r.todo \in Changing
    <2>1. NoteRace(p) /\ s.todo \in Counting /\ (unfound => unfound')
      BY <1>1, <1>2, <1>3, <1>6 DEF WriteOffer
    <2>2. QED
      BY <1>2, <1>3, <2>1, CountedAgain
  <1>7. CASE Matches(p) /\ r.todo \in Keeping
    <2>1. offer'.status = offer.status
      BY <1>1, <1>7, Rewritten
    <2>2. <<>> \notin Writing
      BY CountingTails
    <2>3. \A q \in Callers : request'[q] = IF q = p THEN s ELSE request[q]
      BY <1>2 DEF IInv, Requests
    <2>4. raced' = raced
      BY <1>7, <2>1 DEF WriteOffer, NoteRace, IInv, Others
    <2>5. QED
      BY <1>1, <1>2, <1>3, <1>4, <1>7, <2>1, <2>2, <2>3, <2>4 DEF Counted
  <1>8. CASE ~Matches(p)
    <2>1. Uncounted
      BY <1>3, <1>8 DEF WriteOffer, Uncounted
    <2>2. QED
      BY <1>1, <1>2, <1>4, <1>5, <1>8, <2>1, CountedGoesOn
  <1>9. QED
    BY <1>1, <1>6, <1>7, <1>8

\* The creation of the offer.
LEMMA CreateCounted ==
  ASSUME IInv, Plan, Counted, NEW p \in Callers, CreateOffer(p)
  PROVE  Counted'
  <1> DEFINE w == Written(p, Tail(request[p].todo))
  <1>1. /\ w.todo = <<"count", "write", "candidate">> /\ request[p].todo \in Creating
        /\ \/ Turn(p, Idle) /\ UNCHANGED <<offer, raced>>
           \/ Turn(p, w) /\ NoteRace(p)
    BY CreateTerms
  <1>2. UNCHANGED <<crashes, count, unfound>>
    BY DEF CreateOffer, bounds
  <1> HIDE DEF w
  <1>3. request[p].todo \notin Counting \cup Writing /\ Idle.todo \notin Writing
    BY <1>1, IdlePlanned, Disjoint
  <1>4. CASE Turn(p, Idle) /\ UNCHANGED <<offer, raced>>
    <2>1. PICK s : request' = [request EXCEPT ![p] = s] /\ s.todo = Idle.todo
      BY <1>4, Turns
    <2>2. QED
      BY <1>2, <1>3, <1>4, <2>1, CountedGoesOn DEF Uncounted
  <1>5. CASE Turn(p, w) /\ NoteRace(p)
    <2>1. PICK s : request' = [request EXCEPT ![p] = s] /\ s.todo = w.todo
      BY <1>5, Turns
    <2>2. w.todo \in Counting
      BY <1>1 DEF Counting
    <2>3. QED
      BY <1>2, <1>5, <2>1, <2>2, CountedAgain
  <1>6. QED
    BY <1>1, <1>4, <1>5

\* The count, its write, and the case told between the offer's write and the count.
LEMMA RecountCounted ==
  ASSUME IInv, Plan, Counted, NEW p \in Callers,
         CountActive(p) \/ WriteCount(p) \/ SaveHidden(p)
  PROVE  Counted'
  <1> DEFINE t == request[p].todo
  <1>1. CASE CountActive(p)
    <2> DEFINE a == After(p)
               r == [a EXCEPT !.counted = One(offer.status)]
    <2>1. At(p, "count") /\ Turn(p, r) /\ Uncounted
      BY <1>1 DEF CountActive, docs, bounds, history, Uncounted
    <2>2. t \in Counting /\ Head(t) = "count"
      BY <2>1, AtKind
    <2>3. a \in Request /\ a.todo = Tail(t)
      BY <2>1, AtStep, AfterTerms
    <2> HIDE DEF a
    <2>4. r.todo \in Writing /\ r.counted = One(offer.status)
      BY <2>2, <2>3, CountingTails DEF Request
    <2> HIDE DEF r
    <2>5. PICK s \in {r, Idle} : request' = [request EXCEPT ![p] = s] /\ s.todo = r.todo
      BY <2>1, Turns
    <2>6. s = r
      BY <2>4, <2>5, IdlePlanned, Disjoint
    <2>7. QED
      BY <2>1, <2>4, <2>5, <2>6, CountedGoesOn
  <1>2. CASE WriteCount(p)
    <2>1. At(p, "write") /\ Turn(p, After(p)) /\ count' = request[p].counted
          /\ UNCHANGED <<offer, raced, unfound, crashes>>
      BY <1>2 DEF WriteCount, Advance, bounds, history
    <2>2. t \in Writing
      BY <2>1, AtKind
    <2>3. After(p).todo \in Short
      BY <2>2, CountingTails, AfterTerms
    <2>4. PICK s : request' = [request EXCEPT ![p] = s] /\ s.todo = After(p).todo
      BY <2>1, Turns
    <2>5. \A q \in Callers : request'[q] = IF q = p THEN s ELSE request[q]
      BY <2>4 DEF IInv, Requests
    <2>6. s.todo \notin Writing
      BY <2>3, <2>4, Disjoint
    <2>7. QED
      BY <2>1, <2>2, <2>5, <2>6 DEF Counted
  <1>3. CASE SaveHidden(p)
    <2>1. At(p, "hidden") /\ Turn(p, After(p)) /\ Uncounted
      BY <1>3 DEF SaveHidden, Advance, bounds, Uncounted
    <2>2. t \in Counting /\ Head(t) = "hidden"
      BY <2>1, AtKind DEF Counting
    <2>3. After(p).todo \in Counting
      BY <2>2, CountingTails, AfterTerms
    <2>4. PICK s : request' = [request EXCEPT ![p] = s] /\ s.todo = After(p).todo
      BY <2>1, Turns
    <2>5. s.todo \in Counting /\ s.todo \notin Writing
      BY <2>3, <2>4, Disjoint
    <2>6. QED
      BY <2>1, <2>4, <2>5, CountedGoesOn
  <1>4. QED
    BY <1>1, <1>2, <1>3

\* The job that ends offers: it counts next what it has found.
LEMMA ExpireCounted ==
  ASSUME IInv, Plan, Counted, NEW p \in Callers, ExpireEnded(p)
  PROVE  Counted'
  <1> DEFINE a == After(p)
  <1>1. /\ request[p].todo \in Expiring /\ a.todo \in {<<>>, <<"count", "write">>}
        /\ \/ /\ Turn(p, a) /\ NoteRace(p)
              /\ unfound \/ a.todo = <<>> => unfound'
           \/ /\ Turn(p, a) \/ Turn(p, Idle)
              /\ UNCHANGED <<offer, raced, unfound>>
        /\ UNCHANGED <<count, crashes>>
    BY ExpireEndedTerms
  <1> HIDE DEF a
  <1>2. <<"count", "write">> \in Counting /\ <<>> \in Short /\ Idle.todo \in Short
    BY KnownTodos, IdlePlanned DEF Short
  <1>3. request[p].todo \notin Counting \cup Writing /\ a.todo \notin Writing
        /\ Idle.todo \notin Writing
    BY <1>1, <1>2, Disjoint
  <1>4. CASE UNCHANGED <<offer, raced, unfound>> /\ (Turn(p, a) \/ Turn(p, Idle))
    <2>1. PICK s : request' = [request EXCEPT ![p] = s] /\ s.todo \in {a.todo, Idle.todo}
      BY <1>4, Turns
    <2>2. Uncounted
      BY <1>1, <1>4 DEF Uncounted
    <2>3. QED
      BY <1>3, <2>1, <2>2, CountedGoesOn
  <1>5. CASE Turn(p, a) /\ NoteRace(p) /\ (unfound \/ a.todo = <<>> => unfound')
    <2>1. CASE a.todo = <<>>
      BY <1>5, <2>1 DEF Counted
    <2>2. CASE a.todo = <<"count", "write">>
      <3>1. PICK s : request' = [request EXCEPT ![p] = s] /\ s.todo = a.todo
        BY <1>5, Turns
      <3>2. QED
        BY <1>1, <1>2, <1>5, <2>2, <3>1, CountedAgain
    <2>3. QED
      BY <1>1, <2>1, <2>2
  <1>6. QED
    BY <1>1, <1>4, <1>5

\* A request begins.
LEMMA AskCounted ==
  ASSUME IInv, Plan, Counted, NEW p \in Callers, Ask(p)
  PROVE  Counted'
  <1>1. PICK r : Begin(p, r) /\ Fresh(r)
    BY AskFresh DEF FreshBegins
  <1>2. /\ ~Busy(p) /\ request' = [request EXCEPT ![p] = r] /\ Uncounted
    BY <1>1 DEF Begin, docs, Uncounted
  <1>3. request[p].todo \notin Counting \cup Writing
    BY <1>2, CountingTails DEF Busy
  <1>4. r.todo \notin Writing
    BY <1>1 DEF Fresh
  <1>5. QED
    BY <1>2, <1>3, <1>4, CountedGoesOn

\* No step leaves a wrong count that nobody is about to put right.
LEMMA CountedStep ==
  ASSUME IInv, Plan, Counted, [Next]_vars
  PROVE  Counted'
  <1>1. ASSUME NEW p \in Callers, Proceed(p)
        PROVE  Counted'
    <2>1. CASE AdvancingSteps(p)
      <3>1. After(p).todo \notin Writing
        BY <2>1, AdvancingKinds, Disjoint
      <3>2. QED
        BY <2>1, <3>1, AdvancingKinds, CountedTurns
    <2>2. CASE TurningSteps(p)
      <3>1. PICK r : Turn(p, r) /\ r.todo \in Changing \cup Keeping \cup Short
        BY <2>2, TurningKinds
      <3>2. r.todo \notin Writing
        BY <3>1, Disjoint
      <3>3. QED
        BY <2>2, <3>1, <3>2, TurningKinds, CountedTurns
    <2>3. QED
      BY <1>1, <2>1, <2>2, WriteCounted, CreateCounted, RecountCounted, ExpireCounted
         DEF Proceed, AdvancingSteps, TurningSteps
  <1>2. ASSUME NEW p \in Callers, Crash(p)
        PROVE  Counted'
    <2>1. crashes' # 0
      BY <1>2, OfferConstants DEF Crash, IInv, Others
    <2>2. QED
      BY <2>1 DEF Counted
  <1>3. ASSUME OfferStarts \/ OfferEnds \/ (\E c \in Cases : Appeal(c)) \/ UNCHANGED vars
        PROVE  Counted'
    <2>1. offer'.status = offer.status /\ UNCHANGED <<request, count, crashes, raced, unfound>>
      BY <1>3, TimeStep DEF OfferStarts, OfferEnds, Appeal, vars, docs, bounds, history, IInv,
                            Documents, Offer
    <2>2. QED
      BY <2>1 DEF Counted
  <1>4. QED
    BY <1>1, <1>2, <1>3, AskCounted DEF Next

\* Every request has a planned list, always.
LEMMA Planning == Spec => []Plan
  <1>1. Init => Plan
    BY InitPlan
  <1>2. IInv /\ Plan /\ [Next]_vars => Plan'
    BY PlanStep
  <1>3. QED
    BY <1>1, <1>2, Invariant, PTL DEF Spec

\* The business's count of live offers is right whenever nobody is at work, unless
\* a process has died, the offer changed between a count and its write, or the job
\* that ends offers expired one it had not found when it looked.
THEOREM CountFollows == Spec => []CountRightWhenIdle
  <1>1. Init => Counted
    BY InitCounted
  <1>2. IInv /\ Plan /\ Counted /\ [Next]_vars => Counted'
    BY CountedStep
  <1>3. Counted => CountRightWhenIdle
    BY CountedImplies
  <1>4. QED
    BY <1>1, <1>2, <1>3, Invariant, Planning, PTL DEF Spec

-----------------------------------------------------------------------------
(* The checks of the website.                                               *)

\* What a check is to write follows from the one status its filter names.
Rechecks(r) ==
    r.to \in Outcomes /\ r.todo \in Changing \cup Keeping =>
        \E s \in Rechecked :
            /\ r.status = {s}
            /\ s = "possibly_removed" /\ r.to # "absent" =>
                   "status" \in r.fields /\ r.new.status \in Public
            /\ "status" \in r.fields /\ r.new.status = "expiry_review" =>
                   s = "possibly_removed" /\ r.to = "absent"
            /\ "status" \in r.fields /\ r.new.status = "possibly_removed" => r.to = "absent"

\* An offer that a check has missed counts as missed.
Reviewed ==
    /\ offer.status = "possibly_removed" => misses >= 1
    /\ \A p \in Callers : Rechecks(request[p])

\* Nobody checks who has nothing to do.
LEMMA IdleRechecks == Rechecks(Idle)
  BY IdleDecides DEF Rechecks

\* No offer is missed at the start.
LEMMA InitReviewed ==
  ASSUME Init
  PROVE  Reviewed
  <1>1. /\ NoOffer.status = "none" /\ [NoOffer EXCEPT !.status = "active"].status = "active"
        /\ \A future \in BOOLEAN :
              [NoOffer EXCEPT !.status = "draft", !.origin = "merchant",
                              !.managedBy = "merchant", !.future = future].status = "draft"
    BY DEF NoOffer
  <1>2. offer.status # "possibly_removed"
    BY <1>1 DEF Init
  <1>3. QED
    BY <1>2, IdleRechecks DEF Init, Reviewed

\* What of it the steps that leave the offer alone have to show.
LEMMA ReviewedGoesOn ==
  ASSUME IInv, Reviewed, NEW p \in Callers, NEW s, request' = [request EXCEPT ![p] = s],
         Rechecks(s), offer'.status = offer.status, UNCHANGED misses
  PROVE  Reviewed'
  <1>1. \A q \in Callers : request'[q] = IF q = p THEN s ELSE request[q]
    BY DEF IInv, Requests
  <1>2. QED
    BY <1>1 DEF Reviewed, Rechecks

\* The same, when a request goes on or ends.
LEMMA ReviewedTurns ==
  ASSUME IInv, Reviewed, NEW p \in Callers, NEW r, Turn(p, r), Rechecks(r),
         offer'.status = offer.status, UNCHANGED misses
  PROVE  Reviewed'
  BY Turns, IdleRechecks, ReviewedGoesOn

\* A list is of those that write the offer only while it was before.
LEMMA WritesBefore ==
  ASSUME NEW t \in Todos, t # <<>>, Tail(t) \in Changing \cup Keeping
  PROVE  t \in Changing \cup Keeping
  <1>1. t \notin Counting \cup Writing
    BY CountingTails, Disjoint
  <1>2. t \notin Creating
    <2>1. <<"count", "write", "candidate">> \in Counting
      BY DEF Counting
    <2>2. QED
      BY <2>1, ChangingTails, Disjoint
  <1>3. t \notin Short
    BY ShortTails, Disjoint
  <1>4. t \notin Expiring
    <2>1. <<>> \in Short /\ <<"count", "write">> \in Counting
      BY DEF Short, Counting
    <2>2. QED
      BY <2>1, ChangingTails, Disjoint
  <1>5. QED
    BY <1>1, <1>2, <1>3, <1>4 DEF Todos

\* The rest of a check writes what the check would.
LEMMA AfterRechecks ==
  ASSUME IInv, Plan, Reviewed, NEW p \in Callers, Busy(p)
  PROVE  Rechecks(After(p))
  <1>1. request[p].todo \in Todos /\ request[p].todo # <<>> /\ Rechecks(request[p])
    BY DEF Plan, Planned, Busy, Reviewed
  <1>2. QED
    BY <1>1, AfterTerms, WritesBefore DEF Rechecks

\* applyCheck decides what a check writes.
LEMMA CheckRechecks ==
  ASSUME IInv, Reviewed, NEW p \in Callers, ApplyCheck(p)
  PROVE  Reviewed'
  <1>1. offer \in Offer /\ offer' = offer /\ UNCHANGED misses
    BY DEF ApplyCheck, docs, history, IInv, Documents
  <1>2. CASE Turn(p, Idle)
    BY <1>1, <1>2, IdleRechecks, ReviewedTurns
  <1>3. CASE ~Turn(p, Idle)
    <2>1. PICK s : \E open \in BOOLEAN :
             /\ Turn(p, s) /\ s.to = request[p].to
             /\ offer.status \in Rechecked
             /\ s.new = Recheck(offer, request[p].to, open)
             /\ s.status = {offer.status}
             /\ ("status" \in s.fields <=> s.new.status # offer.status)
      BY <1>3, ApplyCheckTerms
    <2>2. PICK open \in BOOLEAN : s.new = Recheck(offer, s.to, open)
      BY <2>1
    <2>3. s.to = "absent" =>
            s.new.status = CASE offer.status \in Public -> "possibly_removed"
                             [] offer.status = "possibly_removed"
                                /\ offer.absent + 1 >= AbsentForReview -> "expiry_review"
                             [] OTHER -> offer.status
      BY <1>1, <2>2 DEF Recheck, Offer
    <2>4. s.to # "absent" =>
            s.new.status = IF offer.status = "expiry_review" THEN offer.status
                           ELSE IF open THEN "revision_pending" ELSE "active"
      BY <1>1, <2>2 DEF Recheck, Offer
    <2>5. Rechecks(s)
      <3>1. CASE s.to = "absent"
        <4>1. s.new.status = "expiry_review" /\ s.new.status # offer.status =>
                offer.status = "possibly_removed"
          BY <2>1, <2>3, <3>1 DEF Rechecked, Public
        <4>2. QED
          BY <2>1, <3>1, <4>1 DEF Rechecks
      <3>2. CASE s.to # "absent"
        BY <2>1, <2>4, <3>2 DEF Rechecks, Rechecked, Public
      <3>3. QED
        BY <3>1, <3>2
    <2>6. QED
      BY <1>1, <2>1, <2>5, ReviewedTurns
  <1>4. QED
    BY <1>2, <1>3

\* So do the steps of others that decide what comes next, none of them for a check.
LEMMA TurningRechecks ==
  ASSUME IInv, Plan, Reviewed, NEW p \in Callers, TurningSteps(p)
  PROVE  Reviewed'
  <1> DEFINE r == request[p]
  <1>1. offer' = offer /\ UNCHANGED misses /\ r \in Request
    BY DEF TurningSteps, ApplyCheck, CloseOrphans, UpsertCase, CountReporters, FindCandidate, SaveAppeal,
           RestoreAppealed, docs, history, IInv, Requests
  <1>2. ASSUME NEW s, Turn(p, s), s.todo \in Short \/ s.to = Idle.to
        PROVE  Reviewed'
    <2>1. Rechecks(s)
      BY <1>2, Disjoint, IdleDecides DEF Rechecks
    <2>2. QED
      BY <1>1, <1>2, <2>1, ReviewedTurns
  <1>3. CASE Turn(p, Idle)
    BY <1>2, <1>3
  <1>4. CASE CloseOrphans(p)
    <2> DEFINE a == After(p)
               todo == IF offer.status \in Closed THEN <<"supersede">> ELSE <<>>
               s == [a EXCEPT !.todo = todo]
    <2>1. Turn(p, s) /\ At(p, "orphans")
      BY <1>4 DEF CloseOrphans
    <2>2. todo \in Short /\ a \in Request
      BY <2>1, AtStep DEF Short
    <2> HIDE DEF a, todo
    <2>3. s.todo = todo
      BY <2>2 DEF Request
    <2>4. QED
      BY <1>2, <2>1, <2>2, <2>3
  <1>5. CASE ~Turn(p, Idle) /\ UpsertCase(p)
    <2>1. PICK c \in Cases : Turn(p, [r EXCEPT !.id = c, !.todo = <<"distinct">>])
      BY <1>5 DEF UpsertCase
    <2>2. [r EXCEPT !.id = c, !.todo = <<"distinct">>].todo = <<"distinct">>
      BY <1>1 DEF Request
    <2>3. <<"distinct">> \in Short
      BY DEF Short
    <2>4. QED
      BY <1>2, <2>1, <2>2, <2>3
  <1>6. CASE ~Turn(p, Idle) /\ SaveAppeal(p)
    <2>1. Turn(p, [r EXCEPT !.todo = <<"restore">>])
      BY <1>6 DEF SaveAppeal
    <2>2. [r EXCEPT !.todo = <<"restore">>].todo = <<"restore">>
      BY <1>1 DEF Request
    <2>3. <<"restore">> \in Short
      BY DEF Short
    <2>4. QED
      BY <1>2, <2>1, <2>2, <2>3
  <1>7. CASE ~Turn(p, Idle) /\ (CountReporters(p) \/ RestoreAppealed(p))
    BY <1>2, <1>7, CountReportersTerms, RestoreAppealedTerms
  <1>8. CASE ~Turn(p, Idle) /\ FindCandidate(p)
    <2>1. PICK s : Turn(p, s) /\ s.todo \in {<<"candidate">>, <<"store">>}
      BY <1>8, FindCandidateTerms
    <2>2. s.todo \in Short
      BY <2>1, KnownTodos
    <2>3. QED
      BY <1>2, <2>1, <2>2
  <1>9. QED
    BY <1>3, <1>4, <1>5, <1>6, <1>7, <1>8, CheckRechecks DEF TurningSteps

\* The write of the offer: a check that sends it to an admin is the second to miss it.
LEMMA WriteReviewed ==
  ASSUME IInv, Plan, Reviewed, NEW p \in Callers, WriteOffer(p)
  PROVE  /\ Reviewed'
         /\ offer'.status = "expiry_review" /\ offer.status # "expiry_review"
                => misses' = AbsentForReview
  <1> DEFINE r == request[p]
             todo == IF Matches(p) THEN Tail(r.todo) ELSE r.else
             w == Written(p, todo)
  <1>1. /\ Turn(p, w) /\ w.todo = todo /\ r.todo \in Changing \cup Keeping
        /\ r.todo \in Changing /\ Matches(p) => todo \in Counting
        /\ r.todo \in Keeping /\ Matches(p) => todo = <<>>
        /\ ~Matches(p) => todo \in Elses
    BY WriteTerms
  <1> HIDE DEF todo, w
  <1>2. Rechecks(w) /\ Rechecks(r)
    <2>1. todo \in Short \cup Counting
      <3>1. <<>> \in Short /\ Elses \subseteq Short \cup Counting
        BY DEF Elses, Short, Counting
      <3>2. QED
        BY <1>1, <3>1
    <2>2. QED
      BY <1>1, <2>1, Disjoint DEF Rechecks, Reviewed
  <1>3. PICK s : request' = [request EXCEPT ![p] = s] /\ Rechecks(s)
    BY <1>1, <1>2, Turns, IdleRechecks
  <1>4. \A q \in Callers : request'[q] = IF q = p THEN s ELSE request[q]
    BY <1>3 DEF IInv, Requests
  <1>5. \A q \in Callers : Rechecks(request'[q])
    BY <1>3, <1>4 DEF Reviewed
  <1>6. misses \in 0 .. 2 /\ AbsentForReview = 2
    BY DEF IInv, Others, AbsentForReview
  <1>7. CASE ~Matches(p)
    <2>1. offer' = offer /\ UNCHANGED misses
      BY <1>7 DEF WriteOffer
    <2>2. QED
      BY <1>1, <1>2, <2>1, ReviewedTurns
  <1>8. CASE Matches(p)
    <2>1. /\ offer'.status = IF "status" \in r.fields THEN r.new.status ELSE offer.status
          /\ offer.status \in r.status
      BY <1>8, Rewritten
    <2>2. misses' = CASE r.to = "absent" /\ misses < AbsentForReview -> misses + 1
                      [] r.to \in {"seen", "changed"} -> 0
                      [] r.to \notin Outcomes /\ Missed(p) -> AbsentForReview
                      [] OTHER -> misses
      BY <1>8 DEF WriteOffer
    <2>3. CASE r.to = "absent"
      <3>1. misses' >= 1 /\ (misses >= 1 => misses' = 2)
        BY <1>6, <2>2, <2>3
      <3>2. offer'.status = "expiry_review" /\ offer.status # "expiry_review"
              => offer.status = "possibly_removed"
        BY <1>1, <1>2, <2>1, <2>3 DEF Rechecks, Outcomes
      <3>3. QED
        BY <1>5, <1>6, <3>1, <3>2 DEF Reviewed, Rechecks
    <2>4. CASE r.to \in {"seen", "changed"}
      <3>1. offer'.status \notin {"possibly_removed"}
            /\ (offer'.status = "expiry_review" => offer.status = "expiry_review")
        BY <1>1, <1>2, <2>1, <2>4 DEF Rechecks, Outcomes, Public
      <3>2. QED
        BY <1>5, <3>1 DEF Reviewed, Rechecks
    <2>5. CASE r.to \notin Outcomes
      <3>1. CASE Missed(p)
        <4>1. misses' = 2
          BY <1>6, <2>2, <2>5, <3>1 DEF Outcomes
        <4>2. QED
          BY <1>5, <1>6, <4>1 DEF Reviewed, Rechecks
      <3>2. CASE ~Missed(p)
        <4>1. misses' = misses
          BY <2>2, <2>5, <3>2 DEF Outcomes
        <4>2. offer'.status \in {"possibly_removed", "expiry_review"} =>
                offer'.status = offer.status
          BY <2>1, <3>2 DEF Missed
        <4>3. QED
          BY <1>5, <4>1, <4>2 DEF Reviewed, Rechecks
      <3>3. QED
        BY <3>1, <3>2
    <2>6. QED
      BY <2>3, <2>4, <2>5 DEF Outcomes
  <1>9. QED
    BY <1>7, <1>8

\* No step sends an offer to review after fewer than two absences.
LEMMA ReviewedStep ==
  ASSUME IInv, Plan, Reviewed, [Next]_vars
  PROVE  /\ Reviewed'
         /\ offer'.status = "expiry_review" /\ offer.status # "expiry_review"
                => misses' = AbsentForReview
  <1>1. ASSUME NEW p \in Callers, Ask(p)
        PROVE  Reviewed' /\ (offer'.status = "expiry_review" => offer.status = "expiry_review")
    <2>1. PICK r : Begin(p, r) /\ Fresh(r)
      BY <1>1, AskFresh DEF FreshBegins
    <2>2. r.to \in Outcomes => r.todo \in Short
      BY <2>1, KnownTodos DEF Fresh, Looking
    <2>3. Rechecks(r)
      BY <2>2, Disjoint DEF Rechecks
    <2>4. /\ request' = [request EXCEPT ![p] = r] /\ offer' = offer /\ UNCHANGED misses
      BY <2>1 DEF Begin, docs
    <2>5. QED
      BY <2>3, <2>4, ReviewedGoesOn
  <1>2. ASSUME NEW p \in Callers, Proceed(p)
        PROVE  /\ Reviewed'
               /\ offer'.status = "expiry_review" /\ offer.status # "expiry_review"
                      => misses' = AbsentForReview
    <2>1. CASE WriteOffer(p)
      BY <2>1, WriteReviewed
    <2>2. CASE CreateOffer(p)
      <3> DEFINE w == Written(p, Tail(request[p].todo))
      <3>1. /\ w.todo = <<"count", "write", "candidate">>
            /\ request[p].new.status \in {"active", "pending"}
            /\ \/ Turn(p, Idle) /\ UNCHANGED offer
               \/ Turn(p, w) /\ offer' = request[p].new
        BY <2>2, CreateTerms
      <3>2. UNCHANGED misses
        BY <2>2 DEF CreateOffer
      <3> HIDE DEF w
      <3>3. w.todo \in Counting
        BY <3>1 DEF Counting
      <3>4. Rechecks(w)
        BY <3>3, Disjoint DEF Rechecks
      <3>5. PICK s : request' = [request EXCEPT ![p] = s] /\ Rechecks(s)
        BY <3>1, <3>4, Turns, IdleRechecks
      <3>6. \A q \in Callers : request'[q] = IF q = p THEN s ELSE request[q]
        BY <3>5 DEF IInv, Requests
      <3>7. offer'.status \in {"active", "pending", offer.status}
        BY <3>1
      <3>8. QED
        BY <3>2, <3>5, <3>6, <3>7 DEF Reviewed, Rechecks
    <2>3. CASE CountActive(p)
      <3> DEFINE a == After(p)
                 s == [a EXCEPT !.counted = One(offer.status)]
      <3>1. a \in Request /\ Turn(p, s) /\ Rechecks(a) /\ offer' = offer /\ UNCHANGED misses
        BY <2>3, AtStep, AfterRechecks DEF CountActive, docs, history
      <3>2. s.todo = a.todo /\ s.to = a.to /\ s.fields = a.fields /\ s.new = a.new
            /\ s.status = a.status
        BY <3>1 DEF Request
      <3> HIDE DEF a, s
      <3>3. Rechecks(s)
        BY <3>1, <3>2 DEF Rechecks
      <3>4. QED
        BY <3>1, <3>3, ReviewedTurns
    <2>4. CASE WriteCount(p) \/ SaveHidden(p)
      <3>1. Busy(p) /\ Turn(p, After(p)) /\ offer' = offer /\ UNCHANGED misses
        BY <2>4 DEF WriteCount, SaveHidden, Advance, history, At
      <3>2. QED
        BY <3>1, AfterRechecks, ReviewedTurns
    <2>5. CASE AdvancingSteps(p)
      <3>1. Busy(p) /\ Turn(p, After(p)) /\ offer' = offer
        BY <2>5, Advances DEF Uncounted
      <3>2. UNCHANGED misses
        BY <2>5 DEF AdvancingSteps, SaveCandidate, StoreCandidate, SaveRevision, Supersede, ProposeRevision,
                    FinishOptOut, FileReport, SaveDecision, CloseReports, history
      <3>3. QED
        BY <3>1, <3>2, AfterRechecks, ReviewedTurns
    <2>6. CASE TurningSteps(p)
      <3>1. offer' = offer
        BY <2>6, TurningKinds DEF Uncounted
      <3>2. QED
        BY <2>6, <3>1, TurningRechecks
    <2>7. CASE ExpireEnded(p)
      <3>1. /\ Busy(p) /\ (Turn(p, After(p)) \/ Turn(p, Idle))
            /\ offer' = offer \/ offer'.status = "expired"
            /\ UNCHANGED misses
        BY <2>7, ExpireEndedTerms
      <3>2. Rechecks(After(p)) /\ Rechecks(Idle)
        BY <3>1, AfterRechecks, IdleRechecks
      <3>3. PICK s : request' = [request EXCEPT ![p] = s] /\ Rechecks(s)
        BY <3>1, <3>2, Turns
      <3>4. \A q \in Callers : request'[q] = IF q = p THEN s ELSE request[q]
        BY <3>3 DEF IInv, Requests
      <3>5. QED
        BY <3>1, <3>3, <3>4 DEF Reviewed, Rechecks
    <2>8. QED
      BY <1>2, <2>1, <2>2, <2>3, <2>4, <2>5, <2>6, <2>7 DEF Proceed, AdvancingSteps, TurningSteps
  <1>3. ASSUME NEW p \in Callers, Crash(p)
        PROVE  Reviewed' /\ offer' = offer
    BY <1>3, IdleRechecks, ReviewedGoesOn DEF Crash, docs, history
  <1>4. ASSUME OfferStarts \/ OfferEnds \/ (\E c \in Cases : Appeal(c)) \/ UNCHANGED vars
        PROVE  Reviewed' /\ offer'.status = offer.status
    <2>1. offer'.status = offer.status /\ UNCHANGED <<request, misses>>
      BY <1>4, TimeStep DEF OfferStarts, OfferEnds, Appeal, vars, docs, history, IInv,
                            Documents, Offer
    <2>2. QED
      BY <2>1 DEF Reviewed, Rechecks
  <1>5. QED
    BY <1>1, <1>2, <1>3, <1>4 DEF Next

\* An offer goes to an admin as gone only after two checks in a row have missed it,
\* or back after a decision, however checks, edits and decisions interleave.
THEOREM ReviewFollowsTwoAbsences == Spec => ReviewAfterTwoAbsences
  <1>1. Init => Reviewed
    BY InitReviewed
  <1>2. IInv /\ Plan /\ Reviewed /\ [Next]_vars =>
            Reviewed' /\ (offer'.status = "expiry_review" /\ offer.status # "expiry_review"
                            => misses' = AbsentForReview)
    BY ReviewedStep
  <1>3. QED
    BY <1>1, <1>2, Invariant, Planning, PTL DEF Spec, ReviewAfterTwoAbsences

-----------------------------------------------------------------------------
(* The lists of those who report an offer, and of those who decide a case.   *)

\* Past the offer's write nobody starts to report; who decides a case had set out to.
LEMMA CountedTails ==
  ASSUME NEW t \in Counting \cup Writing
  PROVE  /\ Tail(t) \in ToDecide => t \in ToDecide
         /\ Tail(t) \notin Hiding \cup Reporting
  <1>1. CASE t = <<"count", "write">>
    <2>1. Tail(t) = <<"write">>
      BY <1>1
    <2>2. QED
      BY <1>1, <2>1 DEF ToDecide, Hiding, Reporting
  <1>2. CASE t = <<"count", "write", "revision">>
    <2>1. Tail(t) = <<"write", "revision">>
      BY <1>2
    <2>2. QED
      BY <1>2, <2>1 DEF ToDecide, Hiding, Reporting
  <1>3. CASE t = <<"count", "write", "decide", "reports">>
    <2>1. Tail(t) = <<"write", "decide", "reports">>
      BY <1>3
    <2>2. QED
      BY <1>3, <2>1 DEF ToDecide, Hiding, Reporting
  <1>4. CASE t = <<"count", "write", "candidate">>
    <2>1. Tail(t) = <<"write", "candidate">>
      BY <1>4
    <2>2. QED
      BY <1>4, <2>1 DEF ToDecide, Hiding, Reporting
  <1>5. CASE t = <<"count", "write", "orphans">>
    <2>1. Tail(t) = <<"write", "orphans">>
      BY <1>5
    <2>2. QED
      BY <1>5, <2>1 DEF ToDecide, Hiding, Reporting
  <1>6. CASE t = <<"count", "write", "supersede", "done">>
    <2>1. Tail(t) = <<"write", "supersede", "done">>
      BY <1>6
    <2>2. QED
      BY <1>6, <2>1 DEF ToDecide, Hiding, Reporting
  <1>7. CASE t = <<"hidden", "count", "write">>
    <2>1. Tail(t) = <<"count", "write">>
      BY <1>7
    <2>2. QED
      BY <1>7, <2>1 DEF ToDecide, Hiding, Reporting
  <1>8. CASE t = <<"write">>
    <2>1. Tail(t) = <<>>
      BY <1>8
    <2>2. QED
      BY <1>8, <2>1 DEF ToDecide, Hiding, Reporting
  <1>9. CASE t = <<"write", "revision">>
    <2>1. Tail(t) = <<"revision">>
      BY <1>9
    <2>2. QED
      BY <1>9, <2>1 DEF ToDecide, Hiding, Reporting
  <1>10. CASE t = <<"write", "decide", "reports">>
    <2>1. Tail(t) = <<"decide", "reports">>
      BY <1>10
    <2>2. QED
      BY <1>10, <2>1 DEF ToDecide, Hiding, Reporting
  <1>11. CASE t = <<"write", "candidate">>
    <2>1. Tail(t) = <<"candidate">>
      BY <1>11
    <2>2. QED
      BY <1>11, <2>1 DEF ToDecide, Hiding, Reporting
  <1>12. CASE t = <<"write", "orphans">>
    <2>1. Tail(t) = <<"orphans">>
      BY <1>12
    <2>2. QED
      BY <1>12, <2>1 DEF ToDecide, Hiding, Reporting
  <1>13. CASE t = <<"write", "supersede", "done">>
    <2>1. Tail(t) = <<"supersede", "done">>
      BY <1>13
    <2>2. QED
      BY <1>13, <2>1 DEF ToDecide, Hiding, Reporting
  <1>14. QED
    BY <1>1, <1>2, <1>3, <1>4, <1>5, <1>6, <1>7, <1>8, <1>9, <1>10, <1>11, <1>12, <1>13
       DEF Counting, Writing

\* Nor before it, but for the one who hides the offer.
LEMMA ChangedTails ==
  ASSUME NEW t \in Changing \cup Keeping \cup Creating \cup Expiring
  PROVE  /\ Tail(t) \in ToDecide => t \in ToDecide
         /\ Tail(t) \in Hiding => t = <<"offer", "hidden", "count", "write">>
         /\ Tail(t) \notin Reporting
  <1>1. CASE t = <<"offer", "count", "write">>
    <2>1. Tail(t) = <<"count", "write">>
      BY <1>1
    <2>2. QED
      BY <1>1, <2>1 DEF ToDecide, Hiding, Reporting
  <1>2. CASE t = <<"offer", "count", "write", "revision">>
    <2>1. Tail(t) = <<"count", "write", "revision">>
      BY <1>2
    <2>2. QED
      BY <1>2, <2>1 DEF ToDecide, Hiding, Reporting
  <1>3. CASE t = <<"offer", "count", "write", "decide", "reports">>
    <2>1. Tail(t) = <<"count", "write", "decide", "reports">>
      BY <1>3
    <2>2. QED
      BY <1>3, <2>1 DEF ToDecide, Hiding, Reporting
  <1>4. CASE t = <<"offer", "count", "write", "orphans">>
    <2>1. Tail(t) = <<"count", "write", "orphans">>
      BY <1>4
    <2>2. QED
      BY <1>4, <2>1 DEF ToDecide, Hiding, Reporting
  <1>5. CASE t = <<"offer", "count", "write", "supersede", "done">>
    <2>1. Tail(t) = <<"count", "write", "supersede", "done">>
      BY <1>5
    <2>2. QED
      BY <1>5, <2>1 DEF ToDecide, Hiding, Reporting
  <1>6. CASE t = <<"offer", "hidden", "count", "write">>
    <2>1. Tail(t) = <<"hidden", "count", "write">>
      BY <1>6
    <2>2. QED
      BY <1>6, <2>1 DEF ToDecide, Hiding, Reporting
  <1>7. CASE t = <<"revision", "offer", "count", "write">>
    <2>1. Tail(t) = <<"offer", "count", "write">>
      BY <1>7
    <2>2. QED
      BY <1>7, <2>1 DEF ToDecide, Hiding, Reporting
  <1>8. CASE t = <<"supersede", "offer", "count", "write">>
    <2>1. Tail(t) = <<"offer", "count", "write">>
      BY <1>8
    <2>2. QED
      BY <1>8, <2>1 DEF ToDecide, Hiding, Reporting
  <1>9. CASE t \in Keeping \cup Creating \cup Expiring
    <2>1. Tail(t) \in {<<>>, <<"offer">>, <<"count", "write">>, <<"count", "write", "candidate">>}
      BY <1>9, ChangingTails
    <2>2. /\ <<>> \notin ToDecide \cup Hiding \cup Reporting
          /\ <<"offer">> \notin ToDecide \cup Hiding \cup Reporting
          /\ <<"count", "write">> \notin ToDecide \cup Hiding \cup Reporting
          /\ <<"count", "write", "candidate">> \notin ToDecide \cup Hiding \cup Reporting
      BY DEF ToDecide, Hiding, Reporting
    <2>3. Tail(t) \notin ToDecide \cup Hiding \cup Reporting
      BY <2>1, <2>2
    <2>4. QED
      BY <2>3
  <1>10. QED
    BY <1>1, <1>2, <1>3, <1>4, <1>5, <1>6, <1>7, <1>8, <1>9 DEF Changing

\* Nor at the end.
LEMMA LastTails ==
  ASSUME NEW t \in Short, t # <<>>
  PROVE  /\ Tail(t) \in ToDecide \cup Hiding => FALSE
         /\ Tail(t) \in Reporting => t \in Reporting
         /\ Head(t) = "decide" => t \in ToDecide
         /\ Head(t) = "case" => t = <<"case">>
         /\ Head(t) = "distinct" => t = <<"distinct">>
  <1>1. CASE t \in {<<"revision">>, <<"candidate">>, <<"orphans">>, <<"supersede">>, <<"done">>,
                    <<"reports">>, <<"decide">>, <<"check">>, <<"case">>, <<"distinct">>,
                    <<"appeal">>, <<"restore">>, <<"find">>, <<"store">>}
    <2>1. PICK a \in Steps : t = <<a>>
      BY <1>1 DEF Steps
    <2>2. Head(t) = a /\ Tail(t) = <<>>
      BY <2>1
    <2>3. QED
      BY <2>1, <2>2 DEF ToDecide, Hiding, Reporting
  <1>2. CASE t \in {<<"supersede", "done">>, <<"decide", "reports">>, <<"propose", "check">>}
    <2>1. PICK a \in {"supersede", "decide", "propose"}, b \in {"done", "reports", "check"} :
             t = <<a, b>>
      BY <1>2
    <2>2. Head(t) = a /\ Tail(t) = <<b>>
      BY <2>1
    <2>3. Head(t) = "decide" => t = <<"decide", "reports">>
      BY <1>2, <2>1, <2>2
    <2>4. QED
      BY <2>1, <2>2, <2>3 DEF ToDecide, Hiding, Reporting
  <1>3. CASE t = <<"report", "case">>
    <2>1. Head(t) = "report" /\ Tail(t) = <<"case">>
      BY <1>3
    <2>2. QED
      BY <1>3, <2>1 DEF ToDecide, Hiding, Reporting
  <1>4. QED
    BY <1>1, <1>2, <1>3 DEF Short

\* Nobody comes to report or to decide who had not set out to.
LEMMA SetOut ==
  ASSUME NEW t \in Todos, t # <<>>
  PROVE  /\ Tail(t) \in ToDecide => t \in ToDecide
         /\ Tail(t) \in Hiding => t = <<"offer", "hidden", "count", "write">>
         /\ Tail(t) \in Reporting => t \in Reporting
  BY CountedTails, ChangedTails, LastTails DEF Todos

\* The lists of others.
LEMMA Otherwise ==
  /\ \A t \in Elses : t \notin ToDecide \cup Hiding \cup Reporting
  /\ <<>> \notin ToDecide \cup Hiding \cup Reporting
  /\ \A t \in Keeping : t \notin ToDecide \cup Hiding \cup Reporting
  /\ \A t \in Counting \cup Changing : t \notin Reporting
  /\ <<"distinct">> \in Hiding \cap Short /\ <<"distinct">> \notin ToDecide \cup Reporting
  /\ <<"offer", "hidden", "count", "write">> \in Hiding \cap Changing
  /\ <<"offer", "hidden", "count", "write">> \notin ToDecide
  /\ <<"hidden", "count", "write">> \in Hiding \cap Counting
  /\ <<"hidden", "count", "write">> \notin ToDecide
  /\ <<"count", "write", "candidate">> \in Counting \ (Hiding \cup ToDecide)
  /\ {<<"restore">>, <<"supersede">>} \subseteq Short \ (Hiding \cup ToDecide \cup Reporting)
  <1>1. \A t \in Counting \cup Changing : t \notin Reporting
    BY KnownTodos, Disjoint
  <1>2. QED
    BY <1>1 DEF Elses, Keeping, Hiding, ToDecide, Reporting, Short, Changing, Counting

-----------------------------------------------------------------------------
(* The cases of an offer that is off the site for its reports.              *)

\* What somebody who reports the offer knows, and that nobody else hides it.
Reporter(r) ==
    /\ r.todo \in Hiding => r.actor = "reports" /\ r.id \in Cases /\ r.before \in Public
    /\ r.todo \in Reporting => r.actor = "reports"
    /\ r.actor = "reports" => r.to \notin Deciding
    /\ Hides(r) => r.todo = <<"offer", "hidden", "count", "write">>

\* Its case is open, and an admin who upholds one that hid the offer has read
\* what the offer was.
Filed(r) ==
    /\ r.actor = "reports" /\ r.id # 0 => r.id \in OpenCases
    /\ \A c \in Cases : Decides(r, c) /\ r.to = "upheld" /\ case[c].autoHidden
            => r.before \in Public

\* An open case that hid the offer: whoever decides it brings the offer back first.
Kept(c) ==
    /\ c \in OpenCases /\ case[c].autoHidden
    /\ \A p \in Callers : Decides(request[p], c) => Lifts(request[p])

\* It has hidden the offer and is about to tell the case.
AtHidden(p) == request[p].todo = <<"hidden", "count", "write">>

\* An offer hidden for its reports is kept, or about to be.
Marked ==
    /\ \A p \in Callers : Reporter(request[p]) /\ Filed(request[p])
    /\ \A c \in Cases : case[c].autoHidden => case[c].before \in Public
    /\ offer.status = "hidden_by_reports" =>
           (\E p \in Callers : AtHidden(p)) \/ (\E c \in Cases : Kept(c))

\* While nobody dies and no case is decided as a report hides the offer.
Hidden == crashes = 0 /\ ~crossed => Marked

\* Nothing is reported at the start.
LEMMA InitHidden ==
  ASSUME Init
  PROVE  Hidden
  <1>1. Idle.todo = <<>> /\ Idle.actor = "none"
    BY DEF Idle
  <1>2. Idle.todo \notin Changing \cup Keeping \cup Hiding \cup ToDecide \cup Reporting
    BY <1>1, IdlePlanned, Disjoint, Otherwise
  <1>3. \A p \in Callers : Reporter(request[p]) /\ Filed(request[p])
    BY <1>1, <1>2 DEF Init, Reporter, Filed, Hides, Decides
  <1>4. \A c \in Cases : ~case[c].autoHidden
    BY DEF Init, NoCase
  <1>5. /\ NoOffer.status = "none" /\ [NoOffer EXCEPT !.status = "active"].status = "active"
        /\ \A future \in BOOLEAN :
              [NoOffer EXCEPT !.status = "draft", !.origin = "merchant",
                              !.managedBy = "merchant", !.future = future].status = "draft"
    BY DEF NoOffer
  <1>6. offer.status # "hidden_by_reports"
    BY <1>5 DEF Init
  <1>7. QED
    BY <1>3, <1>4, <1>6 DEF Hidden, Marked

\* The offer's case is the one that is kept, or is about to be told.
LEMMA HiddenImplies ==
  ASSUME Hidden
  PROVE  HiddenHasCase
  <1>1. ASSUME NEW p \in Callers, AtHidden(p)
        PROVE  At(p, "hidden")
    BY <1>1 DEF AtHidden, At, Busy
  <1>2. QED
    BY <1>1 DEF Hidden, Marked, Kept, HiddenHasCase

\* The cases stay as they were, but for the answers to appeals; none is closed.
SameCases ==
    \A c \in Cases : /\ case'[c].autoHidden = case[c].autoHidden
                     /\ case'[c].before = case[c].before
                     /\ c \in OpenCases => c \in OpenCases'

\* What one request that goes on as s has to show.
Goes(p, s) ==
    /\ request' = [request EXCEPT ![p] = s]
    /\ SameCases
    /\ Reporter(s)
    /\ s.actor = "reports" /\ s.id # 0 => s.id \in OpenCases'
    /\ \A c \in Cases : Decides(s, c) /\ s.to = "upheld" /\ Remembers(c) => s.before \in Public

\* Then every request and case is as it should be.
LEMMA MarkedRequests ==
  ASSUME IInv, Marked, NEW p \in Callers, NEW s, Goes(p, s)
  PROVE  /\ \A q \in Callers : Reporter(request[q])' /\ Filed(request[q])'
         /\ \A c \in Cases : case'[c].autoHidden => case'[c].before \in Public
         /\ \A q \in Callers : request'[q] = IF q = p THEN s ELSE request[q]
  <1>1. \A q \in Callers : request'[q] = IF q = p THEN s ELSE request[q]
    BY DEF Goes, IInv, Requests
  <1>2. \A c \in Cases : case[c].autoHidden => Remembers(c)
    BY DEF Marked, Remembers
  <1>3. \A c \in Cases : case'[c].autoHidden => case'[c].before \in Public
    BY DEF Marked, Goes, SameCases
  <1>4. ASSUME NEW q \in Callers
        PROVE  Reporter(request[q])' /\ Filed(request[q])'
    <2>1. CASE q = p
      <3>1. request'[q] = s
        BY <1>1, <2>1
      <3>2. Reporter(request[q])'
        BY <3>1 DEF Goes, Reporter, Hides
      <3>3. Filed(request[q])'
        BY <1>2, <3>1 DEF Goes, SameCases, Filed, Decides
      <3>4. QED
        BY <3>2, <3>3
    <2>2. CASE q # p
      <3>1. request'[q] = request[q] /\ Reporter(request[q]) /\ Filed(request[q])
        BY <1>1, <2>2 DEF Marked
      <3>2. Reporter(request[q])'
        BY <3>1 DEF Reporter, Hides
      <3>3. \A c \in OpenCases : c \in OpenCases'
        BY DEF Goes, SameCases, OpenCases
      <3>4. Filed(request[q])'
        BY <3>1, <3>3 DEF Goes, SameCases, Filed, Decides
      <3>5. QED
        BY <3>2, <3>4
    <2>3. QED
      BY <2>1, <2>2
  <1>5. QED
    BY <1>1, <1>3, <1>4

\* It neither hides the offer nor is about to tell the case so.
LEMMA MarkedGoesOn ==
  ASSUME IInv, Marked, NEW p \in Callers, NEW s, Goes(p, s), ~AtHidden(p),
         offer'.status = "hidden_by_reports" => offer.status = "hidden_by_reports",
         \A c \in Cases :
             Decides(s, c) /\ offer'.status = "hidden_by_reports" /\ Remembers(c) =>
                 Lifts(s) \/ (Decides(request[p], c) /\ ~Lifts(request[p]))
  PROVE  Marked'
  <1>1. \A q \in Callers : request'[q] = IF q = p THEN s ELSE request[q]
    BY MarkedRequests
  <1>2. ASSUME offer'.status = "hidden_by_reports"
        PROVE  (\E q \in Callers : AtHidden(q)') \/ (\E c \in Cases : Kept(c)')
    <2>1. offer.status = "hidden_by_reports"
      BY <1>2
    <2>2. CASE \E q \in Callers : AtHidden(q)
      BY <1>1, <2>2 DEF AtHidden
    <2>3. ASSUME NEW c \in Cases, Kept(c)
          PROVE  Kept(c)'
      <3>1. Remembers(c) /\ (Decides(request[p], c) => Lifts(request[p]))
        BY <2>3 DEF Kept, Marked, Remembers
      <3>2. Decides(s, c) => Lifts(s)
        BY <1>2, <3>1
      <3>3. c \in OpenCases' /\ case'[c].autoHidden
        BY <2>3 DEF Kept, Goes, SameCases
      <3>4. ASSUME NEW q \in Callers
            PROVE  Decides(request'[q], c) => Lifts(request'[q])
        <4>1. CASE q = p
          BY <1>1, <3>2, <4>1
        <4>2. CASE q # p
          <5>1. request'[q] = request[q]
            BY <1>1, <4>2
          <5>2. QED
            BY <2>3, <5>1 DEF Kept
        <4>3. QED
          BY <4>1, <4>2
      <3>5. \A q \in Callers : Decides(request[q], c)' => Lifts(request[q])'
        BY <3>4 DEF Decides, Lifts
      <3>6. QED
        BY <3>3, <3>5 DEF Kept
    <2>4. QED
      BY <2>1, <2>2, <2>3 DEF Marked
  <1>3. QED
    BY <1>2, MarkedRequests DEF Marked

\* The cases are as they were.
LEMMA CasesKeep ==
  ASSUME UNCHANGED case
  PROVE  SameCases /\ OpenCases' = OpenCases
  BY DEF SameCases, OpenCases

\* Nobody reports or decides who has nothing to do.
LEMMA IdleReports ==
  /\ Idle.todo = <<>> /\ Idle.actor = "none" /\ Reporter(Idle)
  /\ \A c : ~Decides(Idle, c)
  <1>1. Idle.todo = <<>> /\ Idle.actor = "none"
    BY DEF Idle
  <1>2. <<>> \notin Changing \cup Keeping
    BY <1>1, IdlePlanned, Disjoint
  <1>3. QED
    BY <1>1, <1>2, Otherwise DEF Reporter, Hides, Decides

\* A request that neither reports nor decides, or turns to Idle.
LEMMA MarkedTurns ==
  ASSUME IInv, Marked, NEW p \in Callers, NEW r, Turn(p, r), SameCases, ~AtHidden(p),
         offer'.status = "hidden_by_reports" => offer.status = "hidden_by_reports",
         Reporter(r), r.actor = "reports" /\ r.id # 0 => r.id \in OpenCases',
         \A c \in Cases : Decides(r, c) /\ r.to = "upheld" /\ Remembers(c) => r.before \in Public,
         \A c \in Cases : Decides(r, c) /\ offer'.status = "hidden_by_reports" /\ Remembers(c) =>
                 Lifts(r) \/ (Decides(request[p], c) /\ ~Lifts(request[p]))
  PROVE  Marked'
  <1>1. PICK s \in {r, Idle} : request' = [request EXCEPT ![p] = s]
    BY Turns
  <1>2. Goes(p, s)
    BY <1>1, IdleReports DEF Goes
  <1>3. QED
    BY <1>1, <1>2, IdleReports, MarkedGoesOn

\* The next step of a request is done, which wrote neither the offer nor the case.
LEMMA AfterMarked ==
  ASSUME IInv, Plan, Marked, NEW p \in Callers, Busy(p),
         Head(request[p].todo) \notin {"offer", "hidden"},
         NEW r, Turn(p, r), r.todo = Tail(request[p].todo), r.actor = request[p].actor,
         r.id = request[p].id, r.to = request[p].to, r.before = request[p].before,
         r.fields = request[p].fields, r.new = request[p].new,
         SameCases, OpenCases' = OpenCases,
         offer'.status = "hidden_by_reports" => offer.status = "hidden_by_reports"
  PROVE  Marked'
  <1> DEFINE t == request[p].todo
  <1>1. t \in Todos /\ t # <<>> /\ Head(t) \notin {"offer", "hidden"} /\ r.todo = Tail(t)
    BY DEF Plan, Planned, Busy
  <1>2. Reporter(request[p]) /\ Filed(request[p])
    BY DEF Marked
  <1>3. Head(<<"offer", "hidden", "count", "write">>) = "offer"
        /\ Head(<<"hidden", "count", "write">>) = "hidden"
        /\ Head(<<"offer", "count", "write", "decide", "reports">>) = "offer"
    BY HeadOf
  <1>4. ~AtHidden(p) /\ ~Lifts(request[p]) /\ ~Hides(request[p])
    BY <1>1, <1>2, <1>3 DEF AtHidden, Lifts, Reporter
  <1> HIDE DEF t
  <1>5. \A c : Decides(r, c) => Decides(request[p], c)
    BY <1>1, SetOut DEF Decides, t
  <1>6. r.todo \notin Hiding /\ (r.todo \in Reporting => t \in Reporting)
    BY <1>1, <1>3, SetOut
  <1>7. ~Hides(r)
    BY <1>1, <1>4, WritesBefore DEF Hides, t
  <1>8. Reporter(r)
    BY <1>2, <1>6, <1>7 DEF Reporter, t
  <1>9. \A c \in Cases : Decides(r, c) /\ r.to = "upheld" /\ Remembers(c) => r.before \in Public
    BY <1>2, <1>5 DEF Filed, Remembers
  <1>10. r.actor = "reports" /\ r.id # 0 => r.id \in OpenCases'
    BY <1>2 DEF Filed
  <1>11. QED
    BY <1>4, <1>5, <1>8, <1>9, <1>10, MarkedTurns

\* Nobody comes back to life, and no crossing is forgotten.
LEMMA Remembered ==
  ASSUME IInv, [Next]_vars, crashes' = 0, ~crossed'
  PROVE  crashes = 0 /\ ~crossed
  <1>1. ASSUME NEW p \in Callers, Ask(p)
        PROVE  UNCHANGED <<crashes, crossed>>
    BY <1>1, AskFresh DEF FreshBegins, Begin
  <1>2. ASSUME NEW p \in Callers, Proceed(p)
        PROVE  UNCHANGED crashes /\ (crossed => crossed')
    <2>1. CASE SaveHidden(p)
      BY <2>1 DEF SaveHidden, bounds
    <2>2. CASE SaveDecision(p)
      BY <2>2 DEF SaveDecision, bounds
    <2>3. CASE WriteOffer(p) \/ CountActive(p) \/ WriteCount(p) \/ CreateOffer(p)
               \/ SaveCandidate(p) \/ StoreCandidate(p) \/ SaveRevision(p) \/ Supersede(p)
               \/ ProposeRevision(p)
      BY <2>3 DEF WriteOffer, CountActive, WriteCount, CreateOffer, SaveCandidate,
                  StoreCandidate, SaveRevision, Supersede, ProposeRevision, bounds, history
    <2>4. CASE FinishOptOut(p) \/ FileReport(p) \/ CloseReports(p)
      BY <2>4 DEF FinishOptOut, FileReport, CloseReports, bounds, history
    <2>5. CASE ApplyCheck(p) \/ CloseOrphans(p) \/ CountReporters(p) \/ RestoreAppealed(p)
      BY <2>5 DEF ApplyCheck, CloseOrphans, CountReporters, RestoreAppealed, bounds, history
    <2>6. CASE UpsertCase(p)
      BY <2>6, Zenon DEF UpsertCase, bounds, history
    <2>7. CASE SaveAppeal(p)
      BY <2>7 DEF SaveAppeal, bounds, history
    <2>8. CASE ExpireEnded(p) \/ FindCandidate(p)
      BY <2>8 DEF ExpireEnded, FindCandidate, bounds, history
    <2>9. QED
      BY <1>2, <2>1, <2>2, <2>3, <2>4, <2>5, <2>6, <2>7, <2>8 DEF Proceed
  <1>3. ASSUME NEW p \in Callers, Crash(p)
        PROVE  crashes' # 0
    BY <1>3, OfferConstants DEF Crash, IInv, Others
  <1>4. ASSUME OfferStarts \/ OfferEnds \/ (\E c \in Cases : Appeal(c)) \/ UNCHANGED vars
        PROVE  UNCHANGED <<crashes, crossed>>
    BY <1>4 DEF OfferStarts, OfferEnds, Appeal, vars, bounds, history
  <1>5. QED
    BY <1>1, <1>2, <1>3, <1>4 DEF Next

\* A request begins.
LEMMA AskMarked ==
  ASSUME IInv, Marked, NEW p \in Callers, Ask(p)
  PROVE  Marked'
  <1>1. PICK r : Begin(p, r) /\ Fresh(r)
    BY AskFresh DEF FreshBegins
  <1>2. /\ ~Busy(p) /\ request' = [request EXCEPT ![p] = r] /\ UNCHANGED <<offer, case>>
    BY <1>1 DEF Begin, docs
  <1>3. \A c \in Cases : case[c].autoHidden => Remembers(c)
    BY DEF Marked, Remembers
  <1>4. Reporter(r)
    BY <1>1, <1>3 DEF Fresh, Reporter
  <1>5. Decision(r) /\ (r.actor = "reports" => r.id = 0)
    BY <1>1 DEF Fresh
  <1>6. Goes(p, r)
    BY <1>2, <1>4, <1>5, CasesKeep DEF Goes, Decision
  <1>7. \A c \in Cases :
           Decides(r, c) /\ offer'.status = "hidden_by_reports" /\ Remembers(c) =>
               Lifts(r) \/ (Decides(request[p], c) /\ ~Lifts(request[p]))
    BY <1>2, <1>5 DEF Decision
  <1>8. ~AtHidden(p)
    <2>1. request[p].todo = <<>>
      BY <1>2 DEF Busy
    <2>2. <<"hidden", "count", "write">> # <<>>
      OBVIOUS
    <2>3. QED
      BY <2>1, <2>2, Zenon DEF AtHidden
  <1>9. offer'.status = "hidden_by_reports" => offer.status = "hidden_by_reports"
    BY <1>2
  <1>10. QED
    BY <1>6, <1>7, <1>8, <1>9, MarkedGoesOn

\* The write of the offer: what hides it is about to tell the case; what leaves it
\* hidden decides no case.
LEMMA WriteMarked ==
  ASSUME IInv, Plan, Marked, NEW p \in Callers, WriteOffer(p)
  PROVE  Marked'
  <1> DEFINE r == request[p]
             todo == IF Matches(p) THEN Tail(r.todo) ELSE r.else
             w == Written(p, todo)
  <1>1. /\ Turn(p, w) /\ w.todo = todo
        /\ w.actor = r.actor /\ w.to = r.to /\ w.id = r.id /\ w.before = r.before
        /\ r.todo \in Changing \cup Keeping
        /\ ~Matches(p) => todo \in Elses
    BY WriteTerms
  <1>2. UNCHANGED case
    BY DEF WriteOffer
  <1>3. Reporter(r) /\ Filed(r) /\ r \in Request /\ r.todo \in Todos /\ r.todo # <<>>
    BY DEF Marked, IInv, Requests, WriteOffer, At, Busy, Plan, Planned
  <1>4. w.fields = {}
    BY <1>3 DEF Written, Request
  <1>5. ~AtHidden(p)
    BY <1>1, Disjoint, Otherwise DEF AtHidden
  <1> HIDE DEF w, r
  <1>6. \A c : Decides(w, c) => Matches(p) /\ Decides(r, c)
    BY <1>1, <1>3, SetOut, Otherwise DEF Decides
  <1>7. w.todo \in Hiding => r.todo \in Hiding
    BY <1>1, <1>3, SetOut, Otherwise
  <1>8. w.todo \in Reporting => r.todo \in Reporting
    BY <1>1, <1>3, SetOut, Otherwise
  <1>9. Reporter(w)
    BY <1>1, <1>3, <1>4, <1>7, <1>8 DEF Reporter, Hides
  <1>10. w.actor = "reports" /\ w.id # 0 => w.id \in OpenCases'
    BY <1>1, <1>2, <1>3, CasesKeep DEF Filed
  <1>11. \A c \in Cases : Decides(w, c) /\ w.to = "upheld" /\ Remembers(c) => w.before \in Public
    BY <1>1, <1>3, <1>6 DEF Filed, Remembers
  <1>12. CASE ~Matches(p)
    <2>1. UNCHANGED offer
      BY <1>12 DEF WriteOffer
    <2>2. QED
      BY <1>1, <1>2, <1>5, <1>6, <1>9, <1>10, <1>11, <1>12, <2>1, CasesKeep, MarkedTurns
  <1>13. CASE Matches(p) /\ ~Hides(r)
    <2>1. offer'.status = IF "status" \in r.fields THEN r.new.status ELSE offer.status
      BY <1>13, Rewritten DEF r
    <2>2. offer'.status = "hidden_by_reports" =>
            offer.status = "hidden_by_reports" /\ "status" \notin r.fields
      BY <1>1, <1>13, <2>1 DEF Hides
    <2>3. \A c \in Cases : Decides(w, c) /\ offer'.status = "hidden_by_reports" =>
                               Decides(r, c) /\ ~Lifts(r)
      BY <1>6, <2>2 DEF Lifts
    <2>4. QED
      BY <1>1, <1>2, <1>5, <1>9, <1>10, <1>11, <2>2, <2>3, CasesKeep, MarkedTurns DEF r
  <1>14. CASE Matches(p) /\ Hides(r)
    <2>1. r.todo = <<"offer", "hidden", "count", "write">>
      BY <1>3, <1>14 DEF Reporter
    <2>2. w.todo = <<"hidden", "count", "write">>
      BY <1>1, <1>14, <2>1
    <2>3. request' = [request EXCEPT ![p] = w]
      BY <1>1, <2>2, Turns, IdlePlanned, Otherwise, Disjoint
    <2>4. Goes(p, w)
      BY <1>2, <1>9, <1>10, <1>11, <2>3, CasesKeep DEF Goes
    <2>5. /\ \A q \in Callers : Reporter(request[q])' /\ Filed(request[q])'
          /\ \A c \in Cases : case'[c].autoHidden => case'[c].before \in Public
          /\ request'[p] = w
      BY <2>4, MarkedRequests
    <2>6. AtHidden(p)'
      BY <2>2, <2>5 DEF AtHidden
    <2>7. QED
      BY <2>5, <2>6 DEF Marked
  <1>15. QED
    BY <1>12, <1>13, <1>14

\* The creation of the offer.
LEMMA CreateMarked ==
  ASSUME IInv, Plan, Marked, NEW p \in Callers, CreateOffer(p)
  PROVE  Marked'
  <1> DEFINE r == request[p]
             w == Written(p, Tail(r.todo))
  <1>1. /\ w.actor = r.actor /\ w.to = r.to /\ w.id = r.id
        /\ w.todo = <<"count", "write", "candidate">> /\ r.todo \in Creating
        /\ r.new.status \in {"active", "pending"}
        /\ \/ Turn(p, Idle) /\ UNCHANGED offer
           \/ Turn(p, w) /\ offer' = r.new
    BY CreateTerms
  <1>2. UNCHANGED case /\ Reporter(r) /\ Filed(r)
    BY DEF CreateOffer, Marked
  <1>3. ~AtHidden(p)
    BY <1>1, Disjoint, Otherwise DEF AtHidden
  <1> HIDE DEF w
  <1>4. w.todo \in Counting \ (Hiding \cup ToDecide \cup Reporting)
    BY <1>1, Otherwise
  <1>5. Reporter(w) /\ \A c : ~Decides(w, c)
    BY <1>1, <1>2, <1>4, Disjoint DEF Reporter, Hides, Decides
  <1>6. w.actor = "reports" /\ w.id # 0 => w.id \in OpenCases'
    BY <1>1, <1>2, CasesKeep DEF Filed
  <1>7. offer'.status = "hidden_by_reports" => offer.status = "hidden_by_reports"
    BY <1>1
  <1>8. QED
    BY <1>1, <1>2, <1>3, <1>5, <1>6, <1>7, IdleReports, CasesKeep, MarkedTurns

\* The case is told that it hid the offer, and nobody is deciding it.
LEMMA SaveHiddenMarked ==
  ASSUME IInv, Plan, Marked, NEW p \in Callers, SaveHidden(p), ~crossed'
  PROVE  Marked'
  <1> DEFINE r == request[p]
  <1>0. PICK c : c = r.id
    OBVIOUS
  <1>1. /\ At(p, "hidden") /\ Turn(p, After(p)) /\ UNCHANGED offer
        /\ case' = [case EXCEPT ![c].autoHidden = TRUE, ![c].before = r.before]
        /\ \A q \in Callers : request[q].id = c => request[q].to \notin Deciding
    BY <1>0 DEF SaveHidden, Advance
  <1>2. r.todo = <<"hidden", "count", "write">> /\ r.todo \in Hiding
    BY <1>1, AtKind, Otherwise
  <1>3. r.actor = "reports" /\ c \in OpenCases /\ c \in Cases /\ r.before \in Public
    <2>1. Reporter(r) /\ Filed(r)
      BY DEF Marked
    <2>2. r.actor = "reports" /\ c \in Cases /\ r.before \in Public
      BY <1>0, <1>2, <2>1 DEF Reporter
    <2>3. c # 0
      BY <2>2, OfferConstants DEF Cases
    <2>4. QED
      BY <1>0, <2>1, <2>2, <2>3 DEF Filed
  <1>4. /\ \A d \in Cases : case'[d].autoHidden = IF d = c THEN TRUE ELSE case[d].autoHidden
        /\ \A d \in Cases : case'[d].before = IF d = c THEN r.before ELSE case[d].before
        /\ \A d \in Cases : case'[d].status = case[d].status
    BY <1>1, <1>3 DEF IInv, Documents, Case
  <1>5. OpenCases' = OpenCases
    BY <1>4 DEF OpenCases
  <1> DEFINE a == After(p)
  <1>6. a.todo = <<"count", "write">> /\ a.actor = "reports" /\ a.id = c /\ a.to = r.to
    <2>1. Tail(r.todo) = <<"count", "write">>
      BY <1>2
    <2>2. QED
      BY <1>0, <1>3, <2>1, AfterTerms
  <1> HIDE DEF a
  <1>7. request' = [request EXCEPT ![p] = a]
    BY <1>1, <1>6 DEF Turn, a
  <1>8. \A q \in Callers : request'[q] = IF q = p THEN a ELSE request[q]
    BY <1>7 DEF IInv, Requests
  <1>9. a.todo \in Counting \ (Hiding \cup ToDecide \cup Reporting)
    BY <1>6, KnownTodos, Otherwise
  <1>10. Reporter(a)
    <2>1. a.to \notin Deciding
      BY <1>0, <1>1, <1>6
    <2>2. QED
      BY <1>9, <2>1, Disjoint DEF Reporter, Hides
  <1>11. ASSUME NEW q \in Callers
         PROVE  Reporter(request[q])' /\ Filed(request[q])'
    <2>1. CASE q = p
      <3>1. request'[q] = a
        BY <1>8, <2>1
      <3>2. Reporter(request[q])'
        BY <1>10, <3>1 DEF Reporter, Hides
      <3>3. Filed(request[q])'
        BY <1>3, <1>5, <1>6, <1>9, <3>1 DEF Filed, Decides
      <3>4. QED
        BY <3>2, <3>3
    <2>2. CASE q # p
      <3>1. request'[q] = request[q] /\ Reporter(request[q]) /\ Filed(request[q])
        BY <1>8, <2>2 DEF Marked
      <3>2. Reporter(request[q])'
        BY <3>1 DEF Reporter, Hides
      <3>3. \A d \in Cases : Decides(request[q], d) => d # c
        BY <1>1 DEF Decides, Deciding
      <3>4. Filed(request[q])'
        BY <1>4, <1>5, <3>1, <3>3 DEF Filed, Decides
      <3>5. QED
        BY <3>2, <3>4
    <2>3. QED
      BY <2>1, <2>2
  <1>12. \A d \in Cases : case'[d].autoHidden => case'[d].before \in Public
    BY <1>3, <1>4 DEF Marked
  <1>13. Kept(c)'
    <2>1. ASSUME NEW q \in Callers
          PROVE  ~Decides(request[q], c)'
      <3>1. request'[q].id = request[q].id /\ request'[q].to = request[q].to
        BY <1>0, <1>6, <1>8
      <3>2. QED
        BY <1>1, <3>1 DEF Decides, Deciding
    <2>2. QED
      BY <1>3, <1>4, <1>5, <2>1 DEF Kept
  <1>14. QED
    BY <1>3, <1>11, <1>12, <1>13 DEF Marked

\* A case is decided, and nobody is hiding its offer.
LEMMA DecisionMarked ==
  ASSUME IInv, Plan, Marked, NEW p \in Callers, SaveDecision(p), ~crossed'
  PROVE  Marked'
  <1> DEFINE r == request[p]
             c == r.id
             a == After(p)
  <1>1. /\ At(p, "decide") /\ Turn(p, a) /\ UNCHANGED offer
        /\ case' = [case EXCEPT ![c].status = r.to,
                                ![c].before = IF r.to = "upheld" THEN r.before ELSE @]
        /\ \A q \in Callers : request[q].id = c => request[q].actor # "reports"
    BY DEF SaveDecision, Advance
  <1>2. r.todo \in Short /\ r.todo # <<>> /\ Head(r.todo) = "decide"
    BY <1>1, AtKind
  <1>3. r.todo \in ToDecide
    BY <1>2, LastTails
  <1>4. c \in Cases /\ r.to \in Deciding
    BY <1>1, AtStep DEF Allowed, OnCase
  <1>5. Reporter(r) /\ Filed(r)
    BY DEF Marked
  <1>6. /\ \A d \in Cases : case'[d].autoHidden = case[d].autoHidden
        /\ \A d \in Cases : case'[d].before =
                IF d = c /\ r.to = "upheld" THEN r.before ELSE case[d].before
        /\ \A d \in Cases : case'[d].status = IF d = c THEN r.to ELSE case[d].status
    BY <1>1, <1>4 DEF IInv, Documents, Case
  <1>7. \A d \in OpenCases : d # c \/ r.to = "info_requested" => d \in OpenCases'
    BY <1>6 DEF OpenCases, OpenCase
  <1>8. /\ a.todo = Tail(r.todo) /\ a.actor = r.actor /\ a.to = r.to
        /\ a.id = c /\ a.fields = r.fields /\ a.new = r.new /\ a.before = r.before
    BY AfterTerms
  <1> HIDE DEF a
  <1>9. PICK s \in {a, Idle} : request' = [request EXCEPT ![p] = s]
    BY <1>1, Turns
  <1>10. \A q \in Callers : request'[q] = IF q = p THEN s ELSE request[q]
    BY <1>9 DEF IInv, Requests
  <1> HIDE DEF c
  <1>11. a.todo \in Short \ (ToDecide \cup Hiding)
    BY <1>2, <1>8, LastTails, ShortTails
  <1>12. a.todo \notin Reporting
    <2>1. r.todo \notin Reporting
      BY <1>2, HeadOf DEF Reporting
    <2>2. QED
      BY <1>2, <1>8, <2>1, LastTails
  <1>13. Reporter(s) /\ \A d : ~Decides(s, d)
    <2>1. CASE s = a
      BY <1>5, <1>8, <1>11, <1>12, <2>1, Disjoint DEF Reporter, Hides, Decides
    <2>2. CASE s = Idle
      BY <2>2, IdleReports
    <2>3. QED
      BY <1>9, <2>1, <2>2
  <1>14. s.actor # "reports"
    BY <1>1, <1>8, <1>9, IdleReports DEF c
  <1>15. ASSUME NEW q \in Callers
         PROVE  Reporter(request[q])' /\ Filed(request[q])'
    <2>1. CASE q = p
      <3>1. request'[q] = s
        BY <1>10, <2>1
      <3>2. Reporter(request[q])'
        BY <1>13, <3>1 DEF Reporter, Hides
      <3>3. Filed(request[q])'
        BY <1>13, <1>14, <3>1 DEF Filed, Decides
      <3>4. QED
        BY <3>2, <3>3
    <2>2. CASE q # p
      <3>1. request'[q] = request[q] /\ Reporter(request[q]) /\ Filed(request[q])
        BY <1>10, <2>2 DEF Marked
      <3>2. Reporter(request[q])'
        BY <3>1 DEF Reporter, Hides
      <3>3. request[q].actor = "reports" => request[q].id # c
        BY <1>1
      <3>4. Filed(request[q])'
        BY <1>6, <1>7, <3>1, <3>3 DEF Filed, Decides
      <3>5. QED
        BY <3>2, <3>4
    <2>3. QED
      BY <2>1, <2>2
  <1>16. ASSUME NEW d \in Cases, case'[d].autoHidden
         PROVE  case'[d].before \in Public
    <2>1. CASE d = c /\ r.to = "upheld"
      <3>1. Decides(r, c)
        BY <1>3, <2>1 DEF Decides, c
      <3>2. QED
        BY <1>5, <1>6, <1>16, <2>1, <3>1 DEF Filed
    <2>2. CASE ~(d = c /\ r.to = "upheld")
      BY <1>6, <1>16, <2>2 DEF Marked
    <2>3. QED
      BY <2>1, <2>2
  <1>17. ASSUME offer'.status = "hidden_by_reports"
         PROVE  (\E q \in Callers : AtHidden(q)') \/ (\E d \in Cases : Kept(d)')
    <2>1. offer.status = "hidden_by_reports"
      BY <1>1, <1>17
    <2>2. ~AtHidden(p)
      BY <1>2, Disjoint, Otherwise DEF AtHidden
    <2>3. CASE \E q \in Callers : AtHidden(q)
      BY <1>10, <2>2, <2>3 DEF AtHidden
    <2>4. ASSUME NEW d \in Cases, Kept(d)
          PROVE  Kept(d)'
      <3>1. ~Lifts(r)
        BY <1>2, HeadOf DEF Lifts
      <3>2. d = c => r.to = "info_requested"
        BY <1>3, <1>4, <2>4, <3>1 DEF Kept, Decides, Deciding, c
      <3>3. d \in OpenCases' /\ case'[d].autoHidden
        BY <1>6, <1>7, <2>4, <3>2 DEF Kept
      <3>4. ASSUME NEW q \in Callers
            PROVE  Decides(request[q], d)' => Lifts(request[q])'
        <4>1. CASE q = p
          BY <1>10, <1>13, <4>1 DEF Decides
        <4>2. CASE q # p
          BY <1>10, <2>4, <4>2 DEF Kept, Decides, Lifts
        <4>3. QED
          BY <4>1, <4>2
      <3>5. QED
        BY <3>3, <3>4 DEF Kept
    <2>5. QED
      BY <2>1, <2>3, <2>4 DEF Marked
  <1>18. QED
    BY <1>15, <1>16, <1>17 DEF Marked

\* A request turns to r, which neither reports nor decides nor hides the offer.
LEMMA MarkedQuietly ==
  ASSUME IInv, Marked, NEW p \in Callers, NEW r, Turn(p, r), UNCHANGED <<offer, case>>,
         ~AtHidden(p), r.todo \notin Hiding \cup ToDecide \cup Reporting, ~Hides(r),
         \/ r.actor # "reports"
         \/ r.actor = request[p].actor /\ r.id = request[p].id /\ r.to = request[p].to
  PROVE  Marked'
  <1>1. Reporter(request[p]) /\ Filed(request[p])
    BY DEF Marked
  <1>2. Reporter(r)
    BY <1>1 DEF Reporter
  <1>3. r.actor = "reports" /\ r.id # 0 => r.id \in OpenCases'
    BY <1>1, CasesKeep DEF Filed
  <1>4. \A c : ~Decides(r, c)
    BY DEF Decides
  <1>5. SameCases
    BY CasesKeep
  <1>6. offer'.status = "hidden_by_reports" => offer.status = "hidden_by_reports"
    OBVIOUS
  <1>7. QED
    BY <1>2, <1>3, <1>4, <1>5, <1>6, MarkedTurns

\* A check hides nothing for its reports.
LEMMA CheckMarked ==
  ASSUME IInv, Marked, NEW p \in Callers, ApplyCheck(p), ~Turn(p, Idle), ~AtHidden(p)
  PROVE  Marked'
  <1>1. PICK r : \E open \in BOOLEAN :
             /\ Turn(p, r)
             /\ r.actor = request[p].actor /\ r.to = request[p].to /\ r.id = request[p].id
             /\ offer.status \in Rechecked
             /\ r.new = Recheck(offer, request[p].to, open)
             /\ IF r.new.status # offer.status
                THEN r.todo \in {<<"offer", "count", "write">>,
                                 <<"supersede", "offer", "count", "write">>}
                ELSE r.todo \in Keeping
    BY ApplyCheckTerms
  <1>2. offer \in Offer /\ UNCHANGED <<offer, case>>
    BY DEF ApplyCheck, docs, IInv, Documents
  <1>3. r.new.status \in Rechecked
    BY <1>1, <1>2 DEF Recheck, Offer, Rechecked, Public
  <1>4. ~Hides(r)
    BY <1>3 DEF Hides, Rechecked, Public
  <1>5. r.todo \notin Hiding \cup ToDecide \cup Reporting
    <2>1. CASE r.todo \in Keeping
      BY <2>1, Otherwise
    <2>2. CASE r.todo \in {<<"offer", "count", "write">>,
                           <<"supersede", "offer", "count", "write">>}
      BY <2>2, KnownTodos, Otherwise
    <2>3. QED
      BY <1>1, <2>1, <2>2
  <1>6. QED
    BY <1>1, <1>2, <1>4, <1>5, MarkedQuietly

\* The case is opened, or found, by somebody who may have to hide the offer.
LEMMA UpsertMarked ==
  ASSUME IInv, Plan, Marked, NEW p \in Callers, UpsertCase(p), ~AtHidden(p)
  PROVE  Marked'
  <1> DEFINE r == request[p]
  <1>1. At(p, "case") /\ UNCHANGED offer
    BY DEF UpsertCase
  <1>2. PICK c \in Cases :
          /\ IF OpenCases # {} THEN c \in OpenCases ELSE case[c].status = "none"
          /\ case' = IF OpenCases # {} THEN case ELSE [case EXCEPT ![c].status = "open"]
          /\ Turn(p, IF case[c].autoHidden \/ r.before \notin Public THEN Idle
                     ELSE [r EXCEPT !.id = c, !.todo = <<"distinct">>])
    BY DEF UpsertCase
  <1>3. SameCases /\ c \in OpenCases'
    <2>1. CASE OpenCases # {}
      BY <1>2, <2>1, CasesKeep
    <2>2. CASE OpenCases = {}
      <3>1. \A d \in Cases : /\ case'[d].autoHidden = case[d].autoHidden
                             /\ case'[d].before = case[d].before
                             /\ d = c => case'[d].status = "open"
        BY <1>2, <2>2 DEF IInv, Documents, Case
      <3>2. QED
        BY <2>2, <3>1 DEF SameCases, OpenCases, OpenCase
    <2>3. QED
      BY <2>1, <2>2
  <1>4. CASE case[c].autoHidden \/ r.before \notin Public
    BY <1>1, <1>2, <1>3, <1>4, IdleReports, MarkedTurns
  <1>5. CASE ~case[c].autoHidden /\ r.before \in Public
    <2> DEFINE s == [r EXCEPT !.id = c, !.todo = <<"distinct">>]
    <2>1. r \in Request /\ Turn(p, s)
      BY <1>2, <1>5 DEF IInv, Requests
    <2>2. s.todo = <<"distinct">> /\ s.actor = r.actor /\ s.id = c /\ s.before = r.before
          /\ s.to = r.to
      BY <2>1 DEF Request
    <2> HIDE DEF s
    <2>3. r.todo \in Reporting
      <3>1. r.todo = <<"case">>
        BY <1>1, AtKind, LastTails
      <3>2. QED
        BY <3>1 DEF Reporting
    <2>4. r.actor = "reports" /\ r.to \notin Deciding
      BY <2>3 DEF Marked, Reporter
    <2>5. s.todo \in Short \ (ToDecide \cup Reporting)
      BY <2>2, Otherwise
    <2>6. Reporter(s) /\ \A d : ~Decides(s, d)
      BY <1>5, <2>2, <2>4, <2>5, Disjoint DEF Reporter, Hides, Decides
    <2>7. QED
      BY <1>1, <1>3, <2>1, <2>2, <2>6, MarkedTurns
  <1>6. QED
    BY <1>4, <1>5

\* The steps that decide what comes next.
LEMMA TurningMarked ==
  ASSUME IInv, Plan, Marked, NEW p \in Callers, TurningSteps(p)
  PROVE  Marked'
  <1> DEFINE r == request[p]
  <1>1. UNCHANGED offer /\ r.todo \in Short /\ r \in Request /\ Reporter(r)
    BY TurningKinds DEF Uncounted, IInv, Requests, Marked
  <1>2. ~AtHidden(p)
    BY <1>1, Disjoint, Otherwise DEF AtHidden
  <1>3. CASE UpsertCase(p)
    BY <1>2, <1>3, UpsertMarked
  <1>4. CASE SaveAppeal(p)
    <2>1. \A c \in Cases : /\ case'[c].autoHidden = case[c].autoHidden
                           /\ case'[c].before = case[c].before
                           /\ case'[c].status = case[c].status
      BY <1>4 DEF SaveAppeal, IInv, Documents, Case
    <2>2. SameCases /\ OpenCases' = OpenCases
      BY <2>1 DEF SameCases, OpenCases
    <2>3. CASE Turn(p, Idle)
      BY <1>1, <1>2, <2>2, <2>3, IdleReports, MarkedTurns
    <2>4. CASE ~Turn(p, Idle)
      <3> DEFINE s == [r EXCEPT !.todo = <<"restore">>]
      <3>1. Turn(p, s)
        BY <1>4, <2>4 DEF SaveAppeal
      <3>2. s.todo = <<"restore">> /\ s.actor = r.actor /\ s.id = r.id /\ s.to = r.to
        BY <1>1 DEF Request
      <3> HIDE DEF s
      <3>3. s.todo \in Short \ (Hiding \cup ToDecide \cup Reporting)
        BY <3>2, Otherwise
      <3>4. Reporter(s) /\ \A c : ~Decides(s, c)
        BY <1>1, <3>2, <3>3, Disjoint DEF Reporter, Hides, Decides
      <3>5. s.actor = "reports" /\ s.id # 0 => s.id \in OpenCases'
        BY <2>2, <3>2 DEF Marked, Filed
      <3>6. QED
        BY <1>1, <1>2, <2>2, <3>1, <3>4, <3>5, MarkedTurns
    <2>5. QED
      BY <2>3, <2>4
  <1>5. CASE ~UpsertCase(p) /\ ~SaveAppeal(p)
    <2>1. UNCHANGED <<offer, case>>
      BY <1>5 DEF TurningSteps, ApplyCheck, CloseOrphans, CountReporters, FindCandidate, RestoreAppealed, docs
    <2>2. CASE Turn(p, Idle)
      BY <1>2, <2>1, <2>2, CasesKeep, IdleReports, MarkedTurns
    <2>3. CASE ~Turn(p, Idle) /\ ApplyCheck(p)
      BY <1>2, <2>3, CheckMarked
    <2>4. CASE CloseOrphans(p)
      <3> DEFINE a == After(p)
                 todo == IF offer.status \in Closed THEN <<"supersede">> ELSE <<>>
                 s == [a EXCEPT !.todo = todo]
      <3>1. Turn(p, s) /\ At(p, "orphans")
        BY <2>4 DEF CloseOrphans
      <3>2. a \in Request /\ a.actor = r.actor /\ a.id = r.id /\ a.to = r.to
        BY <3>1, AtStep, AfterTerms
      <3>3. todo \in Short \ (Hiding \cup ToDecide \cup Reporting)
        BY Otherwise DEF Short
      <3> HIDE DEF a, todo
      <3>4. s.todo = todo /\ s.actor = r.actor /\ s.id = r.id /\ s.to = r.to
        BY <3>2 DEF Request
      <3> HIDE DEF s
      <3>5. ~Hides(s)
        BY <3>3, <3>4, Disjoint DEF Hides
      <3>6. QED
        BY <1>2, <2>1, <3>1, <3>3, <3>4, <3>5, MarkedQuietly
    <2>5. CASE ~Turn(p, Idle) /\ CountReporters(p)
      <3>1. PICK s : /\ Turn(p, s) /\ s.todo = <<"offer", "hidden", "count", "write">>
                     /\ s.actor = "reports" /\ s.to = Idle.to /\ s.id = r.id
                     /\ s.before = r.before
        BY <2>5, CountReportersTerms
      <3>2. r.todo = <<"distinct">>
        BY <1>1, <2>5, AtKind, LastTails DEF CountReporters
      <3>3. r.actor = "reports" /\ r.id \in Cases /\ r.before \in Public
        BY <1>1, <3>2, Otherwise DEF Reporter
      <3>4. s.todo \in Changing \ (ToDecide \cup Reporting)
        BY <3>1, Otherwise
      <3>5. Reporter(s) /\ \A c : ~Decides(s, c)
        BY <3>1, <3>3, <3>4, IdleDecides DEF Reporter, Decides
      <3>6. s.actor = "reports" /\ s.id # 0 => s.id \in OpenCases'
        BY <2>1, <3>1, <3>3, CasesKeep DEF Marked, Filed
      <3>7. QED
        BY <1>2, <2>1, <3>1, <3>5, <3>6, CasesKeep, MarkedTurns
    <2>6. CASE ~Turn(p, Idle) /\ RestoreAppealed(p)
      <3>1. PICK s : /\ Turn(p, s) /\ s.todo = <<"offer", "count", "write">>
                     /\ s.actor = "admin" /\ s.new.status # "hidden_by_reports"
        BY <2>6, RestoreAppealedTerms
      <3>2. s.todo \notin Hiding \cup ToDecide \cup Reporting /\ ~Hides(s)
        BY <3>1, KnownTodos, Otherwise DEF Hides
      <3>3. QED
        BY <1>2, <2>1, <3>1, <3>2, MarkedQuietly
    <2>7. CASE ~Turn(p, Idle) /\ FindCandidate(p)
      <3>1. PICK s : /\ Turn(p, s) /\ s.todo \in {<<"candidate">>, <<"store">>}
                     /\ s.actor = r.actor /\ s.id = r.id /\ s.to \in {"open", "failed"}
        BY <2>7, FindCandidateTerms
      <3>2. s.todo \in Short \ (Hiding \cup ToDecide \cup Reporting)
        BY <3>1, KnownTodos
      <3>3. Reporter(s) /\ \A c : ~Decides(s, c)
        BY <3>1, <3>2, Disjoint DEF Reporter, Hides, Decides, Deciding
      <3>4. s.actor = "reports" /\ s.id # 0 => s.id \in OpenCases'
        BY <2>1, <3>1, CasesKeep DEF Marked, Filed
      <3>5. QED
        BY <1>2, <2>1, <3>1, <3>3, <3>4, CasesKeep, MarkedTurns
    <2>8. QED
      BY <1>5, <2>2, <2>3, <2>4, <2>5, <2>6, <2>7 DEF TurningSteps
  <1>6. QED
    BY <1>3, <1>4, <1>5

\* The steps of requests.
LEMMA ProceedMarked ==
  ASSUME IInv, Plan, Marked, NEW p \in Callers, Proceed(p), ~crossed'
  PROVE  Marked'
  <1>1. ASSUME NEW step \in {"count", "write"}, At(p, step), NEW counted, UNCHANGED <<offer, case>>,
               Turn(p, After(p)) \/ Turn(p, [After(p) EXCEPT !.counted = counted])
        PROVE  Marked'
    <2>1. Busy(p) /\ Head(request[p].todo) \notin {"offer", "hidden"}
      BY <1>1 DEF At
    <2> DEFINE a == After(p)
               s == [a EXCEPT !.counted = counted]
    <2>2. /\ a \in Request /\ a.todo = Tail(request[p].todo) /\ a.actor = request[p].actor
          /\ a.id = request[p].id /\ a.to = request[p].to /\ a.before = request[p].before
          /\ a.fields = request[p].fields /\ a.new = request[p].new
      BY <1>1, AtStep, AfterTerms
    <2>3. offer'.status = offer.status /\ SameCases /\ OpenCases' = OpenCases
      BY <1>1, CasesKeep
    <2> HIDE DEF a
    <2>4. /\ s.todo = a.todo /\ s.actor = a.actor /\ s.id = a.id /\ s.to = a.to
          /\ s.before = a.before /\ s.fields = a.fields /\ s.new = a.new
      BY <2>2 DEF Request
    <2>5. Turn(p, a) \/ Turn(p, s)
      BY <1>1 DEF a
    <2> HIDE DEF s
    <2>6. QED
      BY <2>1, <2>2, <2>3, <2>4, <2>5, AfterMarked
  <1>2. CASE CountActive(p)
    BY <1>1, <1>2 DEF CountActive, docs
  <1>3. CASE WriteCount(p)
    BY <1>1, <1>3 DEF WriteCount, Advance
  <1>4. CASE AdvancingSteps(p) /\ ~SaveDecision(p)
    <2>1. Turn(p, After(p)) /\ Busy(p) /\ UNCHANGED offer
          /\ Head(request[p].todo) \notin {"offer", "hidden"}
      BY <1>4, Advances DEF Uncounted, At
    <2>2. UNCHANGED case
      BY <1>4 DEF AdvancingSteps, SaveCandidate, StoreCandidate, SaveRevision, Supersede, ProposeRevision,
                  FinishOptOut, FileReport, CloseReports
    <2>3. offer'.status = offer.status /\ SameCases /\ OpenCases' = OpenCases
      BY <2>1, <2>2, CasesKeep
    <2>4. QED
      BY <2>1, <2>3, AfterTerms, AfterMarked
  <1>5. CASE ExpireEnded(p)
    <2>1. /\ request[p].todo \in Expiring /\ Head(request[p].todo) = "expire" /\ Busy(p)
          /\ (Turn(p, After(p)) \/ Turn(p, Idle))
          /\ offer' = offer \/ offer'.status = "expired"
          /\ UNCHANGED case
      BY <1>5, ExpireEndedTerms
    <2>2. offer'.status = "hidden_by_reports" => offer.status = "hidden_by_reports"
      BY <2>1
    <2>3. SameCases /\ OpenCases' = OpenCases
      BY <2>1, CasesKeep
    <2>4. ~AtHidden(p)
      BY <2>1, Disjoint, Otherwise DEF AtHidden
    <2>5. CASE Turn(p, Idle)
      BY <2>2, <2>3, <2>4, <2>5, IdleReports, MarkedTurns
    <2>6. CASE Turn(p, After(p))
      BY <2>1, <2>2, <2>3, <2>6, AfterTerms, AfterMarked
    <2>7. QED
      BY <2>1, <2>5, <2>6
  <1>6. QED
    BY <1>2, <1>3, <1>4, <1>5, WriteMarked, CreateMarked, SaveHiddenMarked, DecisionMarked,
       TurningMarked DEF Proceed, AdvancingSteps, TurningSteps

\* No step leaves an offer hidden without a case.
LEMMA HiddenStep ==
  ASSUME IInv, Plan, Hidden, [Next]_vars
  PROVE  Hidden'
  <1>1. SUFFICES ASSUME crashes' = 0, ~crossed'
                 PROVE  Marked'
    BY DEF Hidden
  <1>2. Marked
    BY <1>1, Remembered DEF Hidden
  <1>3. ASSUME NEW p \in Callers, Crash(p)
        PROVE  FALSE
    BY <1>1, <1>3, OfferConstants DEF Crash, IInv, Others
  <1>4. ASSUME OfferStarts \/ OfferEnds \/ UNCHANGED vars \/ (\E c \in Cases : Appeal(c))
        PROVE  Marked'
    <2>1. offer'.status = offer.status /\ UNCHANGED request
      BY <1>4, TimeStep DEF OfferStarts, OfferEnds, Appeal, vars, docs, IInv, Documents, Offer
    <2>2. \A c \in Cases : /\ case'[c].autoHidden = case[c].autoHidden
                           /\ case'[c].before = case[c].before
                           /\ case'[c].status = case[c].status
      <3>1. CASE UNCHANGED case
        BY <3>1
      <3>2. ASSUME NEW c \in Cases, Appeal(c)
            PROVE  \A d \in Cases : /\ case'[d].autoHidden = case[d].autoHidden
                                    /\ case'[d].before = case[d].before
                                    /\ case'[d].status = case[d].status
        BY <3>2 DEF Appeal, IInv, Documents, Case
      <3>3. QED
        BY <1>4, <3>1, <3>2 DEF OfferStarts, OfferEnds, vars, docs
    <2>3. OpenCases' = OpenCases
      BY <2>2 DEF OpenCases
    <2>4. \A p \in Callers : Reporter(request[p])' /\ Filed(request[p])'
      BY <1>2, <2>1, <2>2, <2>3 DEF Marked, Reporter, Filed, Hides, Decides
    <2>5. \A c \in Cases : Kept(c) => Kept(c)'
      BY <2>1, <2>2, <2>3 DEF Kept, Decides, Lifts
    <2>6. QED
      BY <1>2, <2>1, <2>2, <2>4, <2>5 DEF Marked, AtHidden
  <1>5. QED
    BY <1>1, <1>2, <1>3, <1>4, AskMarked, ProceedMarked DEF Next

\* An offer off the site for its reports has an open case that knows it, or is
\* about to, unless a process has died or a case was decided as a report hid it.
THEOREM HiddenIsOnCase == Spec => []HiddenHasCase
  <1>1. Init => Hidden
    BY InitHidden
  <1>2. IInv /\ Plan /\ Hidden /\ [Next]_vars => Hidden'
    BY HiddenStep
  <1>3. Hidden => HiddenHasCase
    BY HiddenImplies
  <1>4. QED
    BY <1>1, <1>2, <1>3, Invariant, Planning, PTL DEF Spec
=============================================================================
