-------------------------- MODULE NgSession_proofs --------------------------
(***************************************************************************)
(* Theorems about NgSession, for any number of sessions and connections    *)
(* and any caps: the type invariant, and that no session is ever left with *)
(* a connection whose task has ended.                                      *)
(*                                                                         *)
(* Neither is inductive alone.  What a resume replays is a sequence of     *)
(* seqs only because the buffer is gapless (BufferInv), and whoever is in  *)
(* a sink attends to it only because channel and sink agree on each other  *)
(* and a lagged holder knows it (HolderInv).  CoreInv holds all of them.   *)
(*                                                                         *)
(* The lemmas come first that take RosterInv, the part of the invariant    *)
(* about the sessions, their channels and who holds them, through each of  *)
(* the roster's critical sections.                                         *)
(***************************************************************************)
EXTENDS NgSessionInv, FiniteSetTheorems, SequenceTheorems, TLAPS

-----------------------------------------------------------------------------
(* Queues of consecutive seqs.                                             *)

\* Run(from, n) is the n seqs that follow from - 1.
LEMMA RunFacts ==
  ASSUME NEW from \in Nat, NEW n \in Nat
  PROVE  /\ Run(from, n) \in Seq(Nat)
         /\ Len(Run(from, n)) = n
         /\ \A i \in 1..n : Run(from, n)[i] = from + i - 1
  BY DEF Run

\* Pushing the next n events keeps a queue consecutive.
LEMMA ConsecutiveRun ==
  ASSUME NEW q \in Seq(Nat), NEW a \in Nat, Consecutive(q, a),
         NEW from \in Nat, from = a + Len(q) + 1, NEW n \in Nat
  PROVE  /\ q \o Run(from, n) \in Seq(Nat)
         /\ Len(q \o Run(from, n)) = Len(q) + n
         /\ Consecutive(q \o Run(from, n), a)
<1>1. /\ Run(from, n) \in Seq(Nat)
      /\ Len(Run(from, n)) = n
      /\ \A i \in 1..n : Run(from, n)[i] = from + i - 1
  BY RunFacts
<1> DEFINE r == Run(from, n)
<1> HIDE DEF r
<1>2. /\ q \o r \in Seq(Nat)
      /\ Len(q \o r) = Len(q) + n
      /\ \A i \in 1..(Len(q) + n) :
           (q \o r)[i] = IF i <= Len(q) THEN q[i] ELSE r[i - Len(q)]
  <2>1. r \in Seq(Nat) /\ Len(r) = n
    BY <1>1 DEF r
  <2>2. q \o r \in Seq(Nat)
    BY <2>1
  <2>3. /\ Len(q \o r) = Len(q) + Len(r)
        /\ \A i \in 1..(Len(q) + Len(r)) :
             (q \o r)[i] = IF i <= Len(q) THEN q[i] ELSE r[i - Len(q)]
    BY <2>1, ConcatProperties
  <2> QED BY <2>1, <2>2, <2>3
<1>3. ASSUME NEW i \in 1..Len(q \o r) PROVE (q \o r)[i] = a + i
  <2>1. CASE i <= Len(q)
    BY <1>2, <2>1 DEF Consecutive
  <2>2. CASE i > Len(q)
    <3>1. i - Len(q) \in 1..n
      BY <1>2, <2>2
    <3>2. r[i - Len(q)] = from + (i - Len(q)) - 1
      BY <1>1, <3>1 DEF r
    <3> QED BY <1>2, <2>2, <3>2
  <2> QED BY <1>2, <2>1, <2>2
<1> QED BY <1>2, <1>3 DEF Consecutive, r

\* Taking the head of one.
LEMMA ConsecutiveTail ==
  ASSUME NEW q \in Seq(Nat), NEW a \in Nat, Consecutive(q, a), q # <<>>
  PROVE  /\ Head(q) = a + 1
         /\ Tail(q) \in Seq(Nat)
         /\ Len(Tail(q)) = Len(q) - 1
         /\ Consecutive(Tail(q), a + 1)
  BY DEF Consecutive

\* Appending the next event.
LEMMA ConsecutiveAppend ==
  ASSUME NEW q \in Seq(Nat), NEW a \in Nat, Consecutive(q, a),
         NEW e \in Nat, e = a + Len(q) + 1
  PROVE  /\ Append(q, e) \in Seq(Nat)
         /\ Len(Append(q, e)) = Len(q) + 1
         /\ Consecutive(Append(q, e), a)
<1>1. /\ Append(q, e) \in Seq(Nat)
      /\ Len(Append(q, e)) = Len(q) + 1
      /\ \A i \in 1..Len(q) : Append(q, e)[i] = q[i]
      /\ Append(q, e)[Len(q) + 1] = e
  OBVIOUS
<1>2. ASSUME NEW i \in 1..Len(Append(q, e)) PROVE Append(q, e)[i] = a + i
  <2>1. CASE i \in 1..Len(q)
    BY <1>1, <2>1 DEF Consecutive
  <2>2. CASE i = Len(q) + 1
    BY <1>1, <2>2
  <2> QED BY <1>1, <2>1, <2>2
<1> QED BY <1>1, <1>2 DEF Consecutive

\* What a resume replays is what follows the client's last seq.
LEMMA ConsecutiveAfter ==
  ASSUME NEW q \in Seq(Nat), NEW a \in Nat, Consecutive(q, a),
         NEW last \in Nat, a <= last, last <= a + Len(q)
  PROVE  /\ After(q, last) \in Seq(Nat)
         /\ Len(After(q, last)) = a + Len(q) - last
         /\ Consecutive(After(q, last), last)
<1> DEFINE P(k) == /\ \A i \in 1..k : q[i] <= last
                   /\ \A i \in (k + 1)..Len(q) : q[i] > last
           k0 == CHOOSE k \in 0..Len(q) : P(k)
<1>1. last - a \in 0..Len(q) /\ P(last - a)
  BY DEF Consecutive
<1>2. ASSUME NEW k \in 0..Len(q), P(k) PROVE k = last - a
  <2>1. CASE k < last - a
    <3>1. (last - a) \in (k + 1)..Len(q) /\ q[last - a] = last
      BY <1>1, <2>1 DEF Consecutive
    <3> QED BY <1>2, <3>1
  <2>2. CASE k > last - a
    <3>1. k \in 1..k /\ k \in 1..Len(q) /\ q[k] = a + k
      BY <1>1, <2>2 DEF Consecutive
    <3> QED BY <1>2, <3>1, <2>2
  <2> QED BY <1>1, <2>1, <2>2
<1>3. k0 \in 0..Len(q) /\ k0 = last - a
  <2> HIDE DEF P
  <2>1. k0 \in 0..Len(q) /\ P(k0)
    BY <1>1
  <2> QED BY <1>2, <2>1
<1>4. After(q, last) = SubSeq(q, k0 + 1, Len(q))
  BY DEF After
<1> HIDE DEF P, k0
<1>5. /\ SubSeq(q, k0 + 1, Len(q)) \in Seq(Nat)
      /\ Len(SubSeq(q, k0 + 1, Len(q))) = Len(q) - k0
      /\ \A i \in 1..(Len(q) - k0) :
           SubSeq(q, k0 + 1, Len(q))[i] = q[k0 + i]
  BY <1>3
<1> QED BY <1>1, <1>3, <1>4, <1>5 DEF Consecutive

-----------------------------------------------------------------------------
(* Delivering events.                                                      *)

\* What a push makes of a session's outbox.
LEMMA PushSessionFacts ==
  ASSUME NEW S \in [Sessions -> Session], NEW C \in [Conns -> Channel],
         NEW N \in [Sessions -> Nat], NEW over, NEW s \in Sessions
  PROVE  LET p == PushSession(S, C, N, over, s)
         IN  /\ p \in Session
             /\ p.phase = S[s].phase /\ p.visible = S[s].visible
             /\ p.kicked = S[s].kicked /\ p.kicks = S[s].kicks
             /\ p.conn = S[s].conn /\ p.start = S[s].start
             /\ p.since = S[s].since
             /\ p.next = S[s].next + N[s]
             /\ p.sink = IF S[s].sink = "live" /\ Overflows(S, C, N, over, s)
                         THEN "lagged" ELSE S[s].sink
             /\ p.broken <=> (S[s].broken \/ (S[s].sink = "buffering"
                                            /\ Overflows(S, C, N, over, s)))
             /\ p.buf = IF S[s].sink # "buffering" \/ S[s].broken
                        THEN S[s].buf
                        ELSE IF Overflows(S, C, N, over, s) THEN <<>>
                        ELSE S[s].buf \o Run(S[s].next, N[s])
<1> DEFINE p == PushSession(S, C, N, over, s)
<1> DEFINE full == Overflows(S, C, N, over, s)
           o == S[s]
<1>1. o \in Session /\ N[s] \in Nat /\ o.next \in Nat /\ o.buf \in Seq(Nat)
  BY DEF Session
<1>2. Run(o.next, N[s]) \in Seq(Nat)
  BY <1>1, RunFacts
<1>3. o.buf \o Run(o.next, N[s]) \in Seq(Nat)
  BY <1>1, <1>2
<1>4. p = [o EXCEPT
             !.next = o.next + N[s],
             !.sink = IF o.sink = "live" /\ full THEN "lagged" ELSE o.sink,
             !.broken = o.broken \/ (o.sink = "buffering" /\ full),
             !.buf = IF o.sink # "buffering" \/ o.broken THEN o.buf
                     ELSE IF full THEN <<>>
                     ELSE o.buf \o Run(o.next, N[s])]
  BY DEF PushSession
<1>5. full \in BOOLEAN
  BY DEF Overflows
<1> HIDE DEF full, o, p
<1>6. /\ p.phase = o.phase /\ p.visible = o.visible
      /\ p.kicked = o.kicked /\ p.kicks = o.kicks
      /\ p.conn = o.conn /\ p.start = o.start
      /\ p.since = o.since
      /\ p.next = o.next + N[s]
      /\ p.sink = IF o.sink = "live" /\ full THEN "lagged" ELSE o.sink
      /\ p.buf = IF o.sink # "buffering" \/ o.broken THEN o.buf
                 ELSE IF full THEN <<>>
                 ELSE o.buf \o Run(o.next, N[s])
  BY <1>1, <1>4 DEF Session
<1>7. p.broken = (o.broken \/ (o.sink = "buffering" /\ full))
  BY <1>1, <1>4, Zenon DEF Session
<1>8. p.buf \in Seq(Nat) /\ p.next \in Nat /\ p.sink \in SinkKinds /\ p.broken \in BOOLEAN
  BY <1>1, <1>3, <1>5, <1>6, <1>7 DEF Session, SinkKinds
<1>9. p \in Session
  BY <1>1, <1>4, <1>6, <1>8 DEF Session
<1>10. p.broken <=> (o.broken \/ (o.sink = "buffering" /\ full))
  BY <1>7, Zenon
<1> QED BY <1>6, <1>10, <1>9 DEF o, full, p

\* A push leaves alone the channels that are not the session's.
LEMMA PushNoChannel ==
  ASSUME NEW S, NEW C, NEW N, NEW over, NEW c,
         LET s == C[c].owner
         IN  ~(S[s].sink = "live" /\ S[s].conn = c /\ C[c].rx)
  PROVE  PushChannel(S, C, N, over, c) = C[c]
  BY DEF PushChannel

\* How many events a live queue takes.
LEMMA TakenFacts ==
  ASSUME NEW S \in [Sessions -> Session], NEW C \in [Conns -> Channel],
         NEW N \in [Sessions -> Nat], NEW over, NEW s \in Sessions,
         S[s].sink = "live", S[s].conn \in Conns
  PROVE  /\ Taken(S, C, N, over, s) \in Nat
         /\ Overflows(S, C, N, over, s) => Taken(S, C, N, over, s) < N[s]
         /\ ~Overflows(S, C, N, over, s) => Taken(S, C, N, over, s) = N[s]
<1>1. N[s] \in Nat /\ C[S[s].conn].queue \in Seq(Nat)
  BY DEF Channel
<1>2. Queued(S, C, s) \in Nat
  BY <1>1 DEF Queued
<1>3. Cap(S, s, over) \in Nat
  BY CapsAssumption DEF Cap, Bound
<1> QED BY <1>1, <1>2, <1>3 DEF Taken, Overflows

\* The fields of a channel that was pushed to.
LEMMA LongerFrame ==
  ASSUME NEW o \in Channel, NEW from, NEW n, NEW lag
  PROVE  /\ Longer(o, from, n, lag).owner = o.owner
         /\ Longer(o, from, n, lag).rx <=> o.rx
  BY DEF Longer, Channel

\* Its queue.
LEMMA LongerQueue ==
  ASSUME NEW o \in Channel, NEW from, NEW n, NEW lag
  PROVE  Longer(o, from, n, lag).queue = o.queue \o Run(from, n)
  BY DEF Longer, Channel

\* Whether it lags.
LEMMA LongerLagged ==
  ASSUME NEW o \in Channel, NEW from, NEW n, NEW lag
  PROVE  Longer(o, from, n, lag).lagged <=> (o.lagged \/ lag)
<1>1. Longer(o, from, n, lag).lagged = (o.lagged \/ lag)
  BY Zenon DEF Longer, Channel
<1> QED BY <1>1, Zenon

\* It is a channel still.
LEMMA LongerType ==
  ASSUME NEW o \in Channel, NEW from \in Nat, NEW n \in Nat, NEW lag
  PROVE  Longer(o, from, n, lag) \in Channel
<1>1. o.queue \in Seq(Nat) /\ Run(from, n) \in Seq(Nat)
  BY RunFacts DEF Channel
<1>2. o.queue \o Run(from, n) \in Seq(Nat)
  BY <1>1
<1>3. (o.lagged \/ lag) \in BOOLEAN
  OBVIOUS
<1> QED BY <1>2, <1>3 DEF Longer, Channel

\* What a push makes of a connection's channel.
LEMMA PushChannelHolder ==
  ASSUME NEW S, NEW C, NEW N, NEW over, NEW c, NEW s, C[c].owner = s,
         S[s].sink = "live", S[s].conn = c, C[c].rx
  PROVE  PushChannel(S, C, N, over, c) =
           Longer(C[c], S[s].next, Taken(S, C, N, over, s),
                  Overflows(S, C, N, over, s))
  BY DEF PushChannel

\* Of any channel, a push leaves the owner and the receiver alone.
LEMMA PushChannelFrame ==
  ASSUME NEW S \in [Sessions -> Session], NEW C \in [Conns -> Channel],
         NEW N \in [Sessions -> Nat], NEW over, NEW c \in Conns
  PROVE  /\ PushChannel(S, C, N, over, c) \in Channel
         /\ PushChannel(S, C, N, over, c).owner = C[c].owner
         /\ PushChannel(S, C, N, over, c).rx <=> C[c].rx
<1> DEFINE q == PushChannel(S, C, N, over, c)
           s == C[c].owner
<1>1. C[c] \in Channel /\ s \in Sessions /\ S[s].next \in Nat /\ N[s] \in Nat
  BY DEF Session, Channel
<1>2. CASE ~(S[s].sink = "live" /\ S[s].conn = c /\ C[c].rx)
  <2>1. q = C[c]
    BY <1>2, PushNoChannel
  <2> HIDE DEF q
  <2> QED BY <1>1, <2>1 DEF q
<1>3. CASE S[s].sink = "live" /\ S[s].conn = c /\ C[c].rx
  <2> DEFINE lag == Overflows(S, C, N, over, s)
             n == Taken(S, C, N, over, s)
             from == S[s].next
  <2>1. q = Longer(C[c], from, n, lag)
    BY <1>3, PushChannelHolder
  <2>2. n \in Nat /\ from \in Nat
    BY <1>1, <1>3, TakenFacts
  <2> HIDE DEF q, lag, n, from
  <2>3. Longer(C[c], from, n, lag) \in Channel
    BY <1>1, <2>2, LongerType
  <2>4. Longer(C[c], from, n, lag).owner = C[c].owner
    BY <1>1, LongerFrame
  <2>5. Longer(C[c], from, n, lag).rx <=> C[c].rx
    BY <1>1, LongerFrame
  <2> QED BY <2>1, <2>3, <2>4, <2>5 DEF q
<1> QED BY <1>2, <1>3

\* A roster keeps its types through a Deliver.
LEMMA DeliverTypes ==
  ASSUME NEW S \in [Sessions -> Session], NEW C \in [Conns -> Channel],
         NEW N \in [Sessions -> Nat], NEW over, Deliver(S, C, N, over)
  PROVE  sess' \in [Sessions -> Session] /\ chan' \in [Conns -> Channel]
<1>1. ASSUME NEW s \in Sessions
      PROVE  PushSession(S, C, N, over, s) \in Session
  BY PushSessionFacts
<1>2. ASSUME NEW c \in Conns
      PROVE  PushChannel(S, C, N, over, c) \in Channel
  BY PushChannelFrame
<1> QED BY <1>1, <1>2 DEF Deliver

\* What one Deliver does to one session.
LEMMA DeliverAt ==
  ASSUME NEW S, NEW C, NEW N, NEW over, Deliver(S, C, N, over),
         NEW s \in Sessions
  PROVE  sess'[s] = IF S[s].phase = "here"
                    THEN PushSession(S, C, N, over, s) ELSE S[s]
  BY DEF Deliver

\* The same, field by field.
LEMMA DeliverSession ==
  ASSUME NEW S \in [Sessions -> Session], NEW C \in [Conns -> Channel],
         NEW N \in [Sessions -> Nat], NEW over, Deliver(S, C, N, over),
         NEW s \in Sessions
  PROVE  /\ sess'[s].phase = S[s].phase
         /\ sess'[s].kicked <=> S[s].kicked
         /\ sess'[s].conn = S[s].conn
         /\ sess'[s].sink # S[s].sink =>
              /\ S[s].phase = "here" /\ S[s].sink = "live"
              /\ sess'[s].sink = "lagged"
         /\ sess'[s].next >= S[s].next
<1>1. S[s].next \in Nat /\ N[s] \in Nat
  BY DEF Session
<1>2. CASE S[s].phase # "here"
  BY <1>1, <1>2, DeliverAt
<1>3. CASE S[s].phase = "here"
  <2>1. sess'[s] = PushSession(S, C, N, over, s)
    BY <1>3, DeliverAt
  <2> QED BY <1>1, <1>3, <2>1, PushSessionFacts
<1> QED BY <1>2, <1>3

\* What one Deliver does to one channel.
LEMMA DeliverTo ==
  ASSUME NEW S, NEW C, NEW N, NEW over, Deliver(S, C, N, over),
         NEW c \in Conns
  PROVE  chan'[c] = IF S[C[c].owner].phase = "here"
                    THEN PushChannel(S, C, N, over, c) ELSE C[c]
  BY DEF Deliver

\* The same, field by field.
LEMMA DeliverChannel ==
  ASSUME NEW S \in [Sessions -> Session], NEW C \in [Conns -> Channel],
         NEW N \in [Sessions -> Nat], NEW over, Deliver(S, C, N, over),
         NEW c \in Conns
  PROVE  /\ chan'[c].owner = C[c].owner
         /\ chan'[c].rx <=> C[c].rx
<1>1. CASE S[C[c].owner].phase # "here"
  BY <1>1, DeliverTo
<1>2. CASE S[C[c].owner].phase = "here"
  <2>1. chan'[c] = PushChannel(S, C, N, over, c)
    BY <1>2, DeliverTo
  <2>2. /\ PushChannel(S, C, N, over, c).owner = C[c].owner
        /\ PushChannel(S, C, N, over, c).rx <=> C[c].rx
    BY PushChannelFrame
  <2> QED BY <2>1, <2>2
<1> QED BY <1>1, <1>2

\* A buffer stays complete, or is known to be broken.
LEMMA DeliverBuffer ==
  ASSUME NEW S \in [Sessions -> Session], NEW C \in [Conns -> Channel],
         NEW N \in [Sessions -> Nat], NEW over, Deliver(S, C, N, over),
         BufferInv(S)
  PROVE  BufferInv(sess')
<1> SUFFICES ASSUME NEW s \in Sessions PROVE BufferOf(sess', s)
  BY DEF BufferInv
<1>1. S[s] \in Session /\ N[s] \in Nat /\ BufferOf(S, s)
  BY DEF BufferInv
<1>2. CASE S[s].phase # "here"
  BY <1>1, <1>2, DeliverAt DEF BufferOf, Buffering, Here
<1>3. CASE S[s].phase = "here"
  <2> DEFINE p == sess'[s]
  <2>1. p = PushSession(S, C, N, over, s)
    BY <1>3, DeliverAt
  <2> HIDE DEF p
  <2>2. /\ p.phase = S[s].phase /\ p.start = S[s].start
        /\ p.next = S[s].next + N[s]
        /\ p.sink = "buffering" <=> S[s].sink = "buffering"
    BY <1>1, <2>1, PushSessionFacts
  <2>6. ASSUME S[s].sink = "buffering", ~p.broken
        PROVE  ~S[s].broken /\ p.buf = S[s].buf \o Run(S[s].next, N[s])
    BY <1>1, <2>1, <2>6, PushSessionFacts
  <2>3. p.next >= 1
    BY <1>1, <2>2 DEF BufferOf, Session
  <2>4. ASSUME p.sink = "buffering" PROVE p.start \in 1..p.next
    BY <1>1, <1>3, <2>2, <2>4 DEF BufferOf, Session, Buffering, Here
  <2>5. ASSUME p.sink = "buffering", ~p.broken
        PROVE  /\ Consecutive(p.buf, p.start - 1)
               /\ p.start + Len(p.buf) = p.next
    <3>1. /\ S[s].buf \in Seq(Nat) /\ S[s].start \in Nat
          /\ S[s].next \in Nat
      BY <1>1 DEF Session
    <3>2. /\ S[s].start \in 1..S[s].next
          /\ Consecutive(S[s].buf, S[s].start - 1)
          /\ S[s].start + Len(S[s].buf) = S[s].next
      BY <1>1, <1>3, <2>2, <2>5, <2>6 DEF BufferOf, Buffering, Here
    <3>3. /\ S[s].start - 1 \in Nat /\ Len(S[s].buf) \in Nat
          /\ S[s].next = (S[s].start - 1) + Len(S[s].buf) + 1
      BY <3>1, <3>2
    <3>4. p.buf = S[s].buf \o Run(S[s].next, N[s])
      BY <2>2, <2>5, <2>6
    <3>5. /\ Len(S[s].buf \o Run(S[s].next, N[s])) = Len(S[s].buf) + N[s]
          /\ Consecutive(S[s].buf \o Run(S[s].next, N[s]), S[s].start - 1)
      BY ZenonT(60), <1>1, <3>1, <3>2, <3>3, ConsecutiveRun
    <3>6. /\ Len(p.buf) = Len(S[s].buf) + N[s]
          /\ Consecutive(p.buf, S[s].start - 1)
      BY <3>4, <3>5
    <3> QED BY <1>1, <2>2, <3>1, <3>2, <3>3, <3>6
  <2> QED BY <1>3, <2>2, <2>3, <2>4, <2>5 DEF BufferOf, Buffering, Here, p
<1> QED BY <1>2, <1>3

\* A session keeps its holder, and a lagged one's holder has been told.
LEMMA DeliverHolder ==
  ASSUME NEW S \in [Sessions -> Session], NEW C \in [Conns -> Channel],
         NEW N \in [Sessions -> Nat], NEW over, Deliver(S, C, N, over),
         NEW K, HolderInv(S, C, K)
  PROVE  HolderInv(sess', chan', K)
<1> SUFFICES ASSUME NEW s \in Here(sess') PROVE HolderOf(sess', chan', K, s)
  BY DEF HolderInv
<1>1. s \in Sessions /\ S[s].phase = "here" /\ HolderOf(S, C, K, s)
  BY DeliverSession DEF HolderInv, Here
<1>2. /\ sess'[s].conn = S[s].conn
      /\ sess'[s].sink # S[s].sink =>
           S[s].sink = "live" /\ sess'[s].sink = "lagged"
  BY <1>1, DeliverSession
<1>3. sess'[s].sink # "none"
  BY <1>1, <1>2 DEF HolderOf
<1>4. ASSUME sess'[s].sink \in {"live", "lagged"}
      PROVE  HolderOf(sess', chan', K, s)
  <2> DEFINE c == S[s].conn
  <2>1. S[s].sink \in {"live", "lagged"}
    BY <1>2, <1>4
  <2>2. /\ c \in Conns /\ K[c].pc \in Attending /\ C[c].owner = s
        /\ C[c].rx <=> K[c].pc # "panicked"
        /\ S[s].sink = "lagged" /\ C[c].rx => C[c].lagged
    BY <1>1, <2>1 DEF HolderOf
  <2>3. /\ chan'[c].owner = s /\ (chan'[c].rx <=> C[c].rx)
    BY <1>1, <2>2, DeliverChannel
  <2>4. ASSUME sess'[s].sink = "lagged", C[c].rx PROVE chan'[c].lagged
    <3> HIDE DEF c
    <3>0. chan'[c] = PushChannel(S, C, N, over, c)
      BY <1>1, <2>2, DeliverTo
    <3>1. CASE S[s].sink = "lagged"
      <4>1. PushChannel(S, C, N, over, c) = C[c]
        BY <2>2, <3>1, PushNoChannel
      <4> QED BY <2>2, <2>4, <3>0, <3>1, <4>1
    <3>2. CASE S[s].sink = "live"
      <4>1. sess'[s] = PushSession(S, C, N, over, s)
        BY <1>1, DeliverAt
      <4>2. Overflows(S, C, N, over, s)
        BY <1>1, <2>4, <3>2, <4>1, PushSessionFacts
      <4>3. C[c] \in Channel /\ S[s].next \in Nat /\ N[s] \in Nat
        BY <1>1, <2>2 DEF Session
      <4>4. PushChannel(S, C, N, over, c) =
              Longer(C[c], S[s].next, Taken(S, C, N, over, s),
                     Overflows(S, C, N, over, s))
        BY <2>2, <2>4, <3>2, PushChannelHolder DEF c
      <4>5. Taken(S, C, N, over, s) \in Nat
        BY <1>1, <2>2, <3>2, TakenFacts DEF c
      <4>6. Overflows(S, C, N, over, s) = TRUE
        BY <4>2 DEF Overflows
      <4>7. Longer(C[c], S[s].next, Taken(S, C, N, over, s), TRUE).lagged
        BY <4>3, LongerLagged
      <4> QED BY <3>0, <4>4, <4>6, <4>7
    <3> QED BY <2>1, <3>1, <3>2
  <2> QED BY <1>2, <1>3, <2>2, <2>3, <2>4 DEF HolderOf
<1> QED BY <1>3, <1>4 DEF HolderOf

\* The two together: a Deliver keeps the roster's invariant.
LEMMA DeliverKeeps ==
  ASSUME NEW S, NEW C, NEW K, RosterInv(S, C, K),
         NEW N \in [Sessions -> Nat], NEW over, Deliver(S, C, N, over)
  PROVE  RosterInv(sess', chan', K)
<1>1. /\ S \in [Sessions -> Session] /\ C \in [Conns -> Channel]
      /\ BufferInv(S) /\ HolderInv(S, C, K)
  BY DEF RosterInv
<1>2. sess' \in [Sessions -> Session] /\ chan' \in [Conns -> Channel]
  BY <1>1, DeliverTypes
<1>3. BufferInv(sess')
  BY <1>1, DeliverBuffer
<1>4. HolderInv(sess', chan', K)
  BY <1>1, DeliverHolder
<1> QED BY <1>2, <1>3, <1>4 DEF RosterInv

-----------------------------------------------------------------------------
(* How many events a change makes the roster push.                         *)

\* Parted counts.
LEMMA PartedType ==
  ASSUME NEW S, NEW V
  PROVE  Parted(S, V) \in [Sessions -> Nat]
<1>1. IsFiniteSet(V \cap Visible(S))
  BY SessionsAssumption, FS_Subset DEF Visible, Here
<1>2. Cardinality(V \cap Visible(S)) \in Nat
  BY <1>1, FS_CardinalityType
<1> QED BY <1>2 DEF Parted

\* So do Broadcast, Nothing and Plus.
LEMMA CountTypes ==
  /\ Nothing \in [Sessions -> Nat]
  /\ \A S, X : Broadcast(S, X) \in [Sessions -> Nat]
  /\ \A N, M \in [Sessions -> Nat] : Plus(N, M) \in [Sessions -> Nat]
  BY DEF Nothing, Broadcast, Plus

-----------------------------------------------------------------------------
(* Ending sessions.                                                        *)

\* A session that never attached is one.
LEMMA NoSessionType == NoSession \in Session
  BY DEF NoSession, Session, SinkKinds

\* The sessions of V are gone and the others are as they were.
LEMMA RemovedAt ==
  ASSUME NEW S \in [Sessions -> Session], NEW V, NEW s \in Sessions
  PROVE  /\ s \notin V => Removed(S, V)[s] = S[s]
         /\ s \in V => /\ Removed(S, V)[s].phase = "gone"
                       /\ Removed(S, V)[s].next = S[s].next
         /\ Removed(S, V)[s] \in Session
<1>1. CASE s \notin V
  BY <1>1 DEF Removed
<1>2. CASE s \in V
  <2> DEFINE r == Removed(S, V)[s]
  <2>1. r = [NoSession EXCEPT !.phase = "gone", !.next = S[s].next,
                              !.kicked = S[s].kicked, !.kicks = S[s].kicks]
    BY <1>2 DEF Removed
  <2> HIDE DEF r
  <2>2. S[s].next \in Nat /\ S[s].kicked \in BOOLEAN /\ S[s].kicks \in SUBSET Nat
    BY DEF Session
  <2>3. r.phase = "gone" /\ r.next = S[s].next
    BY <2>1 DEF NoSession
  <2>4. r \in Session
    BY <2>1, <2>2, NoSessionType DEF Session, NoSession
  <2> QED BY <1>2, <2>3, <2>4 DEF r
<1> QED BY <1>1, <1>2

\* With the sessions of V removed it does not matter who held them.
LEMMA RemovedKeeps ==
  ASSUME NEW S \in [Sessions -> Session], NEW C \in [Conns -> Channel],
         NEW K, NEW V, BufferInv(S), HolderInvBut(S, C, K, V)
  PROVE  RosterInv(Removed(S, V), C, K)
<1> DEFINE R == Removed(S, V)
<1>1. R \in [Sessions -> Session]
  <2>1. R = [s \in Sessions |-> R[s]]
    BY DEF Removed
  <2>2. \A s \in Sessions : R[s] \in Session
    BY RemovedAt
  <2> HIDE DEF R
  <2> QED BY <2>1, <2>2
<1>2. ASSUME NEW s \in Sessions PROVE BufferOf(R, s)
  <2>1. BufferOf(S, s) /\ S[s].next \in Nat
    BY DEF BufferInv, Session
  <2>2. CASE s \notin V
    <3>1. R[s] = S[s]
      BY <2>2, RemovedAt
    <3> HIDE DEF R
    <3> QED BY <2>1, <3>1 DEF BufferOf, Buffering, Here
  <2>3. CASE s \in V
    <3>1. R[s].phase = "gone" /\ R[s].next = S[s].next
      BY <2>3, RemovedAt
    <3> HIDE DEF R
    <3> QED BY <2>1, <3>1 DEF BufferOf, Buffering, Here
  <2> QED BY <2>2, <2>3
<1>3. ASSUME NEW s \in Here(R) PROVE HolderOf(R, C, K, s)
  <2>1. s \in Sessions /\ R[s].phase = "here"
    BY DEF Here
  <2>2. s \notin V
    BY <2>1, RemovedAt
  <2>3. R[s] = S[s]
    BY <2>1, <2>2, RemovedAt
  <2> HIDE DEF R
  <2>4. HolderOf(S, C, K, s)
    BY <2>1, <2>2, <2>3 DEF HolderInvBut, Here
  <2> QED BY <2>3, <2>4 DEF HolderOf
<1> HIDE DEF R
<1>4. RosterInv(R, C, K)
  BY <1>1, <1>2, <1>3 DEF RosterInv, BufferInv, HolderInv
<1> QED BY <1>4 DEF R

\* end_session: whoever held the sessions of V may let go of them.
LEMMA EndSessionsKeeps ==
  ASSUME sess \in [Sessions -> Session], NEW C \in [Conns -> Channel],
         NEW K, NEW V, NEW over,
         BufferInv(sess), HolderInvBut(sess, C, K, V),
         EndSessions(V, C, over)
  PROVE  RosterInv(sess', chan', K)
<1> DEFINE W == V \cap Here(sess)
<1>1. HolderInvBut(sess, C, K, W)
  BY DEF HolderInvBut
<1>2. Deliver(Removed(sess, W), C, Parted(sess, W), over)
  BY DEF EndSessions
<1> HIDE DEF W
<1>3. RosterInv(Removed(sess, W), C, K)
  BY <1>1, RemovedKeeps
<1> QED BY <1>2, <1>3, PartedType, DeliverKeeps

-----------------------------------------------------------------------------
(* Changes that leave the outboxes alone.                                  *)

\* A change that touches no outbox keeps the roster's invariant.
LEMMA SameOutboxKeeps ==
  ASSUME NEW S, NEW C, NEW K, RosterInv(S, C, K),
         NEW R \in [Sessions -> Session],
         \A s \in Sessions :
           /\ R[s].phase = S[s].phase /\ R[s].next = S[s].next
           /\ R[s].sink = S[s].sink /\ R[s].conn = S[s].conn
           /\ R[s].start = S[s].start /\ R[s].buf = S[s].buf
           /\ R[s].broken <=> S[s].broken
  PROVE  RosterInv(R, C, K)
<1>1. /\ S \in [Sessions -> Session] /\ C \in [Conns -> Channel]
      /\ BufferInv(S) /\ HolderInv(S, C, K)
  BY DEF RosterInv
<1>2. ASSUME NEW s \in Sessions PROVE BufferOf(R, s)
  <2>1. BufferOf(S, s)
    BY <1>1 DEF BufferInv
  <2> QED BY <2>1 DEF BufferOf, Buffering, Here
<1>3. ASSUME NEW s \in Here(R) PROVE HolderOf(R, C, K, s)
  <2>1. s \in Sessions /\ HolderOf(S, C, K, s)
    BY <1>1 DEF HolderInv, Here
  <2> QED BY <2>1 DEF HolderOf
<1> QED BY <1>1, <1>2, <1>3 DEF RosterInv, BufferInv, HolderInv

\* announce.
LEMMA AnnounceKeeps ==
  ASSUME NEW K, RosterInv(sess, chan, K), NEW s \in Sessions, NEW over,
         Announce(s, over)
  PROVE  RosterInv(sess', chan', K)
<1>1. CASE sess[s].phase = "here" /\ ~sess[s].visible
  <2> DEFINE R == [sess EXCEPT ![s].visible = TRUE]
  <2>1. sess \in [Sessions -> Session]
    BY DEF RosterInv
  <2>2. R \in [Sessions -> Session]
    BY <2>1 DEF Session
  <2>3. \A t \in Sessions :
          /\ R[t].phase = sess[t].phase /\ R[t].next = sess[t].next
          /\ R[t].sink = sess[t].sink /\ R[t].conn = sess[t].conn
          /\ R[t].start = sess[t].start /\ R[t].buf = sess[t].buf
          /\ R[t].broken <=> sess[t].broken
    BY <2>1 DEF Session
  <2>4. Deliver(R, chan, Broadcast(sess, {s}), over)
    BY <1>1 DEF Announce
  <2> HIDE DEF R
  <2>5. RosterInv(R, chan, K)
    BY <2>2, <2>3, SameOutboxKeeps
  <2> QED BY <2>4, <2>5, CountTypes, DeliverKeeps
<1>2. CASE ~(sess[s].phase = "here" /\ ~sess[s].visible)
  BY <1>2 DEF Announce
<1> QED BY <1>1, <1>2

\* send_to.
LEMMA SendToKeeps ==
  ASSUME NEW K, RosterInv(sess, chan, K), NEW s \in Sessions, NEW over,
         SendTo(s, over)
  PROVE  RosterInv(sess', chan', K)
<1> DEFINE N == [t \in Sessions |-> IF t = s THEN 1 ELSE 0]
<1>1. N \in [Sessions -> Nat]
  OBVIOUS
<1>2. Deliver(sess, chan, N, over)
  BY DEF SendTo
<1> HIDE DEF N
<1> QED BY <1>1, <1>2, DeliverKeeps

\* kick_in, end_refused and end_revoked.
LEMMA KickAllKeeps ==
  ASSUME NEW K, RosterInv(sess, chan, K), NEW X \in SUBSET Sessions,
         NEW flag \in BOOLEAN, NEW over, KickAll(X, flag, over)
  PROVE  RosterInv(sess', chan', K)
<1> DEFINE S == [s \in Sessions |->
                   IF s \in X THEN [sess[s] EXCEPT
                                      !.kicked = @ \/ flag,
                                      !.kicks = @ \cup {sess[s].next}]
                              ELSE sess[s]]
           V == X \cap Buffering(sess)
           told == [t \in Sessions |-> IF t \in X \ V THEN 1 ELSE 0]
<1>1. sess \in [Sessions -> Session]
  BY DEF RosterInv
<1>2. ASSUME NEW s \in Sessions
      PROVE  /\ S[s] \in Session
             /\ S[s].phase = sess[s].phase /\ S[s].next = sess[s].next
             /\ S[s].sink = sess[s].sink /\ S[s].conn = sess[s].conn
             /\ S[s].start = sess[s].start /\ S[s].buf = sess[s].buf
             /\ S[s].broken <=> sess[s].broken
  <2>1. sess[s] \in Session
    BY <1>1
  <2>2. (sess[s].kicked \/ flag) \in BOOLEAN
    OBVIOUS
  <2>3. sess[s].kicks \cup {sess[s].next} \in SUBSET Nat
    BY <2>1 DEF Session
  <2>4. [sess[s] EXCEPT !.kicked = sess[s].kicked \/ flag,
                        !.kicks = sess[s].kicks \cup {sess[s].next}] \in Session
    BY <2>1, <2>2, <2>3 DEF Session
  <2> QED BY <2>1, <2>4 DEF Session
<1>3. S \in [Sessions -> Session]
  BY <1>2
<1>4. Deliver(Removed(S, V), chan, Plus(told, Parted(sess, V)), over)
  BY DEF KickAll
<1>5. told \in [Sessions -> Nat]
  OBVIOUS
<1> HIDE DEF S, V, told
<1>6. RosterInv(S, chan, K)
  BY <1>2, <1>3, SameOutboxKeeps
<1>7. HolderInvBut(S, chan, K, V)
  BY <1>6 DEF RosterInv, HolderInv, HolderInvBut
<1>8. RosterInv(Removed(S, V), chan, K)
  BY <1>3, <1>6, <1>7, RemovedKeeps DEF RosterInv
<1>9. Plus(told, Parted(sess, V)) \in [Sessions -> Nat]
  BY <1>5, PartedType, CountTypes
<1> QED BY <1>4, <1>8, <1>9, DeliverKeeps

-----------------------------------------------------------------------------
(* Losing a connection.                                                    *)

\* A session stays one when its sink is replaced.
LEMMA SinkType ==
  ASSUME NEW o \in Session, NEW sink \in SinkKinds,
         NEW c \in Conns \cup {NoConn}, NEW start \in Nat, NEW since \in Nat
  PROVE  /\ [o EXCEPT !.sink = sink, !.conn = c, !.start = start, !.buf = <<>>,
                      !.broken = TRUE, !.since = since] \in Session
         /\ [o EXCEPT !.sink = sink, !.conn = c, !.start = start, !.buf = <<>>,
                      !.broken = FALSE, !.since = since] \in Session
<1>1. <<>> \in Seq(Nat)
  OBVIOUS
<1> QED BY <1>1 DEF Session

\* A session that detaches starts a new buffer at its next seq.
LEMMA DetachedKeeps ==
  ASSUME sess \in [Sessions -> Session], clock \in Nat,
         NEW C \in [Conns -> Channel], NEW K, NEW s \in Sessions,
         BufferInv(sess), HolderInvBut(sess, C, K, {s})
  PROVE  RosterInv(Detached(s), C, K)
<1> DEFINE R == Detached(s)
<1>1. /\ sess[s] \in Session /\ sess[s].next \in Nat
      /\ (sess[s].sink = "lagged") \in BOOLEAN
  BY DEF Session
<1>2. R = [sess EXCEPT ![s] =
             [sess[s] EXCEPT !.sink = "buffering", !.conn = NoConn,
                             !.start = sess[s].next, !.buf = <<>>,
                             !.broken = (sess[s].sink = "lagged"),
                             !.since = clock]]
  BY DEF Detached, Session
<1> HIDE DEF R
<1>3. R[s] = [sess[s] EXCEPT !.sink = "buffering", !.conn = NoConn,
                             !.start = sess[s].next, !.buf = <<>>,
                             !.broken = (sess[s].sink = "lagged"),
                             !.since = clock]
  BY <1>2
<1>4. \A t \in Sessions \ {s} : R[t] = sess[t]
  BY <1>2
<1>5. R[s] \in Session
  <2>1. "buffering" \in SinkKinds
    BY DEF SinkKinds
  <2>2. CASE sess[s].sink = "lagged"
    <3>1. R[s] = [sess[s] EXCEPT !.sink = "buffering", !.conn = NoConn,
                                 !.start = sess[s].next, !.buf = <<>>,
                                 !.broken = TRUE, !.since = clock]
      BY <1>3, <2>2
    <3>2. [sess[s] EXCEPT !.sink = "buffering", !.conn = NoConn,
                          !.start = sess[s].next, !.buf = <<>>,
                          !.broken = TRUE, !.since = clock] \in Session
      BY <1>1, <2>1, SinkType
    <3> QED BY <3>1, <3>2
  <2>3. CASE sess[s].sink # "lagged"
    <3>1. R[s] = [sess[s] EXCEPT !.sink = "buffering", !.conn = NoConn,
                                 !.start = sess[s].next, !.buf = <<>>,
                                 !.broken = FALSE, !.since = clock]
      BY <1>3, <2>3
    <3>2. [sess[s] EXCEPT !.sink = "buffering", !.conn = NoConn,
                          !.start = sess[s].next, !.buf = <<>>,
                          !.broken = FALSE, !.since = clock] \in Session
      BY <1>1, <2>1, SinkType
    <3> QED BY <3>1, <3>2
  <2> QED BY <2>2, <2>3
<1>6. R \in [Sessions -> Session]
  BY <1>1, <1>2, <1>3, <1>5
<1>7. /\ R[s].phase = sess[s].phase /\ R[s].sink = "buffering"
      /\ R[s].start = sess[s].next /\ R[s].next = sess[s].next
      /\ R[s].buf = <<>>
  BY <1>1, <1>3 DEF Session
<1>8. ASSUME NEW t \in Sessions PROVE BufferOf(R, t)
  <2>1. BufferOf(sess, t) /\ sess[t].next \in Nat
    BY DEF BufferInv, Session
  <2>2. CASE t = s
    BY <1>1, <1>7, <2>1, <2>2 DEF BufferOf, Consecutive
  <2>3. CASE t # s
    <3>1. R[t] = sess[t]
      BY <1>4, <2>3
    <3> QED BY <2>1, <3>1 DEF BufferOf, Buffering, Here
  <2> QED BY <2>2, <2>3
<1>9. ASSUME NEW t \in Here(R) PROVE HolderOf(R, C, K, t)
  <2>1. CASE t = s
    BY <1>7, <2>1 DEF HolderOf
  <2>2. CASE t # s
    <3>1. t \in Sessions /\ R[t] = sess[t]
      BY <1>4, <2>2 DEF Here
    <3>2. HolderOf(sess, C, K, t)
      BY <2>2, <3>1 DEF HolderInvBut, Here
    <3> QED BY <3>1, <3>2 DEF HolderOf
  <2> QED BY <2>1, <2>2
<1>10. RosterInv(R, C, K)
  BY <1>6, <1>8, <1>9 DEF RosterInv, BufferInv, HolderInv
<1> QED BY <1>10 DEF R

\* lose: the session ends or detaches, whoever held it.
LEMMA LoseKeeps ==
  ASSUME sess \in [Sessions -> Session], clock \in Nat,
         NEW C \in [Conns -> Channel], NEW K, NEW s \in Sessions, NEW over,
         BufferInv(sess), HolderInvBut(sess, C, K, {s}), Lose(s, C, over)
  PROVE  RosterInv(sess', chan', K) /\ clock' \in Nat
<1>1. CASE sess[s].phase # "here"
  <2>1. chan' = C /\ sess' = sess /\ clock' = clock
    BY <1>1 DEF Lose
  <2>2. HolderInv(sess, C, K)
    BY <1>1 DEF HolderInv, HolderInvBut, Here
  <2> QED BY <2>1, <2>2 DEF RosterInv
<1>2. CASE sess[s].phase = "here" /\ EndsWhenLost(s)
  <2>1. EndSessions({s}, C, over) /\ clock' = clock
    BY <1>2 DEF Lose
  <2> QED BY <2>1, EndSessionsKeeps
<1>3. CASE sess[s].phase = "here" /\ ~EndsWhenLost(s)
  <2> DEFINE S == Detached(s)
             V == OverCap(S, s)
             status == IF sess[s].sink # "buffering" /\ sess[s].visible
                       THEN Broadcast(S, V) ELSE Nothing
  <2>1. /\ Deliver(Removed(S, V), C, Plus(status, Parted(S, V)), over)
        /\ clock' = clock + 1
    BY <1>3 DEF Lose
  <2>2. status \in [Sessions -> Nat]
    BY CountTypes
  <2>3. RosterInv(S, C, K)
    BY DetachedKeeps
  <2> HIDE DEF S, V, status
  <2>4. HolderInvBut(S, C, K, V)
    BY <2>3 DEF RosterInv, HolderInv, HolderInvBut
  <2>5. RosterInv(Removed(S, V), C, K)
    BY <2>3, <2>4, RemovedKeeps DEF RosterInv
  <2>6. Plus(status, Parted(S, V)) \in [Sessions -> Nat]
    BY <2>2, PartedType, CountTypes
  <2>7. RosterInv(sess', chan', K)
    BY <2>1, <2>5, <2>6, DeliverKeeps
  <2> QED BY <2>1, <2>7
<1> QED BY <1>1, <1>2, <1>3

\* connection_lost_from: the same, or nothing when c does not hold it.
LEMMA LoseFromKeeps ==
  ASSUME sess \in [Sessions -> Session], clock \in Nat,
         NEW C \in [Conns -> Channel], NEW K, NEW s \in Sessions, NEW over,
         BufferInv(sess), HolderInvBut(sess, C, K, {s}), NEW c,
         ~Holds(s, c) => HolderInv(sess, C, K),
         LoseFrom(s, c, C, over)
  PROVE  RosterInv(sess', chan', K) /\ clock' \in Nat
<1>1. CASE Holds(s, c)
  BY <1>1, LoseKeeps DEF LoseFrom
<1>2. CASE ~Holds(s, c)
  <2>1. chan' = C /\ sess' = sess /\ clock' = clock
    BY <1>2 DEF LoseFrom
  <2> QED BY <1>2, <2>1 DEF RosterInv
<1> QED BY <1>1, <1>2

-----------------------------------------------------------------------------
(* A session changes hands.                                                *)

\* A new channel is empty and has its receiver.
LEMMA NewChannelFacts ==
  ASSUME NEW s \in Sessions
  PROVE  /\ NewChannel(s) \in Channel
         /\ NewChannel(s).owner = s /\ NewChannel(s).rx
         /\ NewChannel(s).queue = <<>>
  BY DEF NewChannel, Channel

\* Session s becomes live with connection c, whose task attends to it; the
\* other sessions keep what they have.
LEMMA HandOver ==
  ASSUME sess \in [Sessions -> Session], NEW C \in [Conns -> Channel],
         NEW K, NEW s \in Sessions, NEW c \in Conns,
         BufferInv(sess), HolderInvBut(sess, C, K, {s}),
         NEW R \in [Sessions -> Session],
         \A t \in Sessions \ {s} : R[t] = sess[t],
         R[s].sink = "live", R[s].conn = c, R[s].next >= 1,
         C[c].owner = s, C[c].rx, K[c].pc \in Attending \ {"panicked"}
  PROVE  RosterInv(R, C, K)
<1>1. ASSUME NEW t \in Sessions PROVE BufferOf(R, t)
  <2>1. CASE t = s
    BY <2>1 DEF BufferOf, Buffering
  <2>2. CASE t # s
    <3>1. R[t] = sess[t] /\ BufferOf(sess, t)
      BY <2>2 DEF BufferInv
    <3> QED BY <3>1 DEF BufferOf, Buffering, Here
  <2> QED BY <2>1, <2>2
<1>2. ASSUME NEW t \in Here(R) PROVE HolderOf(R, C, K, t)
  <2>1. CASE t = s
    BY <2>1 DEF HolderOf
  <2>2. CASE t # s
    <3>1. t \in Sessions /\ R[t] = sess[t]
      BY <2>2 DEF Here
    <3>2. HolderOf(sess, C, K, t)
      BY <2>2, <3>1 DEF HolderInvBut, Here
    <3> QED BY <3>1, <3>2 DEF HolderOf
  <2> QED BY <2>1, <2>2
<1> QED BY <1>1, <1>2 DEF RosterInv, BufferInv, HolderInv

\* attach.
LEMMA AttachKeeps ==
  ASSUME sess \in [Sessions -> Session], chan \in [Conns -> Channel],
         NEW K, NEW s \in Sessions, NEW c \in Conns, BufferInv(sess),
         HolderInvBut(sess, [chan EXCEPT ![c] = NewChannel(s)], K, {s}),
         K[c].pc \in Attending \ {"panicked"}, Attach(s, c)
  PROVE  RosterInv(sess', chan', K)
<1> DEFINE new == [NoSession EXCEPT !.phase = "here", !.sink = "live",
                                    !.conn = c]
<1>1. sess' = [sess EXCEPT ![s] = new] /\ chan' = [chan EXCEPT ![c] = NewChannel(s)]
  BY DEF Attach
<1>2. new \in Session /\ new.sink = "live" /\ new.conn = c /\ new.next = 1
  BY NoSessionType DEF NoSession, Session, SinkKinds
<1> HIDE DEF new
<1>3. /\ sess' \in [Sessions -> Session] /\ sess'[s] = new
      /\ \A t \in Sessions \ {s} : sess'[t] = sess[t]
  BY <1>1, <1>2
<1>4. /\ chan' \in [Conns -> Channel] /\ chan'[c] = NewChannel(s)
  BY <1>1, NewChannelFacts
<1>5. /\ chan'[c].owner = s /\ chan'[c].rx
  BY <1>4, NewChannelFacts
<1>6. /\ sess'[s].sink = "live" /\ sess'[s].conn = c /\ sess'[s].next >= 1
  BY <1>2, <1>3
<1>7. HolderInvBut(sess, chan', K, {s})
  BY <1>1
<1> QED BY <1>3, <1>4, <1>5, <1>6, <1>7, HandOver

\* resume_locked, when it hands the session over.
LEMMA ResumeKeeps ==
  ASSUME sess \in [Sessions -> Session], chan \in [Conns -> Channel],
         NEW K, NEW s \in Sessions, NEW c \in Conns, BufferInv(sess),
         HolderInvBut(sess, [chan EXCEPT ![c] = NewChannel(s)], K, {s}),
         K[c].pc \in Attending \ {"panicked"},
         NEW last, NEW shown, NEW over,
         ResumeOutcome(s, last) # "gone", Resume(s, c, last, shown, over)
  PROVE  RosterInv(sess', chan', K)
<1> DEFINE S == [sess EXCEPT ![s].sink = "live", ![s].conn = c,
                             ![s].start = 1, ![s].buf = <<>>,
                             ![s].broken = FALSE, ![s].since = 0]
           C == [chan EXCEPT ![c] = NewChannel(s)]
           N == IF sess[s].visible /\ (sess[s].sink = "buffering" \/ shown)
                THEN Broadcast(S, {}) ELSE Nothing
<1>1. Deliver(S, C, N, over)
  BY DEF Resume
<1>2. sess[s] \in Session /\ sess[s].next >= 1
  BY DEF BufferInv, BufferOf
<1>3. S \in [Sessions -> Session]
  <2>1. [sess[s] EXCEPT !.sink = "live", !.conn = c, !.start = 1, !.buf = <<>>,
                        !.broken = FALSE, !.since = 0] \in Session
    BY <1>2, SinkType DEF SinkKinds
  <2> QED BY <1>2, <2>1
<1>4. /\ \A t \in Sessions \ {s} : S[t] = sess[t]
      /\ S[s].sink = "live" /\ S[s].conn = c /\ S[s].next >= 1
  BY <1>2 DEF Session
<1>5. C \in [Conns -> Channel] /\ C[c] = NewChannel(s)
  BY NewChannelFacts
<1>6. HolderInvBut(sess, C, K, {s})
  OBVIOUS
<1>7. N \in [Sessions -> Nat]
  BY CountTypes
<1> HIDE DEF S, C, N
<1>8. C[c].owner = s /\ C[c].rx
  BY <1>5, NewChannelFacts
<1>9. RosterInv(S, C, K)
  BY <1>3, <1>4, <1>5, <1>6, <1>8, HandOver
<1> QED BY <1>1, <1>7, <1>9, DeliverKeeps

-----------------------------------------------------------------------------
(* The invariant. *)

ServerInv ==
  /\ RosterInv(sess, chan, conn)
  /\ clock \in Nat
  /\ revoked \subseteq Sessions
  /\ ConnTypeOK

CoreInv ==
  /\ ServerInv
  /\ cli \in [Sessions -> Client]

-----------------------------------------------------------------------------
(* Who holds a connection, when its task moves on.                         *)

\* Only the session a channel belongs to can be held by its connection, and
\* only while the connection's task attends to it.
LEMMA HoldsOwner ==
  ASSUME HolderInv(sess, chan, conn), NEW s \in Sessions, NEW c,
         Holds(s, c)
  PROVE  /\ chan[c].owner = s /\ conn[c].pc \in Attending
         /\ sess[s].sink = "lagged" /\ chan[c].rx => chan[c].lagged
         /\ chan[c].rx <=> conn[c].pc # "panicked"
  BY DEF HolderInv, HolderOf, Holds, Here

\* C and K are as before but for connection c.
LEMMA OthersHold ==
  ASSUME HolderInv(sess, chan, conn), NEW c \in Conns, NEW C, NEW K,
         \A d \in Conns \ {c} : C[d] = chan[d] /\ K[d].pc = conn[d].pc
  PROVE  HolderInvBut(sess, C, K, {chan[c].owner})
<1> SUFFICES ASSUME NEW s \in Here(sess), s # chan[c].owner
             PROVE  HolderOf(sess, C, K, s)
  BY DEF HolderInvBut
<1>1. HolderOf(sess, chan, conn, s)
  BY DEF HolderInv
<1>2. CASE sess[s].sink \notin {"live", "lagged"}
  BY <1>1, <1>2 DEF HolderOf
<1>3. CASE sess[s].sink \in {"live", "lagged"}
  <2> DEFINE d == sess[s].conn
  <2>1. d \in Conns /\ d # c
    BY <1>1, <1>3 DEF HolderOf
  <2>2. C[d] = chan[d] /\ K[d].pc = conn[d].pc
    BY <2>1
  <2> QED BY <1>1, <1>3, <2>1, <2>2 DEF HolderOf
<1> QED BY <1>2, <1>3

\* Connection c holds no session.
LEMMA NobodyHolds ==
  ASSUME HolderInv(sess, chan, conn), NEW c \in Conns, NEW C, NEW K,
         \A d \in Conns \ {c} : C[d] = chan[d] /\ K[d].pc = conn[d].pc,
         \A s \in Sessions : ~Holds(s, c)
  PROVE  HolderInv(sess, C, K)
<1> SUFFICES ASSUME NEW s \in Here(sess) PROVE HolderOf(sess, C, K, s)
  BY DEF HolderInv
<1>1. HolderOf(sess, chan, conn, s) /\ s \in Sessions
  BY DEF HolderInv, Here
<1>2. CASE sess[s].sink \notin {"live", "lagged"}
  BY <1>1, <1>2 DEF HolderOf
<1>3. CASE sess[s].sink \in {"live", "lagged"}
  <2> DEFINE d == sess[s].conn
  <2>1. d \in Conns /\ d # c
    BY <1>1, <1>3 DEF HolderOf, Holds, Here
  <2>2. C[d] = chan[d] /\ K[d].pc = conn[d].pc
    BY <2>1
  <2> QED BY <1>1, <1>3, <2>1, <2>2 DEF HolderOf
<1> QED BY <1>2, <1>3

\* Connection c goes on attending to what it may hold.
LEMMA StillHolds ==
  ASSUME HolderInv(sess, chan, conn), NEW c \in Conns, NEW C, NEW K,
         \A d \in Conns \ {c} : C[d] = chan[d] /\ K[d].pc = conn[d].pc,
         K[c].pc \in Attending, C[c].owner = chan[c].owner,
         C[c].rx <=> K[c].pc # "panicked",
         C[c].rx /\ chan[c].rx /\ chan[c].lagged => C[c].lagged,
         conn[c].pc = "panicked" => K[c].pc = "panicked"
  PROVE  HolderInv(sess, C, K)
<1> SUFFICES ASSUME NEW s \in Here(sess) PROVE HolderOf(sess, C, K, s)
  BY DEF HolderInv
<1>1. HolderOf(sess, chan, conn, s)
  BY DEF HolderInv
<1>2. CASE sess[s].sink \notin {"live", "lagged"}
  BY <1>1, <1>2 DEF HolderOf
<1>3. CASE sess[s].sink \in {"live", "lagged"} /\ sess[s].conn # c
  <2> DEFINE d == sess[s].conn
  <2>1. d \in Conns /\ d # c
    BY <1>1, <1>3 DEF HolderOf
  <2>2. C[d] = chan[d] /\ K[d].pc = conn[d].pc
    BY <2>1
  <2> QED BY <1>1, <1>3, <2>1, <2>2 DEF HolderOf
<1>4. CASE sess[s].sink \in {"live", "lagged"} /\ sess[s].conn = c
  BY <1>1, <1>4 DEF HolderOf
<1> QED BY <1>2, <1>3, <1>4

-----------------------------------------------------------------------------
(* Tasks and wires.                                                        *)

\* The task of connection c returns.
LEMMA EndTask ==
  ASSUME conn \in [Conns -> Task], NEW c \in Conns, End(c)
  PROVE  /\ conn' \in [Conns -> Task]
         /\ \A d \in Conns \ {c} : conn'[d].pc = conn[d].pc
         /\ conn'[c].pc = "off"
<1>1. conn[c].peer \in BOOLEAN
  BY DEF Task
<1>2. [NewTask EXCEPT !.pc = "off", !.peer = conn[c].peer] \in Task
  <2>1. NewTask \in Task
    <3>1. <<>> \in Seq(Nat)
      OBVIOUS
    <3> QED BY <3>1 DEF NewTask, Task, PCs
  <2> QED BY <1>1, <2>1 DEF Task, PCs
<1>3. conn' = [conn EXCEPT
                 ![c] = [NewTask EXCEPT !.pc = "off", !.peer = conn[c].peer]]
  BY DEF End
<1>4. [NewTask EXCEPT !.pc = "off", !.peer = conn[c].peer].pc = "off"
  BY DEF NewTask
<1> QED BY <1>2, <1>3, <1>4

\* A task that moves to another place is still a task.
LEMMA GotoTask ==
  ASSUME conn \in [Conns -> Task], NEW c \in Conns, NEW pc \in PCs,
         Goto(c, pc)
  PROVE  /\ conn' \in [Conns -> Task]
         /\ \A d \in Conns \ {c} : conn'[d].pc = conn[d].pc
         /\ conn'[c].pc = pc
<1>1. conn' = [conn EXCEPT ![c] = [conn[c] EXCEPT !.pc = pc]]
  BY DEF Goto, Task
<1>2. [conn[c] EXCEPT !.pc = pc] \in Task /\ [conn[c] EXCEPT !.pc = pc].pc = pc
  BY DEF Task
<1> QED BY <1>1, <1>2

\* The channel of a connection whose receiver is dropped.
LEMMA DroppedChannel ==
  ASSUME chan \in [Conns -> Channel], NEW c \in Conns
  PROVE  /\ Dropped(c) \in [Conns -> Channel]
         /\ \A d \in Conns \ {c} : Dropped(c)[d] = chan[d]
         /\ Dropped(c)[c].owner = chan[c].owner
         /\ ~Dropped(c)[c].rx
<1> DEFINE o == [chan[c] EXCEPT !.queue = <<>>, !.lagged = FALSE, !.rx = FALSE]
<1>1. Dropped(c) = [chan EXCEPT ![c] = o]
  BY DEF Dropped, Channel
<1>2. chan[c] \in Channel /\ <<>> \in Seq(Nat)
  OBVIOUS
<1>3. o \in Channel
  BY <1>2 DEF Channel
<1>4. o.owner = chan[c].owner /\ o.rx = FALSE
  BY <1>2 DEF Channel
<1> HIDE DEF o
<1> QED BY <1>1, <1>3, <1>4

\* A frame, and any batch of events, can be written.
LEMMA WriteType ==
  ASSUME wire \in [Conns -> Seq(Frame)], NEW c \in Conns,
         NEW frames \in Seq(Frame), Write(c, frames)
  PROVE  wire' \in [Conns -> Seq(Frame)]
<1>1. wire[c] \o frames \in Seq(Frame)
  OBVIOUS
<1> QED BY <1>1 DEF Write

\* F makes frames.
LEMMA FrameType ==
  ASSUME NEW kind \in {"hello", "ok", "resync", "event", "sync", "expired",
                       "refused", "replaced", "bye"}, NEW at \in Nat
  PROVE  <<F(kind, at)>> \in Seq(Frame)
<1>1. F(kind, at) \in Frame
  BY DEF F, Frame
<1> QED BY <1>1

\* Events are written as frames.
LEMMA EventFramesType ==
  ASSUME NEW q \in Seq(Nat)
  PROVE  EventFrames(q) \in Seq(Frame)
<1>1. \A i \in 1..Len(q) : F("event", q[i]) \in Frame
  BY DEF F, Frame
<1> QED BY <1>1 DEF EventFrames

\* What ServerInv says, part by part.
LEMMA ServerParts ==
  ASSUME ServerInv
  PROVE  /\ sess \in [Sessions -> Session] /\ chan \in [Conns -> Channel]
         /\ BufferInv(sess) /\ HolderInv(sess, chan, conn)
         /\ RosterInv(sess, chan, conn)
         /\ clock \in Nat /\ revoked \subseteq Sessions
         /\ conn \in [Conns -> Task] /\ wire \in [Conns -> Seq(Frame)]
         /\ banned \subseteq Sessions /\ ending \in BOOLEAN
  BY DEF ServerInv, RosterInv, ConnTypeOK

\* How the parts of ServerInv make up its next-state version.
LEMMA ServerNext ==
  ASSUME RosterInv(sess', chan', conn'), clock' \in Nat,
         revoked' \subseteq Sessions,
         conn' \in [Conns -> Task], wire' \in [Conns -> Seq(Frame)],
         banned' \subseteq Sessions, ending' \in BOOLEAN
  PROVE  ServerInv'
  BY DEF ServerInv, ConnTypeOK

-----------------------------------------------------------------------------
(* A task ends, or moves on: what the actions have in common.              *)

\* The task ends and takes the session with it.
LEMMA EndWithSession ==
  ASSUME ServerInv, NEW c \in Conns, NEW over,
         EndSessions({chan[c].owner}, Dropped(c), over), End(c)
  PROVE  RosterInv(sess', chan', conn') /\ conn' \in [Conns -> Task]
<1>1. /\ conn' \in [Conns -> Task]
      /\ \A d \in Conns \ {c} : conn'[d].pc = conn[d].pc
  BY ServerParts, EndTask
<1>2. /\ Dropped(c) \in [Conns -> Channel]
      /\ \A d \in Conns \ {c} : Dropped(c)[d] = chan[d]
  BY ServerParts, DroppedChannel
<1>3. HolderInvBut(sess, Dropped(c), conn', {chan[c].owner})
  BY <1>1, <1>2, ServerParts, OthersHold
<1> QED BY <1>1, <1>2, <1>3, ServerParts, EndSessionsKeeps

\* The task ends and loses the session, whoever holds it.
LEMMA EndLosing ==
  ASSUME ServerInv, NEW c \in Conns, NEW over,
         Lose(chan[c].owner, Dropped(c), over), End(c)
  PROVE  /\ RosterInv(sess', chan', conn') /\ conn' \in [Conns -> Task]
         /\ clock' \in Nat
<1>1. /\ conn' \in [Conns -> Task]
      /\ \A d \in Conns \ {c} : conn'[d].pc = conn[d].pc
  BY ServerParts, EndTask
<1>2. /\ Dropped(c) \in [Conns -> Channel]
      /\ \A d \in Conns \ {c} : Dropped(c)[d] = chan[d]
  BY ServerParts, DroppedChannel
<1>3. HolderInvBut(sess, Dropped(c), conn', {chan[c].owner})
  BY <1>1, <1>2, ServerParts, OthersHold
<1>4. chan[c].owner \in Sessions
  BY ServerParts DEF Channel
<1>5. RosterInv(sess', chan', conn') /\ clock' \in Nat
  BY <1>2, <1>3, <1>4, ServerParts, LoseKeeps
<1> QED BY <1>1, <1>5

\* The task ends without touching the session it does not hold.
LEMMA EndNotHolding ==
  ASSUME ServerInv, NEW c \in Conns, ~Holds(chan[c].owner, c), End(c)
  PROVE  /\ HolderInv(sess, Dropped(c), conn')
         /\ HolderInv(sess, chan, conn')
<1>1. \A d \in Conns \ {c} : conn'[d].pc = conn[d].pc
  BY ServerParts, EndTask
<1>2. \A d \in Conns \ {c} : Dropped(c)[d] = chan[d]
  BY ServerParts, DroppedChannel
<1>3. \A s \in Sessions : ~Holds(s, c)
  BY ServerParts, HoldsOwner
<1>4. HolderInv(sess, Dropped(c), conn')
  BY <1>1, <1>2, <1>3, ServerParts, NobodyHolds
<1>5. HolderInv(sess, chan, conn')
  BY <1>1, <1>3, ServerParts, NobodyHolds
<1> QED BY <1>4, <1>5

\* connection_lost_from.
LEMMA EndLosingFrom ==
  ASSUME ServerInv, NEW c \in Conns, NEW over,
         LoseFrom(chan[c].owner, c, Dropped(c), over), End(c)
  PROVE  /\ RosterInv(sess', chan', conn') /\ conn' \in [Conns -> Task]
         /\ clock' \in Nat
<1>1. CASE Holds(chan[c].owner, c)
  BY <1>1, EndLosing DEF LoseFrom
<1>2. CASE ~Holds(chan[c].owner, c)
  <2>1. chan' = Dropped(c) /\ sess' = sess /\ clock' = clock
    BY <1>2 DEF LoseFrom
  <2>2. HolderInv(sess, Dropped(c), conn')
    BY <1>2, EndNotHolding
  <2>3. Dropped(c) \in [Conns -> Channel]
    BY ServerParts, DroppedChannel
  <2>4. conn' \in [Conns -> Task]
    BY ServerParts, EndTask
  <2> QED BY <2>1, <2>2, <2>3, <2>4, ServerParts DEF RosterInv
<1> QED BY <1>1, <1>2

\* The task goes on, the roster is not touched.
LEMMA GoOn ==
  ASSUME ServerInv, NEW c \in Conns, UNCHANGED <<sess, chan>>,
         conn' \in [Conns -> Task],
         \A d \in Conns \ {c} : conn'[d].pc = conn[d].pc,
         conn[c].pc \in Attending => conn'[c].pc \in Attending,
         conn[c].pc # "panicked", conn'[c].pc # "panicked"
  PROVE  RosterInv(sess', chan', conn')
<1>1. CASE conn[c].pc \in Attending /\ ~chan[c].rx
  <2>1. \A s \in Sessions : ~Holds(s, c)
    BY <1>1, ServerParts, HoldsOwner
  <2> QED BY <2>1, ServerParts, NobodyHolds DEF RosterInv
<1>2. CASE conn[c].pc \in Attending /\ chan[c].rx
  BY <1>2, ServerParts, StillHolds DEF RosterInv
<1>3. CASE conn[c].pc \notin Attending
  <2>1. \A s \in Sessions : ~Holds(s, c)
    BY <1>3, ServerParts, HoldsOwner
  <2> QED BY <2>1, ServerParts, NobodyHolds DEF RosterInv
<1> QED BY <1>1, <1>2, <1>3

\* The task takes an event from its queue.
LEMMA GoOnTaking ==
  ASSUME ServerInv, NEW c \in Conns, sess' = sess,
         chan[c].queue # <<>>,
         chan' = [chan EXCEPT ![c].queue = Tail(@)],
         conn' \in [Conns -> Task],
         \A d \in Conns \ {c} : conn'[d].pc = conn[d].pc,
         conn[c].pc \in Attending \ {"panicked"}, conn'[c].pc = conn[c].pc
  PROVE  RosterInv(sess', chan', conn')
<1>1. chan[c] \in Channel /\ chan[c].queue \in Seq(Nat)
  BY ServerParts DEF Channel
<1>2. Tail(chan[c].queue) \in Seq(Nat)
  BY <1>1
<1> DEFINE o == [chan[c] EXCEPT !.queue = Tail(chan[c].queue)]
<1>3. chan' = [chan EXCEPT ![c] = o]
  BY ServerParts DEF Channel
<1>4. o \in Channel
  BY <1>1, <1>2 DEF Channel
<1>5. o.owner = chan[c].owner /\ (o.rx <=> chan[c].rx) /\ (o.lagged <=> chan[c].lagged)
  BY <1>1 DEF Channel
<1> HIDE DEF o
<1>6. /\ chan' \in [Conns -> Channel] /\ chan'[c] = o
      /\ \A d \in Conns \ {c} : chan'[d] = chan[d]
  BY <1>3, <1>4, ServerParts
<1>7. HolderInv(sess, chan', conn')
  <2>1. CASE ~chan[c].rx
    <3>1. \A s \in Sessions : ~Holds(s, c)
      BY <2>1, ServerParts, HoldsOwner
    <3> QED BY <1>6, <3>1, ServerParts, NobodyHolds
  <2>2. CASE chan[c].rx
    BY <1>5, <1>6, <2>2, ServerParts, StillHolds
  <2> QED BY <2>1, <2>2
<1> QED BY <1>6, <1>7, ServerParts DEF RosterInv

-----------------------------------------------------------------------------
(* The handshakes.                                                         *)

\* A login attaches its session to a connection that attends to it.
LEMMA LoginAttachKeeps ==
  ASSUME ServerInv, NEW c \in Conns, NEW s \in Sessions, LoginAttach(c, s)
  PROVE  ServerInv'
<1>1. /\ conn[c].pc = "unused" /\ Attach(s, c)
      /\ conn' = [conn EXCEPT ![c].pc = "attached", ![c].peer = TRUE]
      /\ UNCHANGED <<clock, revoked, wire, banned, ending>>
  BY DEF LoginAttach, At
<1>2. /\ conn' \in [Conns -> Task] /\ conn'[c].pc = "attached"
      /\ \A d \in Conns \ {c} : conn'[d].pc = conn[d].pc
  <2>1. [conn[c] EXCEPT !.pc = "attached", !.peer = TRUE] \in Task
    BY ServerParts DEF Task, PCs
  <2> QED BY <1>1, <2>1, ServerParts DEF Task
<1>3. \A t \in Sessions : ~Holds(t, c)
  BY <1>1, ServerParts, HoldsOwner DEF Attending
<1> DEFINE C == [chan EXCEPT ![c] = NewChannel(s)]
<1>4. \A d \in Conns \ {c} : C[d] = chan[d]
  BY ServerParts
<1>5. HolderInv(sess, C, conn')
  BY <1>2, <1>3, <1>4, ServerParts, NobodyHolds
<1>6. HolderInvBut(sess, C, conn', {s})
  BY <1>5 DEF HolderInv, HolderInvBut
<1>7. conn'[c].pc \in Attending \ {"panicked"}
  BY <1>2 DEF Attending
<1>8. RosterInv(sess', chan', conn')
  BY <1>1, <1>6, <1>7, ServerParts, AttachKeeps
<1> QED BY <1>1, <1>2, <1>8, ServerParts, ServerNext

\* The others hear of the login; its session is held as it was.
LEMMA LoginAnnounceKeeps ==
  ASSUME ServerInv, NEW c \in Conns, NEW over, LoginAnnounce(c, over)
  PROVE  ServerInv'
<1>1. /\ conn[c].pc = "attached" /\ Announce(chan[c].owner, over)
      /\ Goto(c, "announced")
      /\ UNCHANGED <<clock, revoked, wire, banned, ending>>
  BY DEF LoginAnnounce, At, Owner
<1>2. /\ conn' \in [Conns -> Task] /\ conn'[c].pc = "announced"
      /\ \A d \in Conns \ {c} : conn'[d].pc = conn[d].pc
  BY <1>1, ServerParts, GotoTask DEF PCs
<1>3. HolderInv(sess, chan, conn')
  <2>1. CASE ~chan[c].rx
    <3>1. \A s \in Sessions : ~Holds(s, c)
      BY <1>1, <2>1, ServerParts, HoldsOwner
    <3> QED BY <1>2, <3>1, ServerParts, NobodyHolds
  <2>2. CASE chan[c].rx
    BY <1>1, <1>2, <2>2, ServerParts, StillHolds DEF Attending
  <2> QED BY <2>1, <2>2
<1>4. RosterInv(sess, chan, conn')
  BY <1>3, ServerParts DEF RosterInv
<1>5. chan[c].owner \in Sessions
  BY ServerParts DEF Channel
<1>6. RosterInv(sess', chan', conn')
  BY <1>1, <1>4, <1>5, AnnounceKeeps
<1> QED BY <1>1, <1>2, <1>6, ServerParts, ServerNext

\* From the login's reply on, the task runs.
LEMMA LoginReplyKeeps ==
  ASSUME ServerInv, NEW c \in Conns, LoginReply(c)
  PROVE  ServerInv'
<1>1. /\ conn[c].pc = "announced"
      /\ conn' = [conn EXCEPT ![c].pc = "run", ![c].detach = TRUE]
      /\ Write(c, <<F("hello", 0)>>)
      /\ UNCHANGED <<sess, chan, clock, revoked, banned, ending>>
  BY DEF LoginReply, At, rosterVars
<1>2. /\ conn' \in [Conns -> Task] /\ conn'[c].pc = "run"
      /\ \A d \in Conns \ {c} : conn'[d].pc = conn[d].pc
  <2>1. [conn[c] EXCEPT !.pc = "run", !.detach = TRUE] \in Task
    BY ServerParts DEF Task, PCs
  <2> QED BY <1>1, <2>1, ServerParts DEF Task
<1>3. wire' \in [Conns -> Seq(Frame)]
  BY <1>1, ServerParts, FrameType, WriteType
<1>4. RosterInv(sess', chan', conn')
  BY <1>1, <1>2, GoOn DEF Attending
<1> QED BY <1>1, <1>2, <1>3, <1>4, ServerParts, ServerNext

\* A login that fails ends the session that its task would orphan.
LEMMA LoginFailsKeeps ==
  ASSUME ServerInv, NEW c \in Conns, NEW over, LoginFails(c, over)
  PROVE  ServerInv'
<1>1. /\ EndSessions({chan[c].owner}, Dropped(c), over) /\ End(c)
      /\ UNCHANGED <<clock, revoked, wire, banned, ending>>
  BY DEF LoginFails, Owner
<1>2. RosterInv(sess', chan', conn') /\ conn' \in [Conns -> Task]
  BY <1>1, EndWithSession
<1> QED BY <1>1, <1>2, ServerParts, ServerNext

\* A banned person's resume ends the session.
LEMMA ResumeBannedKeeps ==
  ASSUME ServerInv, NEW c \in Conns, NEW s, NEW over,
         ResumeBanned(c, s, over)
  PROVE  ServerInv'
<1>1. /\ EndSessions({chan[c].owner}, Dropped(c), over) /\ End(c)
      /\ Write(c, <<F("refused", 0)>>)
      /\ UNCHANGED <<clock, revoked, banned, ending>>
  BY DEF ResumeBanned, Owner
<1>2. RosterInv(sess', chan', conn') /\ conn' \in [Conns -> Task]
  BY <1>1, EndWithSession
<1>3. wire' \in [Conns -> Seq(Frame)]
  BY <1>1, ServerParts, FrameType, WriteType
<1> QED BY <1>1, <1>2, <1>3, ServerParts, ServerNext

\* A resume over the account's limit never held the session.
LEMMA ResumeLimitedKeeps ==
  ASSUME ServerInv, NEW c \in Conns, ResumeLimited(c)
  PROVE  ServerInv'
<1>1. /\ conn[c].pc = "asked" /\ End(c)
      /\ Write(c, <<F("refused", 0)>>)
      /\ UNCHANGED <<sess, chan, clock, revoked, banned, ending>>
  BY DEF ResumeLimited, At, rosterVars
<1>2. ~Holds(chan[c].owner, c)
  <2>1. chan[c].owner \in Sessions
    BY ServerParts DEF Channel
  <2> QED BY <1>1, <2>1, ServerParts, HoldsOwner DEF Attending
<1>3. HolderInv(sess, chan, conn') /\ conn' \in [Conns -> Task]
  BY <1>1, <1>2, ServerParts, EndNotHolding, EndTask
<1>4. RosterInv(sess', chan', conn')
  BY <1>1, <1>3, ServerParts DEF RosterInv
<1>5. wire' \in [Conns -> Seq(Frame)]
  BY <1>1, ServerParts, FrameType, WriteType
<1> QED BY <1>1, <1>3, <1>4, <1>5, ServerParts, ServerNext

\* A resume that finds its session gone, kicked or revoked ends it.
LEMMA ResumeGoneKeeps ==
  ASSUME ServerInv, NEW c \in Conns, NEW over, ResumeGone(c, over)
  PROVE  ServerInv'
<1>1. /\ EndSessions({chan[c].owner}, Dropped(c), over) /\ End(c)
      /\ Write(c, <<F("expired", 0)>>)
      /\ UNCHANGED <<clock, revoked, banned, ending>>
  BY DEF ResumeGone, Owner
<1>2. RosterInv(sess', chan', conn') /\ conn' \in [Conns -> Task]
  BY <1>1, EndWithSession
<1>3. wire' \in [Conns -> Seq(Frame)]
  BY <1>1, ServerParts, FrameType, WriteType
<1> QED BY <1>1, <1>2, <1>3, ServerParts, ServerNext

\* A replay is a sequence of seqs: the buffer it is cut from has no gap and
\* reaches back to where the client is.
LEMMA ReplayType ==
  ASSUME ServerInv, NEW s \in Sessions, NEW last \in Nat,
         ResumeOutcome(s, last) = "replayed"
  PROVE  ReplayOf(s, last) \in Seq(Nat)
<1>1. CASE sess[s].sink = "buffering"
  <2>1. /\ sess[s].phase = "here" /\ ~sess[s].broken
        /\ last + 1 >= sess[s].start /\ last + 1 <= sess[s].next
    BY <1>1 DEF ResumeOutcome
  <2>2. /\ sess[s].start \in 1..sess[s].next
        /\ Consecutive(sess[s].buf, sess[s].start - 1)
        /\ sess[s].start + Len(sess[s].buf) = sess[s].next
    BY <1>1, <2>1, ServerParts DEF BufferInv, BufferOf, Buffering, Here
  <2>3. sess[s].buf \in Seq(Nat) /\ sess[s].start \in Nat /\ sess[s].next \in Nat
    BY ServerParts DEF Session
  <2>4. /\ sess[s].start - 1 \in Nat /\ sess[s].start - 1 <= last
        /\ last <= (sess[s].start - 1) + Len(sess[s].buf)
    BY <2>1, <2>2, <2>3
  <2>5. After(sess[s].buf, last) \in Seq(Nat)
    BY <2>2, <2>3, <2>4, ConsecutiveAfter
  <2> QED BY <1>1, <2>5 DEF ReplayOf
<1>2. CASE sess[s].sink # "buffering"
  BY <1>2 DEF ReplayOf
<1> QED BY <1>1, <1>2

\* A resume hands the session over, with a replay of seqs only.
LEMMA ResumeTakesKeeps ==
  ASSUME ServerInv, NEW c \in Conns, NEW shown, NEW over,
         ResumeTakes(c, shown, over)
  PROVE  ServerInv'
<1> DEFINE s == chan[c].owner
           last == conn[c].last
           outcome == ResumeOutcome(s, last)
           reply == IF outcome = "replayed" THEN "ok" ELSE "resync"
           out == IF outcome = "replayed" THEN ReplayOf(s, last) ELSE <<>>
           sent == IF outcome = "replayed" THEN last ELSE sess[s].next - 1
<1>1. /\ conn[c].pc = "asked" /\ outcome # "gone"
      /\ Resume(s, c, last, shown, over)
      /\ conn' = [conn EXCEPT ![c].pc = "replying", ![c].detach = TRUE,
                              ![c].reply = reply, ![c].out = out,
                              ![c].sent = sent]
      /\ UNCHANGED <<clock, revoked, wire, banned, ending>>
  BY DEF ResumeTakes, At, Owner
<1>2. s \in Sessions /\ last \in Nat /\ sess[s].next \in Nat /\ sess[s].next >= 1
  BY ServerParts DEF Channel, Task, Session, BufferInv, BufferOf
<1>3. reply \in {"none", "ok", "resync"} /\ out \in Seq(Nat) /\ sent \in Nat
  BY <1>2, ReplayType
<1> HIDE DEF outcome, reply, out, sent
<1>4. /\ conn' \in [Conns -> Task] /\ conn'[c].pc = "replying"
      /\ \A d \in Conns \ {c} : conn'[d].pc = conn[d].pc
  <2>1. [conn[c] EXCEPT !.pc = "replying", !.detach = TRUE, !.reply = reply,
                        !.out = out, !.sent = sent] \in Task
    BY ZenonT(60), <1>3, ServerParts DEF Task, PCs
  <2> QED BY <1>1, <2>1, ServerParts DEF Task
<1>5. \A t \in Sessions : ~Holds(t, c)
  BY <1>1, ServerParts, HoldsOwner DEF Attending
<1> DEFINE C == [chan EXCEPT ![c] = NewChannel(s)]
<1>6. \A d \in Conns \ {c} : C[d] = chan[d]
  BY ServerParts
<1>7. HolderInv(sess, C, conn')
  BY <1>4, <1>5, <1>6, ServerParts, NobodyHolds
<1>8. HolderInvBut(sess, C, conn', {s})
  BY <1>7 DEF HolderInv, HolderInvBut
<1>9. conn'[c].pc \in Attending \ {"panicked"}
  BY <1>4 DEF Attending
<1>10. RosterInv(sess', chan', conn')
  BY <1>1, <1>2, <1>8, <1>9, ServerParts, ResumeKeeps DEF outcome
<1> QED BY <1>1, <1>4, <1>10, ServerParts, ServerNext

\* The resume's reply is written.
LEMMA ResumeReplyKeeps ==
  ASSUME ServerInv, NEW c \in Conns, ResumeReply(c)
  PROVE  ServerInv'
<1>1. /\ conn[c].pc = "replying" /\ conn[c].reply # "none"
      /\ Write(c, <<F(conn[c].reply, conn[c].sent)>>)
      /\ conn' = [conn EXCEPT ![c].reply = "none"]
      /\ UNCHANGED <<sess, chan, clock, revoked, banned, ending>>
  BY DEF ResumeReply, At, rosterVars
<1>2. /\ conn' \in [Conns -> Task] /\ conn'[c].pc = conn[c].pc
      /\ \A d \in Conns \ {c} : conn'[d].pc = conn[d].pc
  <2>1. [conn[c] EXCEPT !.reply = "none"] \in Task
    BY ServerParts DEF Task
  <2> QED BY <1>1, <2>1, ServerParts DEF Task
<1>3. conn[c].reply \in {"ok", "resync"} /\ conn[c].sent \in Nat
  BY <1>1, ServerParts DEF Task
<1>4. wire' \in [Conns -> Seq(Frame)]
  BY <1>1, <1>3, ServerParts, FrameType, WriteType
<1>5. RosterInv(sess', chan', conn')
  BY <1>1, <1>2, GoOn DEF Attending
<1> QED BY <1>1, <1>2, <1>4, <1>5, ServerParts, ServerNext

\* One event of the replay is written.
LEMMA ResumeReplayKeeps ==
  ASSUME ServerInv, NEW c \in Conns, ResumeReplay(c)
  PROVE  ServerInv'
<1>1. /\ conn[c].pc = "replying" /\ conn[c].out # <<>>
      /\ Write(c, <<F("event", Head(conn[c].out))>>)
      /\ conn' = [conn EXCEPT ![c].out = Tail(@), ![c].sent = Head(conn[c].out)]
      /\ UNCHANGED <<sess, chan, clock, revoked, banned, ending>>
  BY DEF ResumeReplay, At, rosterVars
<1>2. conn[c].out \in Seq(Nat)
  BY ServerParts DEF Task
<1>3. Tail(conn[c].out) \in Seq(Nat) /\ Head(conn[c].out) \in Nat
  BY <1>1, <1>2
<1>4. /\ conn' \in [Conns -> Task] /\ conn'[c].pc = conn[c].pc
      /\ \A d \in Conns \ {c} : conn'[d].pc = conn[d].pc
  <2>1. [conn[c] EXCEPT !.out = Tail(conn[c].out),
                        !.sent = Head(conn[c].out)] \in Task
    BY <1>3, ServerParts DEF Task
  <2> QED BY <1>1, <2>1, ServerParts DEF Task
<1>5. wire' \in [Conns -> Seq(Frame)]
  BY <1>1, <1>3, ServerParts, FrameType, WriteType
<1>6. RosterInv(sess', chan', conn')
  BY <1>1, <1>4, GoOn DEF Attending
<1> QED BY <1>1, <1>4, <1>5, <1>6, ServerParts, ServerNext

\* The handshake is over and the loop begins.
LEMMA ResumeDoneKeeps ==
  ASSUME ServerInv, NEW c \in Conns, ResumeDone(c)
  PROVE  ServerInv'
<1>1. /\ conn[c].pc = "replying" /\ Goto(c, "run")
      /\ UNCHANGED <<sess, chan, clock, revoked, wire, banned, ending>>
  BY DEF ResumeDone, At, rosterVars
<1>2. /\ conn' \in [Conns -> Task] /\ conn'[c].pc = "run"
      /\ \A d \in Conns \ {c} : conn'[d].pc = conn[d].pc
  BY <1>1, ServerParts, GotoTask DEF PCs
<1>3. RosterInv(sess', chan', conn')
  BY <1>1, <1>2, GoOn DEF Attending
<1> QED BY <1>1, <1>2, <1>3, ServerParts, ServerNext

\* A handshake that fails still attends to its session.
LEMMA ResumeFailsKeeps ==
  ASSUME ServerInv, NEW c \in Conns, ResumeFails(c)
  PROVE  ServerInv'
<1>1. /\ conn[c].pc = "replying" /\ Goto(c, "resumelost")
      /\ UNCHANGED <<sess, chan, clock, revoked, wire, banned, ending>>
  BY DEF ResumeFails, At, rosterVars
<1>2. /\ conn' \in [Conns -> Task] /\ conn'[c].pc = "resumelost"
      /\ \A d \in Conns \ {c} : conn'[d].pc = conn[d].pc
  BY <1>1, ServerParts, GotoTask DEF PCs
<1>3. RosterInv(sess', chan', conn')
  BY <1>1, <1>2, GoOn DEF Attending
<1> QED BY <1>1, <1>2, <1>3, ServerParts, ServerNext

\* It then ends or detaches the session, whoever holds it.
LEMMA ResumeLostKeeps ==
  ASSUME ServerInv, NEW c \in Conns, NEW over, ResumeLost(c, over)
  PROVE  ServerInv'
<1>1. /\ Lose(chan[c].owner, Dropped(c), over) /\ End(c)
      /\ UNCHANGED <<revoked, wire, banned, ending>>
  BY DEF ResumeLost, Owner
<1>2. /\ RosterInv(sess', chan', conn') /\ conn' \in [Conns -> Task]
      /\ clock' \in Nat
  BY <1>1, EndLosing
<1> QED BY <1>1, <1>2, ServerParts, ServerNext

-----------------------------------------------------------------------------
(* The main loop.                                                          *)

\* An event moves from the channel to the task.
LEMMA TakeKeeps ==
  ASSUME ServerInv, NEW c \in Conns, Take(c)
  PROVE  ServerInv'
<1>1. /\ conn[c].pc = "run" /\ chan[c].queue # <<>>
      /\ conn' = [conn EXCEPT ![c].out = Append(@, Head(chan[c].queue))]
      /\ chan' = [chan EXCEPT ![c].queue = Tail(@)]
      /\ UNCHANGED <<sess, clock, revoked, wire, banned, ending>>
  BY DEF Take, At
<1>2. conn[c].out \in Seq(Nat) /\ chan[c].queue \in Seq(Nat)
  BY ServerParts DEF Task, Channel
<1>3. Append(conn[c].out, Head(chan[c].queue)) \in Seq(Nat)
  BY <1>1, <1>2
<1>4. /\ conn' \in [Conns -> Task] /\ conn'[c].pc = conn[c].pc
      /\ \A d \in Conns \ {c} : conn'[d].pc = conn[d].pc
  <2>1. [conn[c] EXCEPT !.out = Append(conn[c].out, Head(chan[c].queue))] \in Task
    BY <1>3, ServerParts DEF Task
  <2> QED BY <1>1, <2>1, ServerParts DEF Task
<1>5. RosterInv(sess', chan', conn')
  BY <1>1, <1>4, GoOnTaking DEF Attending
<1> QED BY <1>1, <1>4, <1>5, ServerParts, ServerNext

\* A batch is written.
LEMMA SendEventsKeeps ==
  ASSUME ServerInv, NEW c \in Conns, SendEvents(c)
  PROVE  ServerInv'
<1> DEFINE out == conn[c].out
           pc == IF HasKick(c) THEN "kicked" ELSE conn[c].pc
<1>1. /\ conn[c].pc = "run" /\ out # <<>>
      /\ Write(c, EventFrames(out))
      /\ conn' = [conn EXCEPT ![c].pc = pc, ![c].out = <<>>,
                              ![c].sent = out[Len(out)]]
      /\ UNCHANGED <<sess, chan, clock, revoked, banned, ending>>
  BY DEF SendEvents, At, rosterVars
<1>2. out \in Seq(Nat) /\ <<>> \in Seq(Nat)
  BY ServerParts DEF Task
<1>3. out[Len(out)] \in Nat
  BY <1>1, <1>2
<1>4. pc \in {"run", "kicked"}
  BY <1>1
<1> HIDE DEF pc
<1>5. /\ conn' \in [Conns -> Task] /\ conn'[c].pc = pc
      /\ \A d \in Conns \ {c} : conn'[d].pc = conn[d].pc
  <2>1. [conn[c] EXCEPT !.pc = pc, !.out = <<>>,
                        !.sent = out[Len(out)]] \in Task
    BY ZenonT(60), <1>2, <1>3, <1>4, ServerParts DEF Task, PCs
  <2> QED BY <1>1, <2>1, ServerParts DEF Task
<1>6. wire' \in [Conns -> Seq(Frame)]
  BY <1>1, <1>2, ServerParts, EventFramesType, WriteType
<1>7. RosterInv(sess', chan', conn')
  BY <1>1, <1>4, <1>5, GoOn DEF Attending
<1> QED BY <1>1, <1>5, <1>6, <1>7, ServerParts, ServerNext

\* A batch with a Kicked could not be written.
LEMMA SendKickedFailsKeeps ==
  ASSUME ServerInv, NEW c \in Conns, SendKickedFails(c)
  PROVE  ServerInv'
<1>1. /\ conn[c].pc = "run" /\ Goto(c, "kicked")
      /\ UNCHANGED <<sess, chan, clock, revoked, wire, banned, ending>>
  BY DEF SendKickedFails, At, rosterVars
<1>2. /\ conn' \in [Conns -> Task] /\ conn'[c].pc = "kicked"
      /\ \A d \in Conns \ {c} : conn'[d].pc = conn[d].pc
  BY <1>1, ServerParts, GotoTask DEF PCs
<1>3. RosterInv(sess', chan', conn')
  BY <1>1, <1>2, GoOn DEF Attending
<1> QED BY <1>1, <1>2, <1>3, ServerParts, ServerNext

\* A task that relayed a Kicked ends its session.
LEMMA EndKickedKeeps ==
  ASSUME ServerInv, NEW c \in Conns, NEW over, EndKicked(c, over)
  PROVE  ServerInv'
<1>1. /\ EndSessions({chan[c].owner}, Dropped(c), over) /\ End(c)
      /\ Write(c, <<F("bye", conn[c].sent)>>)
      /\ UNCHANGED <<clock, revoked, banned, ending>>
  BY DEF EndKicked, Owner
<1>2. RosterInv(sess', chan', conn') /\ conn' \in [Conns -> Task]
  BY <1>1, EndWithSession
<1>3. conn[c].sent \in Nat
  BY ServerParts DEF Task
<1>4. wire' \in [Conns -> Seq(Frame)]
  BY <1>1, <1>3, ServerParts, FrameType, WriteType
<1> QED BY <1>1, <1>2, <1>4, ServerParts, ServerNext

\* A queue that is closed and never lagged is nobody's any more.
LEMMA ClosedUnheld ==
  ASSUME ServerInv, NEW c \in Conns, conn[c].pc \in {"run", "drain"},
         ~TxOpen(c), ~chan[c].lagged
  PROVE  \A s \in Sessions : ~Holds(s, c)
<1> SUFFICES ASSUME NEW s \in Sessions, Holds(s, c) PROVE FALSE
  OBVIOUS
<1>1. /\ chan[c].owner = s
      /\ sess[s].sink = "lagged" /\ chan[c].rx => chan[c].lagged
      /\ chan[c].rx
  BY ServerParts, HoldsOwner
<1> QED BY <1>1 DEF Holds, TxOpen

\* What NoMoreEvents and SyncDrained do with a closed queue.
LEMMA ClosedKeeps ==
  ASSUME ServerInv, NEW c \in Conns, conn[c].pc \in {"run", "drain"},
         ~TxOpen(c),
         Goto(c, IF chan[c].lagged THEN "lost" ELSE "replaced"),
         UNCHANGED <<sess, chan>>
  PROVE  RosterInv(sess', chan', conn') /\ conn' \in [Conns -> Task]
<1>1. CASE chan[c].lagged
  <2>1. /\ conn' \in [Conns -> Task] /\ conn'[c].pc = "lost"
        /\ \A d \in Conns \ {c} : conn'[d].pc = conn[d].pc
    BY <1>1, ServerParts, GotoTask DEF PCs
  <2>2. RosterInv(sess', chan', conn')
    BY <2>1, GoOn DEF Attending
  <2> QED BY <2>1, <2>2
<1>2. CASE ~chan[c].lagged
  <2>1. /\ conn' \in [Conns -> Task] /\ conn'[c].pc = "replaced"
        /\ \A d \in Conns \ {c} : conn'[d].pc = conn[d].pc
    BY <1>2, ServerParts, GotoTask DEF PCs
  <2>2. \A s \in Sessions : ~Holds(s, c)
    BY <1>2, ClosedUnheld
  <2>3. HolderInv(sess, chan, conn')
    BY <2>1, <2>2, ServerParts, NobodyHolds
  <2> QED BY <2>1, <2>3, ServerParts DEF RosterInv
<1> QED BY <1>1, <1>2

\* A task leaves the loop when its channel is closed and drained.
LEMMA NoMoreEventsKeeps ==
  ASSUME ServerInv, NEW c \in Conns, NoMoreEvents(c)
  PROVE  ServerInv'
<1>1. /\ conn[c].pc = "run" /\ ~TxOpen(c)
      /\ Goto(c, IF chan[c].lagged THEN "lost" ELSE "replaced")
      /\ UNCHANGED <<sess, chan, clock, revoked, wire, banned, ending>>
  BY DEF NoMoreEvents, At, rosterVars
<1>2. RosterInv(sess', chan', conn') /\ conn' \in [Conns -> Task]
  BY <1>1, ClosedKeeps
<1> QED BY <1>1, <1>2, ServerParts, ServerNext

\* A task leaves the loop when it lags.
LEMMA LagExitKeeps ==
  ASSUME ServerInv, NEW c \in Conns, LagExit(c)
  PROVE  ServerInv'
<1>1. /\ conn[c].pc = "run" /\ Goto(c, "lost")
      /\ UNCHANGED <<sess, chan, clock, revoked, wire, banned, ending>>
  BY DEF LagExit, At, rosterVars
<1>2. /\ conn' \in [Conns -> Task] /\ conn'[c].pc = "lost"
      /\ \A d \in Conns \ {c} : conn'[d].pc = conn[d].pc
  BY <1>1, ServerParts, GotoTask DEF PCs
<1>3. RosterInv(sess', chan', conn')
  BY <1>1, <1>2, GoOn DEF Attending
<1> QED BY <1>1, <1>2, <1>3, ServerParts, ServerNext

\* A replaced task ends, and holds nothing.
LEMMA ReplacedKeeps ==
  ASSUME ServerInv, NEW c \in Conns, Replaced(c)
  PROVE  ServerInv'
<1>1. /\ conn[c].pc = "replaced" /\ chan' = Dropped(c) /\ End(c)
      /\ Write(c, <<F("replaced", conn[c].sent)>>)
      /\ UNCHANGED <<sess, clock, revoked, banned, ending>>
  BY DEF Replaced, At
<1>2. chan[c].owner \in Sessions /\ conn[c].sent \in Nat
  BY ServerParts DEF Channel, Task
<1>3. ~Holds(chan[c].owner, c)
  BY <1>1, <1>2, ServerParts, HoldsOwner DEF Attending
<1>4. HolderInv(sess, Dropped(c), conn') /\ conn' \in [Conns -> Task]
  BY <1>1, <1>3, ServerParts, EndNotHolding, EndTask
<1>5. Dropped(c) \in [Conns -> Channel]
  BY ServerParts, DroppedChannel
<1>6. RosterInv(sess', chan', conn')
  BY <1>1, <1>4, <1>5, ServerParts DEF RosterInv
<1>7. wire' \in [Conns -> Seq(Frame)]
  BY <1>1, <1>2, ServerParts, FrameType, WriteType
<1> QED BY <1>1, <1>4, <1>6, <1>7, ServerParts, ServerNext

\* handle_sync reads a seq of a session that is here, or 0.
LEMMA SyncStartKeeps ==
  ASSUME ServerInv, NEW c \in Conns, SyncStart(c)
  PROVE  ServerInv'
<1> DEFINE mark == CurrentSeq(chan[c].owner)
<1>1. /\ conn[c].pc = "run"
      /\ conn' = [conn EXCEPT ![c].pc = "drain", ![c].kick = FALSE,
                              ![c].mark = mark]
      /\ UNCHANGED <<sess, chan, clock, revoked, wire, banned, ending>>
  BY DEF SyncStart, At, Owner, rosterVars
<1>2. mark \in Nat
  <2>1. chan[c].owner \in Sessions
    BY ServerParts DEF Channel
  <2>2. sess[chan[c].owner].next \in Nat /\ sess[chan[c].owner].next >= 1
    BY <2>1, ServerParts DEF Session, BufferInv, BufferOf
  <2> QED BY <2>2 DEF CurrentSeq
<1> HIDE DEF mark
<1>3. /\ conn' \in [Conns -> Task] /\ conn'[c].pc = "drain"
      /\ \A d \in Conns \ {c} : conn'[d].pc = conn[d].pc
  <2>1. [conn[c] EXCEPT !.pc = "drain", !.kick = FALSE, !.mark = mark] \in Task
    BY ZenonT(60), <1>2, ServerParts DEF Task, PCs
  <2> QED BY <1>1, <2>1, ServerParts DEF Task
<1>4. RosterInv(sess', chan', conn')
  BY <1>1, <1>3, GoOn DEF Attending
<1> QED BY <1>1, <1>3, <1>4, ServerParts, ServerNext

\* A sync writes one event of the queue.
LEMMA SyncDrainKeeps ==
  ASSUME ServerInv, NEW c \in Conns, SyncDrain(c)
  PROVE  ServerInv'
<1> DEFINE seq == Head(chan[c].queue)
           mark == IF seq > conn[c].mark THEN seq ELSE conn[c].mark
           kick == conn[c].kick \/ seq \in sess[chan[c].owner].kicks
<1>1. /\ conn[c].pc = "drain" /\ chan[c].queue # <<>>
      /\ chan' = [chan EXCEPT ![c].queue = Tail(@)]
      /\ Write(c, <<F("event", seq)>>)
      /\ conn' = [conn EXCEPT ![c].mark = mark, ![c].kick = kick,
                              ![c].sent = seq]
      /\ UNCHANGED <<sess, clock, revoked, banned, ending>>
  BY DEF SyncDrain, At, Owner
<1>2. chan[c].queue \in Seq(Nat) /\ conn[c].mark \in Nat
  BY ServerParts DEF Task, Channel
<1>3. seq \in Nat
  BY <1>1, <1>2
<1>4. mark \in Nat
  BY <1>2, <1>3
<1>5. kick \in BOOLEAN
  OBVIOUS
<1> HIDE DEF seq, mark, kick
<1>6. /\ conn' \in [Conns -> Task] /\ conn'[c].pc = conn[c].pc
      /\ \A d \in Conns \ {c} : conn'[d].pc = conn[d].pc
  <2>1. [conn[c] EXCEPT !.mark = mark, !.kick = kick, !.sent = seq] \in Task
    BY <1>3, <1>4, <1>5, ServerParts DEF Task
  <2> QED BY <1>1, <2>1, ServerParts DEF Task
<1>7. wire' \in [Conns -> Seq(Frame)]
  BY <1>1, <1>3, ServerParts, FrameType, WriteType
<1>8. RosterInv(sess', chan', conn')
  BY <1>1, <1>6, GoOnTaking DEF Attending
<1> QED BY <1>1, <1>6, <1>7, <1>8, ServerParts, ServerNext

\* A sync has drained the queue.
LEMMA SyncDrainedKeeps ==
  ASSUME ServerInv, NEW c \in Conns, SyncDrained(c)
  PROVE  ServerInv'
<1>1. /\ conn[c].pc = "drain"
      /\ UNCHANGED <<sess, chan, clock, revoked, wire, banned, ending>>
  BY DEF SyncDrained, At, rosterVars
<1>2. CASE TxOpen(c)
  <2> DEFINE pc == IF conn[c].kick THEN "kicked" ELSE "syncing"
  <2>1. Goto(c, pc)
    BY <1>2 DEF SyncDrained
  <2>2. pc \in {"kicked", "syncing"}
    OBVIOUS
  <2> HIDE DEF pc
  <2>3. /\ conn' \in [Conns -> Task] /\ conn'[c].pc = pc
        /\ \A d \in Conns \ {c} : conn'[d].pc = conn[d].pc
    BY <2>1, <2>2, ServerParts, GotoTask DEF PCs
  <2>4. RosterInv(sess', chan', conn')
    BY <1>1, <2>2, <2>3, GoOn DEF Attending
  <2> QED BY <1>1, <2>3, <2>4, ServerParts, ServerNext
<1>3. CASE ~TxOpen(c)
  <2>1. Goto(c, IF chan[c].lagged THEN "lost" ELSE "replaced")
    BY <1>3 DEF SyncDrained
  <2>2. RosterInv(sess', chan', conn') /\ conn' \in [Conns -> Task]
    BY <1>1, <1>3, <2>1, ClosedKeeps
  <2> QED BY <1>1, <2>2, ServerParts, ServerNext
<1> QED BY <1>2, <1>3

\* A sync is answered.
LEMMA SyncReplyKeeps ==
  ASSUME ServerInv, NEW c \in Conns, SyncReply(c)
  PROVE  ServerInv'
<1>1. /\ conn[c].pc = "syncing" /\ Goto(c, "run")
      /\ Write(c, <<F("sync", conn[c].mark)>>)
      /\ UNCHANGED <<sess, chan, clock, revoked, banned, ending>>
  BY DEF SyncReply, At, rosterVars
<1>2. /\ conn' \in [Conns -> Task] /\ conn'[c].pc = "run"
      /\ \A d \in Conns \ {c} : conn'[d].pc = conn[d].pc
  BY <1>1, ServerParts, GotoTask DEF PCs
<1>3. conn[c].mark \in Nat
  BY ServerParts DEF Task
<1>4. wire' \in [Conns -> Seq(Frame)]
  BY <1>1, <1>3, ServerParts, FrameType, WriteType
<1>5. RosterInv(sess', chan', conn')
  BY <1>1, <1>2, GoOn DEF Attending
<1> QED BY <1>1, <1>2, <1>4, <1>5, ServerParts, ServerNext

\* A logout ends the session.
LEMMA LogoutKeeps ==
  ASSUME ServerInv, NEW c \in Conns, NEW over, Logout(c, over)
  PROVE  ServerInv'
<1>1. /\ EndSessions({chan[c].owner}, Dropped(c), over) /\ End(c)
      /\ Write(c, <<F("bye", conn[c].sent)>>)
      /\ UNCHANGED <<clock, revoked, banned, ending>>
  BY DEF Logout, Owner
<1>2. RosterInv(sess', chan', conn') /\ conn' \in [Conns -> Task]
  BY <1>1, EndWithSession
<1>3. conn[c].sent \in Nat
  BY ServerParts DEF Task
<1>4. wire' \in [Conns -> Seq(Frame)]
  BY <1>1, <1>3, ServerParts, FrameType, WriteType
<1> QED BY <1>1, <1>2, <1>4, ServerParts, ServerNext

-----------------------------------------------------------------------------
(* Failures.                                                               *)

\* A task whose socket fails still attends to its session.
LEMMA ConnFailsKeeps ==
  ASSUME ServerInv, NEW c \in Conns, ConnFails(c)
  PROVE  ServerInv'
<1>1. /\ conn[c].pc \in {"run", "drain", "syncing"} /\ Goto(c, "lost")
      /\ UNCHANGED <<sess, chan, clock, revoked, wire, banned, ending>>
  BY DEF ConnFails, rosterVars
<1>2. /\ conn' \in [Conns -> Task] /\ conn'[c].pc = "lost"
      /\ \A d \in Conns \ {c} : conn'[d].pc = conn[d].pc
  BY <1>1, ServerParts, GotoTask DEF PCs
<1>3. RosterInv(sess', chan', conn')
  BY <1>1, <1>2, GoOn DEF Attending
<1> QED BY <1>1, <1>2, <1>3, ServerParts, ServerNext

\* It then ends or detaches the session, if it holds it.
LEMMA ConnectionLostKeeps ==
  ASSUME ServerInv, NEW c \in Conns, NEW over, ConnectionLost(c, over)
  PROVE  ServerInv'
<1>1. /\ LoseFrom(chan[c].owner, c, Dropped(c), over) /\ End(c)
      /\ UNCHANGED <<revoked, wire, banned, ending>>
  BY DEF ConnectionLost, Owner
<1>2. /\ RosterInv(sess', chan', conn') /\ conn' \in [Conns -> Task]
      /\ clock' \in Nat
  BY <1>1, EndLosingFrom
<1> QED BY <1>1, <1>2, ServerParts, ServerNext

\* A panicking task drops its receiver and still is the one to let go.
LEMMA PanicKeeps ==
  ASSUME ServerInv, NEW c \in Conns, Panic(c)
  PROVE  ServerInv'
<1>1. /\ conn[c].pc \in Attending \ {"panicked"}
      /\ conn' = [conn EXCEPT ![c].pc = "panicked", ![c].out = <<>>]
      /\ chan' = Dropped(c)
      /\ UNCHANGED <<sess, clock, revoked, wire, banned, ending>>
  BY DEF Panic
<1>2. /\ conn' \in [Conns -> Task] /\ conn'[c].pc = "panicked"
      /\ \A d \in Conns \ {c} : conn'[d].pc = conn[d].pc
  <2>1. <<>> \in Seq(Nat)
    OBVIOUS
  <2>2. [conn[c] EXCEPT !.pc = "panicked", !.out = <<>>] \in Task
    BY ZenonT(60), <2>1, ServerParts DEF Task, PCs
  <2> QED BY <1>1, <2>2, ServerParts DEF Task
<1>3. /\ chan' \in [Conns -> Channel]
      /\ \A d \in Conns \ {c} : chan'[d] = chan[d]
      /\ chan'[c].owner = chan[c].owner /\ ~chan'[c].rx
  BY <1>1, ServerParts, DroppedChannel
<1>4. HolderInv(sess, chan', conn')
  BY ZenonT(60), <1>1, <1>2, <1>3, ServerParts, StillHolds DEF Attending
<1>5. RosterInv(sess', chan', conn')
  BY <1>1, <1>3, <1>4, ServerParts DEF RosterInv
<1> QED BY <1>1, <1>2, <1>5, ServerParts, ServerNext

\* After a panic the session is let go, if the task held it.
LEMMA LetGoKeeps ==
  ASSUME ServerInv, NEW c \in Conns, NEW over, LetGo(c, over)
  PROVE  ServerInv'
<1>1. End(c) /\ UNCHANGED <<revoked, wire, banned, ending>>
  BY DEF LetGo
<1>2. CASE conn[c].detach
  <2>1. LoseFrom(chan[c].owner, c, Dropped(c), over)
    BY <1>2 DEF LetGo, Owner
  <2>2. /\ RosterInv(sess', chan', conn') /\ conn' \in [Conns -> Task]
        /\ clock' \in Nat
    BY <1>1, <2>1, EndLosingFrom
  <2> QED BY <1>1, <2>2, ServerParts, ServerNext
<1>3. CASE ~conn[c].detach /\ Holds(chan[c].owner, c)
  <2>1. EndSessions({chan[c].owner}, Dropped(c), over) /\ clock' = clock
    BY <1>3 DEF LetGo, Owner
  <2>2. RosterInv(sess', chan', conn') /\ conn' \in [Conns -> Task]
    BY <1>1, <2>1, EndWithSession
  <2> QED BY <1>1, <2>1, <2>2, ServerParts, ServerNext
<1>4. CASE ~conn[c].detach /\ ~Holds(chan[c].owner, c)
  <2>1. chan' = Dropped(c) /\ UNCHANGED <<sess, clock>>
    BY <1>4 DEF LetGo, Owner
  <2>2. HolderInv(sess, Dropped(c), conn') /\ conn' \in [Conns -> Task]
    BY <1>1, <1>4, ServerParts, EndNotHolding, EndTask
  <2>3. Dropped(c) \in [Conns -> Channel]
    BY ServerParts, DroppedChannel
  <2>4. RosterInv(sess', chan', conn')
    BY <2>1, <2>2, <2>3, ServerParts DEF RosterInv
  <2> QED BY <1>1, <2>1, <2>2, <2>4, ServerParts, ServerNext
<1> QED BY <1>2, <1>3, <1>4

-----------------------------------------------------------------------------
(* The rest of the server.                                                 *)

\* An event is sent to a session.
LEMMA PublishKeeps ==
  ASSUME ServerInv, NEW s \in Sessions, NEW over, Publish(s, over)
  PROVE  ServerInv'
<1>1. /\ SendTo(s, over)
      /\ UNCHANGED <<clock, revoked, conn, wire, banned, ending>>
  BY DEF Publish, connVars
<1>2. RosterInv(sess', chan', conn)
  BY <1>1, ServerParts, SendToKeeps
<1> QED BY <1>1, <1>2, ServerParts, ServerNext

\* A session is kicked.
LEMMA KickKeeps ==
  ASSUME ServerInv, NEW s \in Sessions, NEW over, Kick(s, over)
  PROVE  ServerInv'
<1>1. /\ KickAll({s}, TRUE, over)
      /\ UNCHANGED <<clock, revoked, conn, wire, banned, ending>>
  BY DEF Kick, connVars
<1>2. {s} \in SUBSET Sessions /\ TRUE \in BOOLEAN
  OBVIOUS
<1>3. RosterInv(sess', chan', conn)
  BY <1>1, <1>2, ServerParts, KickAllKeeps
<1> QED BY <1>1, <1>3, ServerParts, ServerNext

\* A ban touches no session.
LEMMA BanKeeps ==
  ASSUME ServerInv, NEW s \in Sessions, Ban(s)
  PROVE  ServerInv'
<1>1. /\ banned' = banned \cup {s}
      /\ UNCHANGED <<sess, chan, clock, revoked, conn, wire, ending>>
  BY DEF Ban, rosterVars
<1> QED BY <1>1, ServerParts, ServerNext

\* Nor does a new revocation list.
LEMMA RevokeKeeps ==
  ASSUME ServerInv, NEW s \in Sessions, Revoke(s)
  PROVE  ServerInv'
<1>1. /\ revoked' = revoked \cup {s} /\ ending' = TRUE
      /\ UNCHANGED <<sess, chan, clock, conn, wire, banned>>
  BY DEF Revoke
<1> QED BY <1>1, ServerParts, ServerNext

\* The revoked are sent Kicked or, when detached, end.
LEMMA EndRevokedKeeps ==
  ASSUME ServerInv, NEW over, EndRevoked(over)
  PROVE  ServerInv'
<1> DEFINE X == Here(sess) \cap revoked
<1>1. /\ KickAll(X, FALSE, over) /\ ending' = FALSE
      /\ UNCHANGED <<clock, revoked, conn, wire, banned>>
  BY DEF EndRevoked
<1>2. X \in SUBSET Sessions /\ FALSE \in BOOLEAN
  BY DEF Here
<1> HIDE DEF X
<1>3. RosterInv(sess', chan', conn)
  BY <1>1, <1>2, ServerParts, KickAllKeeps
<1> QED BY <1>1, <1>3, ServerParts, ServerNext

\* The sweeper ends detached sessions, which nobody holds.
LEMMA SweepKeeps ==
  ASSUME ServerInv, NEW t, NEW over, Sweep(t, over)
  PROVE  ServerInv'
<1> DEFINE V == {s \in Buffering(sess) : sess[s].since <= t}
<1>1. /\ EndSessions(V, chan, over)
      /\ UNCHANGED <<clock, revoked, conn, wire, banned, ending>>
  BY DEF Sweep, SweepDetached, connVars
<1> HIDE DEF V
<1>2. HolderInvBut(sess, chan, conn, V)
  BY ServerParts DEF HolderInv, HolderInvBut
<1>3. RosterInv(sess', chan', conn)
  BY <1>1, <1>2, ServerParts, EndSessionsKeeps
<1> QED BY <1>1, <1>3, ServerParts, ServerNext

-----------------------------------------------------------------------------
(* The client.                                                             *)

\* A client logs in.
LEMMA ClientLoginKeeps ==
  ASSUME CoreInv, NEW c \in Conns, NEW s \in Sessions, ClientLogin(c, s)
  PROVE  CoreInv'
<1>1. ServerInv /\ cli \in [Sessions -> Client]
  BY DEF CoreInv
<1>2. LoginAttach(c, s) /\ cli' = [cli EXCEPT ![s].conn = c]
  BY DEF ClientLogin
<1>3. cli' \in [Sessions -> Client]
  <2>1. [cli[s] EXCEPT !.conn = c] \in Client
    BY <1>1 DEF Client
  <2> QED BY <1>1, <1>2, <2>1
<1> QED BY <1>1, <1>2, <1>3, LoginAttachKeeps DEF CoreInv

\* A client resumes, on a connection that nothing uses yet.
LEMMA ClientResumeKeeps ==
  ASSUME CoreInv, NEW c \in Conns, NEW s \in Sessions, ClientResume(c, s)
  PROVE  CoreInv'
<1>1. ServerInv /\ cli \in [Sessions -> Client]
  BY DEF CoreInv
<1>2. /\ conn[c].pc = "unused"
      /\ cli' = [cli EXCEPT ![s].conn = c]
      /\ chan' = [chan EXCEPT ![c].owner = s]
      /\ UNCHANGED <<sess, clock, revoked, banned, ending>>
  BY DEF ClientResume, At
<1>3. conn' = [d \in Conns |->
        IF d = c THEN [conn[c] EXCEPT !.pc = "asked", !.peer = TRUE,
                                      !.last = cli[s].last]
        ELSE IF d = cli[s].conn THEN [conn[d] EXCEPT !.peer = FALSE]
        ELSE conn[d]]
  BY DEF ClientResume
<1>4. wire' = [d \in Conns |-> IF d = cli[s].conn THEN <<>> ELSE wire[d]]
  BY DEF ClientResume
<1>5. cli' \in [Sessions -> Client]
  <2>1. [cli[s] EXCEPT !.conn = c] \in Client
    BY <1>1 DEF Client
  <2> QED BY <1>1, <1>2, <2>1
<1>6. ASSUME NEW d \in Conns
      PROVE  conn'[d] \in Task /\ (d # c => conn'[d].pc = conn[d].pc)
  <2>0. conn[d] \in Task /\ conn[c] \in Task /\ cli[s].last \in Nat
    BY <1>1, ServerParts DEF Client
  <2>1. CASE d = c
    <3>1. conn'[d] = [conn[c] EXCEPT !.pc = "asked", !.peer = TRUE,
                                     !.last = cli[s].last]
      BY <1>3, <2>1
    <3>2. [conn[c] EXCEPT !.pc = "asked", !.peer = TRUE,
                          !.last = cli[s].last] \in Task
      BY <2>0 DEF Task, PCs
    <3> QED BY <2>1, <3>1, <3>2
  <2>2. CASE d # c /\ d = cli[s].conn
    <3>1. conn'[d] = [conn[d] EXCEPT !.peer = FALSE]
      BY <1>3, <2>2
    <3>2. /\ [conn[d] EXCEPT !.peer = FALSE] \in Task
          /\ [conn[d] EXCEPT !.peer = FALSE].pc = conn[d].pc
      BY <2>0 DEF Task
    <3> QED BY <3>1, <3>2
  <2>3. CASE d # c /\ d # cli[s].conn
    <3>1. conn'[d] = conn[d]
      BY <1>3, <2>3
    <3> QED BY <2>0, <3>1
  <2> QED BY <2>1, <2>2, <2>3
<1>7. conn' \in [Conns -> Task]
  <2>1. conn' = [d \in Conns |-> conn'[d]]
    BY <1>3
  <2> QED BY <1>6, <2>1
<1>8. wire' \in [Conns -> Seq(Frame)]
  BY <1>1, <1>4, ServerParts
<1>9. /\ chan' \in [Conns -> Channel]
      /\ \A d \in Conns \ {c} : chan'[d] = chan[d]
  <2>1. [chan[c] EXCEPT !.owner = s] \in Channel
    BY <1>1, ServerParts DEF Channel
  <2> QED BY <1>1, <1>2, <2>1, ServerParts
<1>10. \A t \in Sessions : ~Holds(t, c)
  BY <1>1, <1>2, ServerParts, HoldsOwner DEF Attending
<1>11. HolderInv(sess, chan', conn')
  BY <1>1, <1>6, <1>9, <1>10, ServerParts, NobodyHolds
<1>12. RosterInv(sess', chan', conn')
  BY <1>1, <1>2, <1>9, <1>11, ServerParts DEF RosterInv
<1> QED BY <1>1, <1>2, <1>5, <1>7, <1>8, <1>12, ServerParts, ServerNext
        DEF CoreInv

\* A client reads a frame.
LEMMA ClientReadsKeeps ==
  ASSUME CoreInv, NEW s \in Sessions, ClientReads(s)
  PROVE  CoreInv'
<1> DEFINE c == cli[s].conn
           f == Head(wire[c])
           token == (cli[s].token \/ f.kind = "hello") /\ f.kind # "expired"
           last == IF f.kind \in {"event", "sync"} THEN f.at ELSE cli[s].last
           stale == CASE f.kind = "resync" -> TRUE
                      [] f.kind = "sync" -> FALSE
                      [] OTHER -> cli[s].stale
<1>1. ServerInv /\ cli \in [Sessions -> Client]
  BY DEF CoreInv
<1>2. /\ c # NoConn /\ wire[c] # <<>>
      /\ wire' = [wire EXCEPT ![c] = Tail(@)]
      /\ cli' = [cli EXCEPT ![s].token = token, ![s].last = last,
                            ![s].stale = stale]
      /\ UNCHANGED <<sess, chan, clock, revoked, conn, banned, ending>>
  BY DEF ClientReads, rosterVars
<1>3. c \in Conns /\ cli[s] \in Client
  BY <1>1, <1>2 DEF Client
<1>4. wire[c] \in Seq(Frame)
  BY <1>1, <1>3, ServerParts
<1>5. f \in Frame /\ Tail(wire[c]) \in Seq(Frame)
  BY <1>2, <1>4
<1>6. token \in BOOLEAN /\ last \in Nat
  BY <1>3, <1>5 DEF Client, Frame
<1>7. stale \in BOOLEAN
  BY <1>3, <1>5 DEF Client
<1> HIDE DEF token, last, stale, f
<1>8. cli' \in [Sessions -> Client]
  <2>1. [cli[s] EXCEPT !.token = token, !.last = last,
                       !.stale = stale] \in Client
    BY <1>3, <1>6, <1>7 DEF Client
  <2> QED BY <1>1, <1>2, <2>1
<1>9. wire' \in [Conns -> Seq(Frame)]
  BY <1>1, <1>2, <1>3, <1>5, ServerParts
<1> QED BY <1>1, <1>2, <1>8, <1>9, ServerParts, ServerNext DEF CoreInv

-----------------------------------------------------------------------------
(* The invariant, and what follows from it.                                *)

\* CoreInv holds at the start.
LEMMA CoreInit == Init => CoreInv
<1> SUFFICES ASSUME Init PROVE CoreInv
  OBVIOUS
<1> USE DEF Init, RosterInit, ConnInit
<1>1. sess \in [Sessions -> Session]
  BY NoSessionType
<1>2. chan \in [Conns -> Channel]
  <2>1. (CHOOSE s \in Sessions : TRUE) \in Sessions
    BY SessionsAssumption
  <2>2. <<>> \in Seq(Nat)
    OBVIOUS
  <2> QED BY <2>1, <2>2 DEF Channel
<1>3. BufferInv(sess) /\ HolderInv(sess, chan, conn)
  BY DEF BufferInv, BufferOf, HolderInv, Buffering, Here, NoSession
<1>4. conn \in [Conns -> Task] /\ wire \in [Conns -> Seq(Frame)]
  <2>1. <<>> \in Seq(Nat) /\ <<>> \in Seq(Frame)
    OBVIOUS
  <2> QED BY <2>1 DEF NewTask, Task, PCs
<1>5. cli \in [Sessions -> Client]
  BY DEF Client
<1> QED BY <1>1, <1>2, <1>3, <1>4, <1>5
        DEF CoreInv, ServerInv, RosterInv, ConnTypeOK

\* One step of one task.
LEMMA TaskKeeps ==
  ASSUME ServerInv, NEW c \in Conns,
         TaskStep(c) \/ TaskFault(c) \/ TaskRequest(c)
  PROVE  ServerInv'
<1>1. CASE TaskStep(c)
  <2>1. CASE \/ LoginReply(c) \/ ResumeReply(c) \/ ResumeReplay(c)
             \/ ResumeDone(c) \/ Take(c) \/ SendEvents(c) \/ NoMoreEvents(c)
             \/ LagExit(c) \/ Replaced(c) \/ SyncDrain(c) \/ SyncDrained(c)
             \/ SyncReply(c)
    BY <2>1, LoginReplyKeeps, ResumeReplyKeeps, ResumeReplayKeeps,
       ResumeDoneKeeps, TakeKeeps, SendEventsKeeps, NoMoreEventsKeeps,
       LagExitKeeps, ReplacedKeeps, SyncDrainKeeps, SyncDrainedKeeps,
       SyncReplyKeeps
  <2>2. ASSUME NEW over,
               \/ LoginAnnounce(c, over) \/ ResumeGone(c, over)
               \/ \E s \in Sessions : ResumeBanned(c, s, over)
               \/ \E shown \in BOOLEAN : ResumeTakes(c, shown, over)
               \/ ResumeLost(c, over) \/ EndKicked(c, over)
               \/ ConnectionLost(c, over) \/ LetGo(c, over)
        PROVE  ServerInv'
    BY <2>2, LoginAnnounceKeeps, ResumeGoneKeeps, ResumeBannedKeeps,
       ResumeTakesKeeps, ResumeLostKeeps, EndKickedKeeps,
       ConnectionLostKeeps, LetGoKeeps
  <2> QED BY <1>1, <2>1, <2>2 DEF TaskStep
<1>2. CASE TaskFault(c)
  BY <1>2, ResumeLimitedKeeps, ResumeFailsKeeps, SendKickedFailsKeeps,
     ConnFailsKeeps, PanicKeeps, LoginFailsKeeps DEF TaskFault
<1>3. CASE TaskRequest(c)
  BY <1>3, SyncStartKeeps, LogoutKeeps DEF TaskRequest
<1> QED BY <1>1, <1>2, <1>3

\* Every step keeps CoreInv.
LEMMA CoreNext == CoreInv /\ [Next]_vars => CoreInv'
<1> SUFFICES ASSUME CoreInv, [Next]_vars PROVE CoreInv'
  OBVIOUS
<1>1. ServerInv /\ cli \in [Sessions -> Client]
  BY DEF CoreInv
<1>2. ASSUME ServerInv', UNCHANGED cli PROVE CoreInv'
  BY <1>1, <1>2 DEF CoreInv
<1>3. ASSUME NEW c \in Conns,
             TaskStep(c) \/ TaskFault(c) \/ TaskRequest(c), UNCHANGED cli
      PROVE  CoreInv'
  BY <1>1, <1>2, <1>3, TaskKeeps
<1>4. CASE ServerStep /\ UNCHANGED cli
  BY <1>1, <1>2, <1>4, PublishKeeps, KickKeeps, EndRevokedKeeps, SweepKeeps
     DEF ServerStep
<1>5. ASSUME NEW s \in Sessions, Ban(s) \/ Revoke(s), UNCHANGED cli
      PROVE  CoreInv'
  BY <1>1, <1>2, <1>5, BanKeeps, RevokeKeeps
<1>6. ASSUME NEW c \in Conns, NEW s \in Sessions,
             ClientLogin(c, s) \/ ClientResume(c, s)
      PROVE  CoreInv'
  BY <1>6, ClientLoginKeeps, ClientResumeKeeps
<1>7. ASSUME NEW s \in Sessions, ClientReads(s) PROVE CoreInv'
  BY <1>7, ClientReadsKeeps
<1>8. CASE UNCHANGED vars
  <2>1. UNCHANGED <<sess, chan, clock, revoked, conn, wire, banned, ending, cli>>
    BY <1>8 DEF vars, rosterVars, connVars
  <2> QED BY <1>1, <2>1, ServerParts, ServerNext DEF CoreInv
<1> QED BY <1>3, <1>4, <1>5, <1>6, <1>7, <1>8 DEF Next

\* The inductive invariant behind the theorems below: the types, gapless
\* replay buffers, and every sink's holder attending to its session (the
\* roster's outboxes and the exits of run, handle_login and handle_resume).
THEOREM CoreInvariant == Spec => []CoreInv
<1>1. Init => CoreInv
  BY CoreInit
<1>2. CoreInv /\ [Next]_vars => CoreInv'
  BY CoreNext
<1> QED BY <1>1, <1>2, PTL DEF Spec

\* Every variable keeps its type: in particular a resume never replays
\* anything but seqs and handle_sync never answers a negative one.
THEOREM TypeCorrect == Spec => []TypeOK
<1>1. CoreInv => TypeOK
  BY DEF CoreInv, ServerInv, RosterInv, TypeOK, RosterTypeOK
<1> QED BY <1>1, CoreInvariant, PTL

\* However connections are opened, taken over, lost, lag or panic, no
\* session is left on the roster held by a task that has ended.
THEOREM NoOrphanEver == Spec => []NoOrphan
<1>1. CoreInv => NoOrphan
  BY DEF CoreInv, ServerInv, RosterInv, HolderInv, HolderOf, NoOrphan
<1> QED BY <1>1, CoreInvariant, PTL

\* A detached session's buffer holds every event since it detached, without
\* a gap, or is marked broken.
THEOREM BufferComplete == Spec => []BufferInv(sess)
<1>1. CoreInv => BufferInv(sess)
  BY DEF CoreInv, ServerInv, RosterInv
<1> QED BY <1>1, CoreInvariant, PTL

=============================================================================
