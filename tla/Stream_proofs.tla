---------------------------- MODULE Stream_proofs ----------------------------
(***************************************************************************)
(* What a client is promised of its session, for any number of sessions    *)
(* and connections and any caps: NgSessionInv's IInv is an invariant, so   *)
(* nothing is sent twice and the server implements EventStream; a kicked   *)
(* session is never kept for a resume, and an address keeps no more        *)
(* detached sessions than the cap.                                         *)
(*                                                                         *)
(* Every section of the roster changes the sessions and then delivers      *)
(* events.  The first part says once what such a section may do to a       *)
(* session (Grows) and to a connection that has no part in it (Bystands);  *)
(* the second takes each action's own connection through its step.         *)
(***************************************************************************)
EXTENDS NgSession_proofs, WellFoundedInduction

-----------------------------------------------------------------------------
(* A section of the roster.                                                *)

\* What a section does to a session: seqs only grow, and so does what can
\* have left its outbox.
Grows(s) ==
  /\ sess'[s].next >= sess[s].next
  /\ Reach(sess', s) >= Reach(sess, s)
  /\ sess'[s].phase = "none" => sess[s].phase = "none" /\ sess'[s].next = sess[s].next

\* What it does to a connection whose own task has no part in it.
Bystands(d) ==
  /\ chan'[d].owner = chan[d].owner
  /\ Len(chan'[d].queue) >= Len(chan[d].queue)
  /\ TxOpen(d)' => TxOpen(d)
  /\ conn[d].pc \in Writing /\ ChannelOf(sess, chan, conn, d) =>
       ChannelOf(sess', chan', conn, d)

\* The sessions S that a section delivers to, against those it found.
Raises(S, s) ==
  /\ S[s].next = sess[s].next
  /\ Reach(S, s) >= Reach(sess, s)
  /\ S[s].phase = "none" => sess[s].phase = "none"

LEMMA ReachType ==
  ASSUME NEW S \in [Sessions -> Session], NEW s \in Sessions
  PROVE  Reach(S, s) \in Int /\ S[s].next \in Nat
<1>1. S[s] \in Session
  OBVIOUS
<1> QED BY <1>1 DEF Reach, Session

\* Nothing past the last seq has left an outbox.
LEMMA ReachBound ==
  ASSUME NEW S \in [Sessions -> Session], NEW s \in Sessions, BufferOf(S, s)
  PROVE  Reach(S, s) \in Int /\ Reach(S, s) <= S[s].next - 1
  BY DEF Reach, BufferOf, Buffering, Here, Session

\* A delivery only adds to what has left the outbox.
LEMMA DeliverGrows ==
  ASSUME NEW S \in [Sessions -> Session], NEW C \in [Conns -> Channel],
         NEW N \in [Sessions -> Nat], NEW over, Deliver(S, C, N, over),
         NEW s \in Sessions, BufferOf(S, s)
  PROVE  /\ sess'[s].phase = S[s].phase /\ sess'[s].next >= S[s].next
         /\ S[s].phase # "here" => sess'[s].next = S[s].next
         /\ Reach(sess', s) >= Reach(S, s)
         /\ s \in Buffering(sess)' <=> s \in Buffering(S)
         /\ sess'[s].since = S[s].since
         /\ sess'[s].kicked <=> S[s].kicked
<1>1. S[s].next \in Nat /\ N[s] \in Nat
  BY DEF Session
<1>2. CASE S[s].phase # "here"
  <2>1. sess'[s] = S[s]
    BY <1>2, DeliverAt
  <2> QED BY <1>1, <1>2, <2>1, ReachBound DEF Reach, Buffering, Here
<1>3. CASE S[s].phase = "here"
  <2>1. PICK p : p = PushSession(S, C, N, over, s)
    OBVIOUS
  <2>2. PICK full \in BOOLEAN : full = Overflows(S, C, N, over, s)
    BY DEF Overflows
  <2>3. sess'[s] = p
    BY <1>3, <2>1, DeliverAt
  <2>4. /\ p.phase = S[s].phase /\ (p.kicked <=> S[s].kicked)
        /\ p.start = S[s].start /\ p.since = S[s].since
        /\ p.next = S[s].next + N[s]
        /\ p.sink = IF S[s].sink = "live" /\ full THEN "lagged" ELSE S[s].sink
        /\ p.broken <=> (S[s].broken \/ (S[s].sink = "buffering" /\ full))
    BY <2>1, <2>2, PushSessionFacts
  <2>5. full => N[s] > 0
    BY <2>2 DEF Overflows
  <2>6. Reach(sess', s) >= Reach(S, s)
    BY <1>1, <1>3, <2>3, <2>4, <2>5 DEF Reach, BufferOf, Buffering, Here, Session
  <2>7. s \in Buffering(sess)' <=> s \in Buffering(S)
    BY <1>3, <2>3, <2>4 DEF Buffering, Here
  <2> QED BY <1>1, <1>3, <2>3, <2>4, <2>6, <2>7
<1> QED BY <1>2, <1>3

\* A channel that was pushed to.
LEMMA LongerGrown ==
  ASSUME NEW o \in Channel, NEW from, NEW n, NEW lag
  PROVE  /\ Longer(o, from, n, lag).queue = o.queue \o Run(from, n)
         /\ Longer(o, from, n, lag).owner = o.owner
         /\ Longer(o, from, n, lag).rx <=> o.rx
<1>2. Longer(o, from, n, lag).queue = o.queue \o Run(from, n)
  BY LongerQueue
<1>3. Longer(o, from, n, lag).owner = o.owner /\ (Longer(o, from, n, lag).rx <=> o.rx)
  BY LongerFrame
<1> QED BY <1>2, <1>3

\* A queue goes on where its task's reading will have got to.
LEMMA DeliverStands ==
  ASSUME NEW S \in [Sessions -> Session], NEW C \in [Conns -> Channel],
         NEW N \in [Sessions -> Nat], NEW over, Deliver(S, C, N, over),
         NEW d \in Conns, BufferOf(S, C[d].owner)
  PROVE  /\ chan'[d].owner = C[d].owner
         /\ IsLive(sess', C[d].owner, d) => IsLive(S, C[d].owner, d)
         /\ Len(chan'[d].queue) >= Len(C[d].queue)
<1> DEFINE s == C[d].owner
<1>1. C[d] \in Channel /\ s \in Sessions
  BY DEF Channel
<1>2. C[d].queue \in Seq(Nat) /\ S[s].next \in Nat
  BY <1>1 DEF Channel, Session
<1>3. chan'[d] = IF S[s].phase = "here" THEN PushChannel(S, C, N, over, d) ELSE C[d]
  BY DEF Deliver
<1>4. IsLive(sess', s, d) => IsLive(S, s, d)
  BY <1>1, DeliverSession DEF IsLive
<1>5. CASE S[s].phase = "here" /\ S[s].sink = "live" /\ S[s].conn = d /\ C[d].rx
  <2>1. PICK n, lag : n = Taken(S, C, N, over, s) /\ lag = Overflows(S, C, N, over, s)
    OBVIOUS
  <2>2. chan'[d] = Longer(C[d], S[s].next, n, lag)
    BY <1>3, <1>5, <2>1, PushChannelHolder
  <2>3. n \in Nat
    BY <1>1, <1>5, <2>1, TakenFacts
  <2>4. /\ chan'[d].queue = C[d].queue \o Run(S[s].next, n)
        /\ chan'[d].owner = C[d].owner
    <3>1. PICK o, from : o = C[d] /\ from = S[s].next
      OBVIOUS
    <3> DEFINE q == Longer(o, from, n, lag)
    <3>2. q = chan'[d] /\ o \in Channel
      BY <1>1, <2>2, <3>1
    <3>3. q.queue = o.queue \o Run(from, n) /\ q.owner = o.owner
      BY <3>2, LongerGrown
    <3> HIDE DEF q
    <3> QED BY <3>1, <3>2, <3>3
  <2>5. Len(chan'[d].queue) = Len(C[d].queue) + n
    <3>1. PICK r : r = Run(S[s].next, n)
      OBVIOUS
    <3>2. r \in Seq(Nat) /\ Len(r) = n
      BY <1>2, <2>3, <3>1, RunFacts
    <3>3. Len(C[d].queue \o r) = Len(C[d].queue) + Len(r)
      BY <1>2, <3>2, ConcatProperties
    <3> QED BY <2>4, <3>1, <3>2, <3>3
  <2> QED BY <1>2, <1>4, <2>3, <2>4, <2>5
<1>6. CASE ~(S[s].phase = "here" /\ S[s].sink = "live" /\ S[s].conn = d /\ C[d].rx)
  <2>1. chan'[d] = C[d]
    BY <1>3, <1>6, PushNoChannel
  <2> QED BY <1>2, <1>4, <2>1
<1> QED BY <1>5, <1>6

LEMMA DeliverChannelOf ==
  ASSUME NEW S \in [Sessions -> Session], NEW C \in [Conns -> Channel],
         NEW N \in [Sessions -> Nat], NEW over, Deliver(S, C, N, over),
         NEW K \in [Conns -> Task], NEW d \in Conns, BufferOf(S, C[d].owner),
         ChannelOf(S, C, K, d)
  PROVE  ChannelOf(sess', chan', K, d)
<1> DEFINE s == C[d].owner
<1>1. C[d] \in Channel /\ s \in Sessions
  BY DEF Channel
<1>2. /\ C[d].queue \in Seq(Nat) /\ S[s].next \in Nat /\ N[s] \in Nat
      /\ K[d].sent \in Nat /\ K[d].out \in Seq(Nat)
  BY <1>1 DEF Channel, Session, Task
<1>3. chan'[d] = IF S[s].phase = "here" THEN PushChannel(S, C, N, over, d) ELSE C[d]
  BY DEF Deliver
<1>4. IsLive(sess', s, d) => IsLive(S, s, d)
  BY <1>1, DeliverSession DEF IsLive
<1>5. /\ C[d].rx /\ Consecutive(K[d].out, K[d].sent)
      /\ Consecutive(C[d].queue, K[d].sent + Len(K[d].out))
      /\ Position(C, K, d) <= Reach(S, s)
      /\ IsLive(S, s, d) => Position(C, K, d) = S[s].next - 1
  BY DEF ChannelOf
<1>6. Reach(sess', s) >= Reach(S, s) /\ Reach(S, s) \in Int
  BY <1>1, DeliverGrows, ReachBound
<1>7. CASE IsLive(S, s, d)
  <2>1. PICK n, lag : n = Taken(S, C, N, over, s) /\ lag = Overflows(S, C, N, over, s)
    OBVIOUS
  <2>0. S[s].phase = "here" /\ S[s].sink = "live" /\ S[s].conn = d
    BY <1>7 DEF IsLive
  <2>2. chan'[d] = Longer(C[d], S[s].next, n, lag)
    BY <1>3, <1>5, <2>0, <2>1, PushChannelHolder
  <2>3. n \in Nat /\ (lag => n < N[s]) /\ (~lag => n = N[s])
    BY <1>1, <2>0, <2>1, TakenFacts
  <2>4. /\ chan'[d].queue = C[d].queue \o Run(S[s].next, n) /\ chan'[d].owner = C[d].owner
        /\ chan'[d].rx
    <3>1. PICK o, from : o = C[d] /\ from = S[s].next
      OBVIOUS
    <3> DEFINE q == Longer(o, from, n, lag)
    <3>2. q = chan'[d] /\ o \in Channel
      BY <1>1, <2>2, <3>1
    <3>3. q.queue = o.queue \o Run(from, n) /\ q.owner = o.owner /\ (q.rx <=> o.rx)
      BY <3>2, LongerGrown
    <3> HIDE DEF q
    <3> QED BY <1>5, <3>1, <3>2, <3>3
  <2>5. S[s].next = (K[d].sent + Len(K[d].out)) + Len(C[d].queue) + 1
    BY <1>2, <1>5, <1>7 DEF Position
  <2>6. /\ Len(chan'[d].queue) = Len(C[d].queue) + n
        /\ Consecutive(chan'[d].queue, K[d].sent + Len(K[d].out))
    <3>1. PICK a, q, from : a = K[d].sent + Len(K[d].out) /\ q = C[d].queue /\ from = S[s].next
      OBVIOUS
    <3>2. /\ a \in Nat /\ q \in Seq(Nat) /\ from \in Nat /\ from = a + Len(q) + 1
          /\ Consecutive(q, a)
      BY <1>2, <1>5, <2>5, <3>1
    <3>3. Len(q \o Run(from, n)) = Len(q) + n /\ Consecutive(q \o Run(from, n), a)
      BY <2>3, <3>2, ConsecutiveRun
    <3> QED BY <2>4, <3>1, <3>3
  <2>7. Position(chan', K, d) = S[s].next - 1 + n
    BY SMTT(30), <1>2, <2>3, <2>5, <2>6 DEF Position
  <2>8. /\ sess'[s].phase = "here" /\ sess'[s].next = S[s].next + N[s]
        /\ sess'[s].sink = IF lag THEN "lagged" ELSE "live"
    <3>1. sess'[s] = PushSession(S, C, N, over, s)
      BY <1>1, <2>0, DeliverAt
    <3> QED BY <1>1, <2>0, <2>1, <3>1, PushSessionFacts
  <2>9. Position(chan', K, d) <= Reach(sess', s)
    BY <1>2, <2>3, <2>7, <2>8 DEF Reach
  <2>10. IsLive(sess', s, d) => Position(chan', K, d) = sess'[s].next - 1
    BY <1>2, <2>3, <2>7, <2>8 DEF IsLive
  <2> QED BY <1>5, <2>4, <2>6, <2>9, <2>10 DEF ChannelOf
<1>8. CASE ~IsLive(S, s, d)
  <2>1. chan'[d] = C[d]
    BY <1>3, <1>8, PushNoChannel DEF IsLive
  <2>2. Position(chan', K, d) = Position(C, K, d) /\ Position(C, K, d) \in Int
    BY <1>2, <2>1 DEF Position
  <2>3. Reach(sess', s) \in Int
    <3>1. sess'[s] \in Session
      BY <1>1, DeliverTypes
    <3> QED BY <3>1 DEF Reach, Session
  <2>4. Position(chan', K, d) <= Reach(sess', s)
    BY <1>5, <1>6, <2>2, <2>3
  <2> QED BY <1>4, <1>5, <1>8, <2>1, <2>4 DEF ChannelOf
<1> QED BY <1>7, <1>8

\* A section: the sessions become S and the channels C, then events are
\* delivered.  Whoever's channel it left alone only stands by.
LEMMA SectionGrows ==
  ASSUME sess \in [Sessions -> Session], chan \in [Conns -> Channel],
         conn \in [Conns -> Task],
         NEW S \in [Sessions -> Session], NEW C \in [Conns -> Channel],
         NEW N \in [Sessions -> Nat], NEW over, BufferInv(sess), BufferInv(S),
         \A s \in Sessions : Raises(S, s), Deliver(S, C, N, over)
  PROVE  /\ \A s \in Sessions : Grows(s)
         /\ \A d \in Conns :
              /\ C[d] = chan[d]
              /\ IsLive(S, chan[d].owner, d) => IsLive(sess, chan[d].owner, d)
              => Bystands(d)
<1>1. ASSUME NEW s \in Sessions PROVE Grows(s)
  <2>1. BufferOf(S, s) /\ BufferOf(sess, s) /\ Raises(S, s)
    BY DEF BufferInv
  <2>2. /\ sess'[s].phase = S[s].phase /\ sess'[s].next >= S[s].next
        /\ S[s].phase # "here" => sess'[s].next = S[s].next
        /\ Reach(sess', s) >= Reach(S, s)
    BY <2>1, DeliverGrows
  <2>3. sess' \in [Sessions -> Session]
    BY DeliverTypes
  <2>4. Reach(sess', s) \in Int /\ Reach(S, s) \in Int /\ Reach(sess, s) \in Int
    BY <2>3, ReachType
  <2> QED BY <2>1, <2>2, <2>4 DEF Grows, Raises
<1>2. ASSUME NEW d \in Conns, C[d] = chan[d],
             IsLive(S, chan[d].owner, d) => IsLive(sess, chan[d].owner, d)
      PROVE  Bystands(d)
  <2>0. chan[d].owner \in Sessions /\ chan[d].queue \in Seq(Nat)
    BY DEF Channel
  <2>1. BufferOf(S, C[d].owner) /\ BufferOf(sess, chan[d].owner) /\ Raises(S, chan[d].owner)
    BY <1>2, <2>0 DEF BufferInv
  <2>2. /\ chan'[d].owner = chan[d].owner
        /\ IsLive(sess', chan[d].owner, d) => IsLive(S, chan[d].owner, d)
        /\ Len(chan'[d].queue) >= Len(chan[d].queue)
    BY <1>2, <2>1, DeliverStands
  <2>3. TxOpen(d)' => TxOpen(d)
    BY <1>2, <2>2 DEF TxOpen, IsLive
  <2>4. ASSUME conn[d].pc \in Writing, ChannelOf(sess, chan, conn, d)
        PROVE  ChannelOf(sess', chan', conn, d)
    <3>1. Position(C, conn, d) = Position(chan, conn, d) /\ Position(chan, conn, d) \in Int
      BY <1>2, <2>0 DEF Position, Task
    <3>2. Reach(S, C[d].owner) \in Int /\ Reach(sess, chan[d].owner) \in Int
      BY <1>2, <2>0, ReachType
    <3>3. Position(C, conn, d) <= Reach(S, C[d].owner)
      BY <1>2, <2>1, <2>4, <3>1, <3>2 DEF ChannelOf, Raises
    <3>4. IsLive(S, C[d].owner, d) => Position(C, conn, d) = S[C[d].owner].next - 1
      BY <1>2, <2>1, <2>4, <3>1 DEF ChannelOf, Raises
    <3>5. ChannelOf(S, C, conn, d)
      BY <1>2, <2>4, <3>3, <3>4 DEF ChannelOf
    <3> QED BY <2>1, <3>5, DeliverChannelOf
  <2> QED BY <2>2, <2>3, <2>4 DEF Bystands
<1> QED BY <1>1, <1>2

\* A section that did nothing to the sessions and to channel d.
LEMMA StillGrows ==
  ASSUME sess \in [Sessions -> Session], chan \in [Conns -> Channel], sess' = sess
  PROVE  /\ \A s \in Sessions : Grows(s)
         /\ \A d \in Conns : chan'[d] = chan[d] => Bystands(d)
<1>1. \A s \in Sessions : Reach(sess, s) \in Int /\ sess[s].next \in Nat
  BY DEF Reach, Session
<1>2. \A s \in Sessions : Grows(s)
  BY <1>1 DEF Grows
<1>3. ASSUME NEW d \in Conns, chan'[d] = chan[d] PROVE Bystands(d)
  <2>1. Len(chan[d].queue) \in Nat
    BY DEF Channel
  <2> QED BY <1>3, <2>1 DEF Bystands, TxOpen, ChannelOf, Position
<1> QED BY <1>2, <1>3

\* Sessions with the outboxes of others.
LEMMA SameRaises ==
  ASSUME sess \in [Sessions -> Session], NEW S, NEW s \in Sessions,
         S[s].phase = sess[s].phase, S[s].next = sess[s].next,
         S[s].sink = sess[s].sink, S[s].start = sess[s].start,
         S[s].broken <=> sess[s].broken
  PROVE  Raises(S, s)
<1>1. Reach(S, s) = Reach(sess, s) /\ Reach(sess, s) \in Int
  BY DEF Reach, Session
<1> QED BY <1>1 DEF Raises

\* Removing sessions: all they had may have left.
LEMMA RemovedRaises ==
  ASSUME sess \in [Sessions -> Session], NEW S \in [Sessions -> Session], NEW V,
         NEW s \in Sessions, BufferOf(S, s), Raises(S, s)
  PROVE  /\ Raises(Removed(S, V), s)
         /\ \A d : IsLive(Removed(S, V), s, d) => IsLive(S, s, d)
<1> DEFINE R == Removed(S, V)
<1>1. CASE s \notin V
  <2>1. R[s] = S[s]
    BY <1>1, RemovedAt
  <2> HIDE DEF R
  <2>2. Raises(R, s)
    BY <2>1 DEF Raises, Reach
  <2>3. \A d : IsLive(R, s, d) => IsLive(S, s, d)
    BY <2>1 DEF IsLive
  <2> QED BY <2>2, <2>3 DEF R
<1>2. CASE s \in V
  <2>1. R[s].phase = "gone" /\ R[s].next = S[s].next
    BY <1>2, RemovedAt
  <2> HIDE DEF R
  <2>2. Reach(R, s) = S[s].next - 1
    BY <2>1 DEF Reach
  <2>3. Reach(S, s) \in Int /\ Reach(S, s) <= S[s].next - 1 /\ Reach(sess, s) \in Int
    BY ReachBound, ReachType
  <2>4. S[s].next \in Nat
    BY DEF Session
  <2>5. Raises(R, s)
    BY <2>1, <2>2, <2>3, <2>4 DEF Raises
  <2>6. \A d : IsLive(R, s, d) => IsLive(S, s, d)
    BY <2>1 DEF IsLive
  <2> QED BY <2>5, <2>6 DEF R
<1> QED BY <1>1, <1>2

\* A session that is detached was so before, with the same stamp, and has
\* not been kicked since.
Lies(S, s) ==
  s \in Buffering(S) =>
    /\ s \in Buffering(sess) /\ S[s].since = sess[s].since
    /\ S[s].kicked => sess[s].kicked

\* What a section says of all sessions, and of the connections whose channel
\* it found as it was.
Moves(C) ==
  /\ \A s \in Sessions : Grows(s)
  /\ \A d \in Conns : /\ C[d] = chan[d] => Bystands(d)
                      /\ chan'[d].owner = C[d].owner

\* A section that makes no session live with a connection.
LEMMA SectionMoves ==
  ASSUME ServerInv, NEW S \in [Sessions -> Session], NEW C \in [Conns -> Channel],
         NEW N \in [Sessions -> Nat], NEW over, BufferInv(S),
         \A s \in Sessions : Raises(S, s),
         \A s \in Sessions, d \in Conns : IsLive(S, s, d) => IsLive(sess, s, d),
         Deliver(S, C, N, over)
  PROVE  /\ Moves(C)
         /\ \A s \in Sessions : Lies(S, s) => Lies(sess', s)
<1>1. Moves(C)
  <2>1. \A d \in Conns : chan[d].owner \in Sessions
    BY ServerParts DEF Channel
  <2>2. ASSUME NEW d \in Conns PROVE chan'[d].owner = C[d].owner
    <3>1. BufferOf(S, C[d].owner)
      BY DEF BufferInv, Channel
    <3> QED BY <3>1, DeliverStands
  <2> QED BY <2>1, <2>2, ServerParts, SectionGrows DEF Moves
<1>2. ASSUME NEW s \in Sessions, Lies(S, s) PROVE Lies(sess', s)
  <2>1. /\ s \in Buffering(sess)' <=> s \in Buffering(S)
        /\ sess'[s].since = S[s].since
        /\ sess'[s].kicked <=> S[s].kicked
    BY DeliverGrows DEF BufferInv
  <2>2. s \in Buffering(sess)' <=> s \in Buffering(sess')
    BY DEF Buffering, Here
  <2> QED BY <1>2, <2>1, <2>2 DEF Lies
<1> QED BY <1>1, <1>2

\* end_session.
LEMMA EndSessionsMoves ==
  ASSUME ServerInv, NEW C \in [Conns -> Channel], NEW V, NEW over,
         EndSessions(V, C, over)
  PROVE  Moves(C) /\ \A s \in Sessions : Lies(sess', s)
<1>1. PICK W : W = V \cap Here(sess)
  OBVIOUS
<1>2. Deliver(Removed(sess, W), C, Parted(sess, W), over)
  BY <1>1 DEF EndSessions
<1>3. PICK R : R = Removed(sess, W)
  OBVIOUS
<1>4. R \in [Sessions -> Session] /\ BufferInv(R)
  <2>1. HolderInvBut(sess, chan, conn, W)
    BY ServerParts DEF HolderInv, HolderInvBut
  <2>2. RosterInv(R, chan, conn)
    BY <1>3, <2>1, ServerParts, RemovedKeeps
  <2> QED BY <2>2 DEF RosterInv
<1>5. \A s \in Sessions : Raises(sess, s)
  BY ServerParts, SameRaises
<1>6. \A s \in Sessions : Raises(R, s) /\ \A d : IsLive(R, s, d) => IsLive(sess, s, d)
  BY <1>3, <1>5, ServerParts, RemovedRaises DEF BufferInv
<1>7. ASSUME NEW s \in Sessions PROVE Lies(R, s)
  BY <1>3, ServerParts, RemovedAt DEF Lies, Buffering, Here
<1> QED BY <1>2, <1>3, <1>4, <1>6, <1>7, PartedType, SectionMoves

\* announce.
LEMMA AnnounceMoves ==
  ASSUME ServerInv, NEW s \in Sessions, NEW over, Announce(s, over)
  PROVE  Moves(chan) /\ \A t \in Sessions : Lies(sess', t)
<1>1. CASE sess[s].phase = "here" /\ ~sess[s].visible
  <2>1. PICK R : R = [sess EXCEPT ![s].visible = TRUE]
    OBVIOUS
  <2>2. R \in [Sessions -> Session]
    <3>1. sess \in [Sessions -> Session]
      BY ServerParts
    <3>2. [sess EXCEPT ![s].visible = TRUE] \in [Sessions -> Session]
      BY <3>1 DEF Session
    <3> QED BY <2>1, <3>2
  <2>3. \A t \in Sessions :
          /\ R[t].phase = sess[t].phase /\ R[t].next = sess[t].next
          /\ R[t].sink = sess[t].sink /\ R[t].conn = sess[t].conn
          /\ R[t].start = sess[t].start /\ R[t].buf = sess[t].buf
          /\ R[t].broken <=> sess[t].broken
          /\ R[t].since = sess[t].since /\ R[t].kicked = sess[t].kicked
    BY <2>1, ServerParts DEF Session
  <2>4. Deliver(R, chan, Broadcast(sess, {s}), over)
    BY <1>1, <2>1 DEF Announce
  <2>5. BufferInv(R)
    <3>1. RosterInv(R, chan, conn)
      BY <2>2, <2>3, ServerParts, SameOutboxKeeps
    <3> QED BY <3>1 DEF RosterInv
  <2>6. \A t \in Sessions : Raises(R, t)
    BY <2>3, ServerParts, SameRaises
  <2>7. \A t \in Sessions : Lies(R, t) /\ \A d \in Conns : IsLive(R, t, d) => IsLive(sess, t, d)
    BY <2>3 DEF Lies, Buffering, Here, IsLive
  <2> QED BY <2>2, <2>4, <2>5, <2>6, <2>7, ServerParts, CountTypes, SectionMoves
<1>2. CASE ~(sess[s].phase = "here" /\ ~sess[s].visible)
  <2>1. sess' = sess /\ chan' = chan
    BY <1>2 DEF Announce
  <2> QED BY <2>1, ServerParts, StillGrows DEF Moves, Lies
<1> QED BY <1>1, <1>2

\* send_to.
LEMMA SendToMoves ==
  ASSUME ServerInv, NEW s \in Sessions, NEW over, SendTo(s, over)
  PROVE  Moves(chan) /\ \A t \in Sessions : Lies(sess', t)
<1>1. PICK N : N = [t \in Sessions |-> IF t = s THEN 1 ELSE 0]
  OBVIOUS
<1>2. Deliver(sess, chan, N, over) /\ N \in [Sessions -> Nat]
  BY <1>1 DEF SendTo
<1>3. \A t \in Sessions : Raises(sess, t) /\ Lies(sess, t)
  BY ServerParts, SameRaises DEF Lies
<1> QED BY <1>2, <1>3, ServerParts, SectionMoves

\* kick_in, end_refused and end_revoked: who is kicked while detached ends.
LEMMA KickAllMoves ==
  ASSUME ServerInv, NEW X \in SUBSET Sessions, NEW flag \in BOOLEAN, NEW over,
         KickAll(X, flag, over)
  PROVE  Moves(chan) /\ \A t \in Sessions : Lies(sess', t)
<1> DEFINE S0 == [s \in Sessions |->
                   IF s \in X THEN [sess[s] EXCEPT
                                      !.kicked = @ \/ flag,
                                      !.kicks = @ \cup {sess[s].next}]
                              ELSE sess[s]]
           V0 == X \cap Buffering(sess)
           told0 == [t \in Sessions |-> IF t \in X \ V0 THEN 1 ELSE 0]
<1>1. PICK S, V, told : S = S0 /\ V = V0 /\ told = told0
  OBVIOUS
<1>2. ASSUME NEW s \in Sessions
      PROVE  /\ S[s] \in Session
             /\ S[s].phase = sess[s].phase /\ S[s].next = sess[s].next
             /\ S[s].sink = sess[s].sink /\ S[s].conn = sess[s].conn
             /\ S[s].start = sess[s].start /\ S[s].buf = sess[s].buf
             /\ S[s].broken <=> sess[s].broken
             /\ S[s].since = sess[s].since
             /\ s \notin X => S[s] = sess[s]
  <2>1. sess[s] \in Session
    BY ServerParts
  <2>2. (sess[s].kicked \/ flag) \in BOOLEAN
    OBVIOUS
  <2>3. sess[s].kicks \cup {sess[s].next} \in SUBSET Nat
    BY <2>1 DEF Session
  <2>4. [sess[s] EXCEPT !.kicked = sess[s].kicked \/ flag,
                        !.kicks = sess[s].kicks \cup {sess[s].next}] \in Session
    BY <2>1, <2>2, <2>3 DEF Session
  <2> QED BY <1>1, <2>1, <2>4 DEF Session
<1>3. S \in [Sessions -> Session]
  BY <1>1, <1>2
<1>4. Deliver(Removed(S, V), chan, Plus(told, Parted(sess, V)), over)
  BY <1>1 DEF KickAll
<1>5. told \in [Sessions -> Nat]
  BY <1>1
<1>v. V = X \cap Buffering(sess)
  BY <1>1
<1> HIDE DEF S0, V0, told0
<1>6. RosterInv(S, chan, conn)
  BY <1>2, <1>3, ServerParts, SameOutboxKeeps
<1>7. PICK R : R = Removed(S, V)
  OBVIOUS
<1>8. R \in [Sessions -> Session] /\ BufferInv(R)
  <2>1. HolderInvBut(S, chan, conn, V)
    BY <1>6 DEF RosterInv, HolderInv, HolderInvBut
  <2>2. RosterInv(R, chan, conn)
    BY <1>3, <1>6, <1>7, <2>1, RemovedKeeps DEF RosterInv
  <2> QED BY <2>2 DEF RosterInv
<1>9. ASSUME NEW s \in Sessions
      PROVE  Raises(R, s) /\ \A d \in Conns : IsLive(R, s, d) => IsLive(sess, s, d)
  <2>1. Raises(S, s)
    BY <1>2, ServerParts, SameRaises
  <2>2. BufferOf(S, s)
    BY <1>6 DEF RosterInv, BufferInv
  <2>3. \A d \in Conns : IsLive(S, s, d) => IsLive(sess, s, d)
    BY <1>2 DEF IsLive
  <2> QED BY <1>3, <1>7, <2>1, <2>2, <2>3, ServerParts, RemovedRaises
<1>10. ASSUME NEW s \in Sessions PROVE Lies(R, s)
  <2>1. CASE s \in V
    BY <1>3, <1>7, <2>1, RemovedAt DEF Lies, Buffering, Here
  <2>2. CASE s \notin V
    <3>1. R[s] = S[s]
      BY <1>3, <1>7, <2>2, RemovedAt
    <3>2. s \in Buffering(R) => s \in Buffering(sess) /\ s \notin X
      BY <1>2, <1>v, <2>2, <3>1 DEF Buffering, Here
    <3> QED BY <1>2, <3>1, <3>2 DEF Lies
  <2> QED BY <2>1, <2>2
<1>11. Plus(told, Parted(sess, V)) \in [Sessions -> Nat]
  BY <1>5, PartedType, CountTypes
<1> QED BY <1>4, <1>7, <1>8, <1>9, <1>10, <1>11, ServerParts, SectionMoves

-----------------------------------------------------------------------------
(* Losing a session, and handing one over.                                 *)

\* A session that detaches: nothing queued since it did has left.
LEMMA DetachedRaises ==
  ASSUME ServerInv, NEW s \in Sessions, sess[s].phase = "here", NEW t \in Sessions
  PROVE  /\ Raises(Detached(s), t)
         /\ \A d \in Conns : IsLive(Detached(s), t, d) => IsLive(sess, t, d)
         /\ t # s => Detached(s)[t] = sess[t]
         /\ t = s => /\ t \in Buffering(Detached(s)) /\ Detached(s)[t].since = clock
                     /\ Detached(s)[t].kicked = sess[t].kicked
<1>0. sess \in [Sessions -> Session] /\ sess[s] \in Session
  BY ServerParts
<1>1. PICK R : R = Detached(s)
  OBVIOUS
<1>2. R = [sess EXCEPT ![s] =
             [sess[s] EXCEPT !.sink = "buffering", !.conn = NoConn,
                             !.start = sess[s].next, !.buf = <<>>,
                             !.broken = (sess[s].sink = "lagged"),
                             !.since = clock]]
  BY <1>0, <1>1 DEF Detached, Session
<1>3. CASE t # s
  <2>1. R[t] = sess[t]
    BY <1>2, <1>3
  <2>2. Raises(R, t)
    BY <1>0, <2>1, SameRaises
  <2> QED BY <1>1, <1>3, <2>1, <2>2 DEF IsLive
<1>4. CASE t = s
  <2>1. /\ R[s].phase = sess[s].phase /\ R[s].sink = "buffering"
        /\ R[s].start = sess[s].next /\ R[s].next = sess[s].next
        /\ R[s].since = clock /\ R[s].kicked = sess[s].kicked
    BY <1>0, <1>2 DEF Session
  <2>2. R[s].broken <=> sess[s].sink = "lagged"
    BY <1>0, <1>2, Zenon DEF Session
  <2>3. BufferOf(sess, s) /\ sess[s].next \in Nat
    BY <1>0, ServerParts DEF BufferInv, Session
  <2>4. Reach(R, s) = IF sess[s].sink = "lagged" THEN sess[s].next - 2 ELSE sess[s].next - 1
    BY <2>1, <2>2 DEF Reach
  <2>5. Reach(R, s) >= Reach(sess, s)
    <3>1. CASE sess[s].sink = "lagged"
      BY <2>3, <2>4, <3>1 DEF Reach
    <3>2. CASE sess[s].sink # "lagged"
      BY <1>0, <2>3, <2>4, <3>2, ReachBound
    <3> QED BY <3>1, <3>2
  <2>6. Raises(R, s)
    BY <2>1, <2>5 DEF Raises
  <2>7. s \in Buffering(R) /\ \A d \in Conns : ~IsLive(R, s, d)
    BY <2>1 DEF Buffering, Here, IsLive
  <2> QED BY <1>1, <1>4, <2>1, <2>6, <2>7
<1> QED BY <1>3, <1>4

\* What lose does to the sessions that stay detached: no session detaches,
\* or s does, and what is over the cap ends.
Detaches(s) ==
  /\ sess[s].phase = "here" /\ ~EndsWhenLost(s)
  /\ clock' = clock + 1
  /\ \A t \in Sessions :
       t \in Buffering(sess)' =>
         /\ t \in Buffering(Detached(s)) \ OverCap(Detached(s), s)
         /\ sess'[t].since = Detached(s)[t].since
         /\ sess'[t].kicked <=> Detached(s)[t].kicked

LEMMA LoseMoves ==
  ASSUME ServerInv, NEW C \in [Conns -> Channel], NEW s \in Sessions, NEW over,
         Lose(s, C, over)
  PROVE  /\ Moves(C)
         /\ \/ clock' = clock /\ \A t \in Sessions : Lies(sess', t)
            \/ Detaches(s)
<1>1. CASE sess[s].phase # "here"
  <2>1. chan' = C /\ sess' = sess /\ clock' = clock
    BY <1>1 DEF Lose
  <2> QED BY <2>1, ServerParts, StillGrows DEF Moves, Lies
<1>2. CASE sess[s].phase = "here" /\ EndsWhenLost(s)
  BY <1>2, EndSessionsMoves DEF Lose
<1>3. CASE sess[s].phase = "here" /\ ~EndsWhenLost(s)
  <2> DEFINE status == IF sess[s].sink # "buffering" /\ sess[s].visible
                       THEN Broadcast(Detached(s), OverCap(Detached(s), s)) ELSE Nothing
  <2>1. PICK S, V, N : /\ S = Detached(s) /\ V = OverCap(S, s)
                       /\ N = Plus(status, Parted(S, V))
    OBVIOUS
  <2>2. Deliver(Removed(S, V), C, N, over) /\ clock' = clock + 1
    BY <1>3, <2>1 DEF Lose
  <2>3. N \in [Sessions -> Nat]
    <3>1. status \in [Sessions -> Nat]
      BY CountTypes
    <3> HIDE DEF status
    <3> QED BY <2>1, <3>1, PartedType, CountTypes
  <2> HIDE DEF status
  <2>4. RosterInv(S, chan, conn)
    <3>1. HolderInvBut(sess, chan, conn, {s})
      BY ServerParts DEF HolderInv, HolderInvBut
    <3> QED BY <2>1, <3>1, ServerParts, DetachedKeeps
  <2>5. PICK R : R = Removed(S, V)
    OBVIOUS
  <2>6. R \in [Sessions -> Session] /\ BufferInv(R)
    <3>1. HolderInvBut(S, chan, conn, V)
      BY <2>4 DEF RosterInv, HolderInv, HolderInvBut
    <3>2. RosterInv(R, chan, conn)
      BY <2>4, <2>5, <3>1, RemovedKeeps DEF RosterInv
    <3> QED BY <3>2 DEF RosterInv
  <2>7. ASSUME NEW t \in Sessions
        PROVE  Raises(R, t) /\ \A d \in Conns : IsLive(R, t, d) => IsLive(sess, t, d)
    <3>1. Raises(S, t) /\ \A d \in Conns : IsLive(S, t, d) => IsLive(sess, t, d)
      BY <1>3, <2>1, DetachedRaises
    <3>2. BufferOf(S, t) /\ S \in [Sessions -> Session]
      BY <2>4 DEF RosterInv, BufferInv
    <3> QED BY <2>5, <3>1, <3>2, ServerParts, RemovedRaises
  <2>8. Moves(C)
    BY <2>2, <2>3, <2>5, <2>6, <2>7, SectionMoves
  <2>9. ASSUME NEW t \in Sessions, t \in Buffering(sess)'
        PROVE  /\ t \in Buffering(S) \ V
               /\ sess'[t].since = S[t].since /\ (sess'[t].kicked <=> S[t].kicked)
    <3>1. /\ t \in Buffering(R) /\ sess'[t].since = R[t].since
          /\ sess'[t].kicked <=> R[t].kicked
      BY <2>2, <2>3, <2>5, <2>6, <2>9, DeliverGrows DEF BufferInv
    <3>2. S \in [Sessions -> Session]
      BY <2>4 DEF RosterInv
    <3>3. t \notin V
      BY <2>5, <3>1, <3>2, RemovedAt DEF Buffering, Here
    <3>4. R[t] = S[t]
      BY <2>5, <3>2, <3>3, RemovedAt
    <3> QED BY <3>1, <3>3, <3>4 DEF Buffering, Here
  <2>10. Detaches(s)
    BY <1>3, <2>1, <2>2, <2>9 DEF Detaches
  <2> QED BY <2>8, <2>10
<1> QED BY <1>1, <1>2, <1>3

LEMMA LoseFromMoves ==
  ASSUME ServerInv, NEW C \in [Conns -> Channel], NEW s \in Sessions, NEW c, NEW over,
         LoseFrom(s, c, C, over)
  PROVE  /\ Moves(C)
         /\ \/ clock' = clock /\ \A t \in Sessions : Lies(sess', t)
            \/ Detaches(s)
<1>1. CASE Holds(s, c)
  BY <1>1, LoseMoves DEF LoseFrom
<1>2. CASE ~Holds(s, c)
  <2>1. chan' = C /\ sess' = sess /\ clock' = clock
    BY <1>2 DEF LoseFrom
  <2> QED BY <2>1, ServerParts, StillGrows DEF Moves, Lies
<1> QED BY <1>1, <1>2

\* attach: the new session's connection has nothing to catch up with.
LEMMA AttachMoves ==
  ASSUME ServerInv, FreshInv, NEW s \in Sessions, NEW c \in Conns, Attach(s, c),
         conn' \in [Conns -> Task], conn'[c].out = <<>>, conn'[c].sent = 0
  PROVE  /\ \A t \in Sessions : Grows(t) /\ Lies(sess', t)
         /\ \A d \in Conns \ {c} : Bystands(d)
         /\ ChannelOf(sess', chan', conn', c) /\ chan'[c].owner = s
         /\ sess'[s].phase = "here"
<1>0. /\ sess \in [Sessions -> Session] /\ chan \in [Conns -> Channel]
      /\ sess[s].phase = "none" /\ sess[s].next = 1
  BY ServerParts DEF Attach, FreshInv
<1>1. PICK new : new = [NoSession EXCEPT !.phase = "here", !.sink = "live", !.conn = c]
  OBVIOUS
<1>2. sess' = [sess EXCEPT ![s] = new] /\ chan' = [chan EXCEPT ![c] = NewChannel(s)]
  BY <1>1 DEF Attach
<1>3. /\ new.phase = "here" /\ new.sink = "live" /\ new.conn = c /\ new.next = 1
  BY <1>1 DEF NoSession
<1>4. /\ sess'[s] = new /\ \A t \in Sessions \ {s} : sess'[t] = sess[t]
      /\ chan'[c] = NewChannel(s) /\ \A d \in Conns \ {c} : chan'[d] = chan[d]
  BY <1>0, <1>2
<1>5. ASSUME NEW t \in Sessions
      PROVE  Grows(t) /\ Lies(sess', t) /\ Reach(sess', t) >= Reach(sess, t)
  <2>1. CASE t = s
    <3>1. Reach(sess', s) = 0 /\ Reach(sess, s) = 0
      BY <1>0, <1>3, <1>4 DEF Reach
    <3> QED BY <1>0, <1>3, <1>4, <2>1, <3>1 DEF Grows, Lies, Buffering, Here
  <2>2. CASE t # s
    <3>1. sess'[t] = sess[t]
      BY <1>4, <2>2
    <3>2. Reach(sess', t) = Reach(sess, t)
      BY <3>1 DEF Reach
    <3> QED BY <1>0, <3>1, <3>2, ReachType DEF Grows, Lies, Buffering, Here
  <2> QED BY <2>1, <2>2
<1>6. ASSUME NEW d \in Conns \ {c} PROVE Bystands(d)
  <2>1. chan'[d] = chan[d] /\ chan[d].owner \in Sessions /\ chan[d].queue \in Seq(Nat)
    BY <1>0, <1>4 DEF Channel
  <2>2. IsLive(sess', chan[d].owner, d) =>
          IsLive(sess, chan[d].owner, d) /\ sess'[chan[d].owner] = sess[chan[d].owner]
    BY <1>3, <1>4, <2>1 DEF IsLive
  <2>3. TxOpen(d)' => TxOpen(d)
    BY <2>1, <2>2 DEF TxOpen, IsLive
  <2>4. ASSUME ChannelOf(sess, chan, conn, d) PROVE ChannelOf(sess', chan', conn, d)
    <3>1. Position(chan', conn, d) = Position(chan, conn, d) /\ Position(chan, conn, d) \in Int
      BY SMTT(30), <2>1, ServerParts DEF Position, Task
    <3>2. Reach(sess', chan[d].owner) \in Int /\ Reach(sess, chan[d].owner) \in Int
      <4>1. NewChannel(s) \in Channel /\ new \in Session
        BY ZenonT(60), <1>1, NewChannelFacts, NoSessionType DEF NoSession, Session, SinkKinds
      <4>2. sess' \in [Sessions -> Session]
        BY <1>0, <1>2, <4>1
      <4> QED BY <1>0, <2>1, <4>2, ReachType
    <3>3. Position(chan', conn, d) <= Reach(sess', chan'[d].owner)
      BY <1>5, <2>1, <2>4, <3>1, <3>2 DEF ChannelOf
    <3> QED BY <2>1, <2>2, <2>4, <3>1, <3>3 DEF ChannelOf
  <2>5. Len(chan'[d].queue) >= Len(chan[d].queue)
    BY <2>1
  <2> QED BY <2>1, <2>3, <2>4, <2>5 DEF Bystands
<1>7. ChannelOf(sess', chan', conn', c) /\ chan'[c].owner = s
  <2>1. chan'[c].owner = s /\ chan'[c].rx /\ chan'[c].queue = <<>>
    BY <1>4, NewChannelFacts
  <2>2. Position(chan', conn', c) = 0
    BY <2>1 DEF Position
  <2>3. Reach(sess', s) = 0 /\ sess'[s].next = 1
    BY <1>3, <1>4 DEF Reach
  <2> QED BY <2>1, <2>2, <2>3 DEF ChannelOf, Consecutive
<1> QED BY <1>3, <1>4, <1>5, <1>6, <1>7

\* What a resume replays continues the client's last seq up to the newest.
LEMMA ReplayReaches ==
  ASSUME ServerInv, NEW s \in Sessions, NEW last \in Nat,
         ResumeOutcome(s, last) = "replayed"
  PROVE  /\ ReplayOf(s, last) \in Seq(Nat)
         /\ Consecutive(ReplayOf(s, last), last)
         /\ last + Len(ReplayOf(s, last)) = sess[s].next - 1
<1>0. sess[s] \in Session /\ sess[s].next \in Nat /\ BufferOf(sess, s)
  BY ServerParts DEF Session, BufferInv
<1>1. sess[s].phase = "here"
  BY DEF ResumeOutcome
<1>2. CASE sess[s].sink = "buffering"
  <2>1. ~sess[s].broken /\ last + 1 >= sess[s].start /\ last + 1 <= sess[s].next
    BY <1>2 DEF ResumeOutcome
  <2>2. /\ sess[s].start \in 1..sess[s].next /\ sess[s].buf \in Seq(Nat)
        /\ Consecutive(sess[s].buf, sess[s].start - 1)
        /\ sess[s].start + Len(sess[s].buf) = sess[s].next
    BY <1>0, <1>1, <1>2, <2>1 DEF BufferOf, Buffering, Here, Session
  <2>3. PICK a, q : a = sess[s].start - 1 /\ q = sess[s].buf
    OBVIOUS
  <2>4. a \in Nat /\ q \in Seq(Nat) /\ Consecutive(q, a) /\ a <= last /\ last <= a + Len(q)
    BY <1>0, <2>1, <2>2, <2>3
  <2>5. /\ After(q, last) \in Seq(Nat) /\ Len(After(q, last)) = a + Len(q) - last
        /\ Consecutive(After(q, last), last)
    BY <2>4, ConsecutiveAfter
  <2>6. ReplayOf(s, last) = After(q, last)
    BY <1>2, <2>3 DEF ReplayOf
  <2>7. PICK r : r = After(q, last)
    OBVIOUS
  <2>8. r \in Seq(Nat) /\ Consecutive(r, last) /\ Len(r) = a + Len(q) - last
    BY <2>5, <2>7
  <2>9. last + Len(r) = sess[s].next - 1
    <3>1. Len(q) \in Nat /\ Len(r) \in Nat /\ sess[s].start \in Nat
      BY <2>2, <2>4, <2>8
    <3>2. a + Len(q) = sess[s].next - 1
      <4>1. PICK m, st, nx : m = Len(q) /\ st = sess[s].start /\ nx = sess[s].next
        OBVIOUS
      <4>2. m \in Nat /\ st \in Nat /\ nx \in Nat /\ st + m = nx /\ a = st - 1
        BY <1>0, <2>2, <2>3, <3>1, <4>1
      <4>3. a + m = nx - 1
        BY <4>2
      <4> QED BY <4>1, <4>3
    <3>3. last + Len(r) = a + Len(q)
      BY <2>4, <2>8, <3>1
    <3> QED BY <3>2, <3>3
  <2> QED BY <2>6, <2>7, <2>8, <2>9
<1>3. CASE sess[s].sink # "buffering"
  <2>1. last + 1 = sess[s].next /\ ReplayOf(s, last) = <<>>
    BY <1>1, <1>3 DEF ResumeOutcome, ReplayOf
  <2> QED BY <1>0, <2>1 DEF Consecutive
<1> QED BY <1>2, <1>3

\* resume_locked hands the session over: the task writes the replay, which
\* its new queue continues.
LEMMA ResumeMoves ==
  ASSUME ServerInv, NEW s \in Sessions, NEW c \in Conns, NEW last \in Nat,
         NEW shown, NEW over, ResumeOutcome(s, last) # "gone",
         Resume(s, c, last, shown, over), conn' \in [Conns -> Task],
         conn'[c].out = IF ResumeOutcome(s, last) = "replayed" THEN ReplayOf(s, last)
                                                               ELSE <<>>,
         conn'[c].sent = IF ResumeOutcome(s, last) = "replayed" THEN last
                                                                ELSE sess[s].next - 1
  PROVE  /\ \A t \in Sessions : Grows(t) /\ Lies(sess', t)
         /\ \A d \in Conns \ {c} : Bystands(d)
         /\ ChannelOf(sess', chan', conn', c) /\ chan'[c].owner = s
         /\ sess'[s].phase = "here"
<1> DEFINE S0 == [sess EXCEPT ![s].sink = "live", ![s].conn = c,
                              ![s].start = 1, ![s].buf = <<>>,
                              ![s].broken = FALSE, ![s].since = 0]
           C0 == [chan EXCEPT ![c] = NewChannel(s)]
           N0 == IF sess[s].visible /\ (sess[s].sink = "buffering" \/ shown)
                 THEN Broadcast(S0, {}) ELSE Nothing
<1>0. /\ sess \in [Sessions -> Session] /\ chan \in [Conns -> Channel] /\ BufferInv(sess)
      /\ conn \in [Conns -> Task]
  BY ServerParts
<1>1. PICK S, C, N : S = S0 /\ C = C0 /\ N = N0
  <2> HIDE DEF S0, C0, N0
  <2> QED OBVIOUS
<1>2. Deliver(S, C, N, over)
  BY <1>1 DEF Resume
<1>3. sess[s] \in Session /\ sess[s].next >= 1 /\ sess[s].next \in Nat /\ sess[s].phase = "here"
  BY <1>0 DEF BufferInv, BufferOf, ResumeOutcome, Session
<1>4. S0 \in [Sessions -> Session]
  <2>1. [sess[s] EXCEPT !.sink = "live", !.conn = c, !.start = 1, !.buf = <<>>,
                        !.broken = FALSE, !.since = 0] \in Session
    BY <1>3, SinkType DEF SinkKinds
  <2> QED BY <1>0, <1>3, <2>1
<1>5. /\ \A t \in Sessions \ {s} : S[t] = sess[t]
      /\ S[s].sink = "live" /\ S[s].conn = c /\ S[s].next = sess[s].next /\ S[s].phase = "here"
  BY <1>0, <1>1, <1>3 DEF Session
<1>6. C \in [Conns -> Channel] /\ C[c] = NewChannel(s) /\ \A d \in Conns \ {c} : C[d] = chan[d]
  BY <1>0, <1>1, NewChannelFacts
<1>7. N \in [Sessions -> Nat]
  BY <1>1, CountTypes
<1>8. S \in [Sessions -> Session]
  BY <1>1, <1>4
<1> HIDE DEF S0, C0, N0
<1>9. BufferInv(S)
  <2>1. ASSUME NEW t \in Sessions PROVE BufferOf(S, t)
    BY <1>0, <1>3, <1>5 DEF BufferInv, BufferOf, Buffering, Here
  <2> QED BY <2>1 DEF BufferInv
<1>10. ASSUME NEW t \in Sessions PROVE Raises(S, t) /\ Lies(S, t)
  <2>1. CASE t = s
    <3>1. Reach(S, s) = sess[s].next - 1
      BY <1>5 DEF Reach
    <3>2. Reach(sess, s) <= sess[s].next - 1
      BY <1>0, ReachBound DEF BufferInv
    <3> QED BY <1>3, <1>5, <2>1, <3>1, <3>2 DEF Raises, Lies, Buffering, Here
  <2>2. CASE t # s
    BY <1>0, <1>5, <2>2, SameRaises DEF Lies, Buffering, Here
  <2> QED BY <2>1, <2>2
<1>11. /\ \A t \in Sessions : Grows(t)
       /\ \A d \in Conns \ {c} : Bystands(d)
  <2>1. ASSUME NEW d \in Conns \ {c}
        PROVE  IsLive(S, chan[d].owner, d) => IsLive(sess, chan[d].owner, d)
    <3>1. chan[d].owner \in Sessions
      BY <1>0 DEF Channel
    <3> QED BY <1>5, <3>1 DEF IsLive
  <2> QED BY <1>0, <1>2, <1>6, <1>7, <1>8, <1>9, <1>10, <2>1, SectionGrows
<1>12. ASSUME NEW t \in Sessions PROVE Lies(sess', t)
  <2>1. /\ t \in Buffering(sess)' <=> t \in Buffering(S)
        /\ sess'[t].since = S[t].since /\ (sess'[t].kicked <=> S[t].kicked)
    BY <1>2, <1>6, <1>7, <1>8, <1>9, DeliverGrows DEF BufferInv
  <2>2. t \in Buffering(sess)' <=> t \in Buffering(sess')
    BY DEF Buffering, Here
  <2> QED BY <1>10, <2>1, <2>2 DEF Lies
<1>13. C[c].owner = s /\ C[c].rx /\ C[c].queue = <<>>
  BY <1>6, NewChannelFacts
<1>14. /\ Consecutive(conn'[c].out, conn'[c].sent) /\ conn'[c].out \in Seq(Nat)
       /\ conn'[c].sent \in Nat
       /\ conn'[c].sent + Len(conn'[c].out) = sess[s].next - 1
  <2>1. CASE ResumeOutcome(s, last) = "replayed"
    <3>1. conn'[c].out = ReplayOf(s, last) /\ conn'[c].sent = last
      BY <2>1
    <3> QED BY <2>1, <3>1, ReplayReaches
  <2>2. CASE ResumeOutcome(s, last) # "replayed"
    <3>1. conn'[c].out = <<>> /\ conn'[c].sent = sess[s].next - 1
      BY <2>2
    <3>2. Len(<<>>) = 0 /\ <<>> \in Seq(Nat) /\ \A a : Consecutive(<<>>, a)
      BY DEF Consecutive
    <3>3. sess[s].next - 1 \in Nat /\ sess[s].next - 1 + 0 = sess[s].next - 1
      BY <1>3
    <3>4. Len(conn'[c].out) = 0 /\ conn'[c].sent + 0 = sess[s].next - 1
      BY <3>1, <3>2, <3>3
    <3> QED BY <3>1, <3>2, <3>3, <3>4
  <2> QED BY <2>1, <2>2
<1>15. ChannelOf(S, C, conn', c)
  <2>1. Position(C, conn', c) = sess[s].next - 1
    BY <1>3, <1>13, <1>14 DEF Position
  <2>2. Reach(S, s) = sess[s].next - 1
    BY <1>5 DEF Reach
  <2>3. Consecutive(C[c].queue, conn'[c].sent + Len(conn'[c].out))
    BY <1>13 DEF Consecutive
  <2> QED BY <1>3, <1>5, <1>13, <1>14, <2>1, <2>2, <2>3 DEF ChannelOf
<1>16. ChannelOf(sess', chan', conn', c) /\ chan'[c].owner = s /\ sess'[s].phase = "here"
  <2>1. BufferOf(S, C[c].owner)
    BY <1>9, <1>13 DEF BufferInv
  <2>2. PICK K \in [Conns -> Task] : K = conn'
    OBVIOUS
  <2>3. ChannelOf(sess', chan', K, c)
    BY <1>2, <1>6, <1>7, <1>8, <1>15, <2>1, <2>2, DeliverChannelOf
  <2>4. chan'[c].owner = C[c].owner
    BY <1>2, <1>6, <1>7, <1>8, <2>1, DeliverStands
  <2>5. sess'[s].phase = S[s].phase
    BY <1>2, <1>6, <1>7, <1>8, DeliverSession
  <2> QED BY <1>5, <1>13, <2>2, <2>3, <2>4, <2>5
<1> QED BY <1>11, <1>12, <1>16

-----------------------------------------------------------------------------
(* A step of one task leaves the other connections alone.                  *)

Others(c) == \A d \in Conns \ {c} : conn'[d] = conn[d] /\ wire'[d] = wire[d]

Apart(c) ==
  /\ \A s \in Sessions : Grows(s)
  /\ \A d \in Conns \ {c} : Bystands(d)
  /\ chan'[c].owner = chan[c].owner

\* No session detaches, or one does.
Rests ==
  \/ clock' = clock /\ \A t \in Sessions : Lies(sess', t)
  \/ \E s \in Sessions : Detaches(s)

\* The task ends, moves on or writes.
LEMMA EndOthers ==
  ASSUME ServerInv, NEW c \in Conns, End(c)
  PROVE  \A d \in Conns \ {c} : conn'[d] = conn[d]
  BY ServerParts DEF End

LEMMA GotoOthers ==
  ASSUME ServerInv, NEW c \in Conns, NEW pc, Goto(c, pc)
  PROVE  \A d \in Conns \ {c} : conn'[d] = conn[d]
  BY ServerParts DEF Goto

LEMMA WriteOthers ==
  ASSUME ServerInv, NEW c \in Conns, NEW frames, Write(c, frames)
  PROVE  \A d \in Conns \ {c} : wire'[d] = wire[d]
  BY ServerParts DEF Write

\* The sessions are as they were.
LEMMA ApartStill ==
  ASSUME ServerInv, NEW c \in Conns, sess' = sess, clock' = clock,
         \A d \in Conns \ {c} : chan'[d] = chan[d], chan'[c].owner = chan[c].owner
  PROVE  Apart(c) /\ Rests
  BY ServerParts, StillGrows DEF Apart, Rests, Lies

\* The roster was changed with the task's receiver dropped.
LEMMA ApartDropped ==
  ASSUME ServerInv, NEW c \in Conns, Moves(Dropped(c))
  PROVE  Apart(c)
<1>1. /\ \A d \in Conns \ {c} : Dropped(c)[d] = chan[d]
      /\ Dropped(c)[c].owner = chan[c].owner
  BY ServerParts, DroppedChannel
<1> QED BY <1>1 DEF Apart, Moves

\* The task ends its session.
LEMMA ApartEnding ==
  ASSUME ServerInv, NEW c \in Conns, NEW over, NEW s,
         EndSessions({s}, Dropped(c), over), clock' = clock
  PROVE  Apart(c) /\ Rests
<1>1. Dropped(c) \in [Conns -> Channel]
  BY ServerParts, DroppedChannel
<1>2. Moves(Dropped(c)) /\ \A t \in Sessions : Lies(sess', t)
  BY <1>1, EndSessionsMoves
<1> QED BY <1>2, ApartDropped DEF Rests

\* It loses it.
LEMMA ApartLosing ==
  ASSUME ServerInv, NEW c \in Conns, NEW over, NEW s \in Sessions,
         Lose(s, Dropped(c), over) \/ LoseFrom(s, c, Dropped(c), over)
  PROVE  Apart(c) /\ Rests
<1>1. Dropped(c) \in [Conns -> Channel]
  BY ServerParts, DroppedChannel
<1>2. /\ Moves(Dropped(c))
      /\ \/ clock' = clock /\ \A t \in Sessions : Lies(sess', t)
         \/ Detaches(s)
  BY <1>1, LoseMoves, LoseFromMoves
<1> QED BY <1>2, ApartDropped DEF Rests

\* The steps that end a task.
Quits(c) ==
  \/ ResumeLimited(c) \/ Replaced(c)
  \/ \E over \in SUBSET Sessions :
       \/ LoginFails(c, over) \/ ResumeGone(c, over)
       \/ \E s \in Sessions : ResumeBanned(c, s, over)
       \/ ResumeLost(c, over) \/ EndKicked(c, over) \/ ConnectionLost(c, over)
       \/ LetGo(c, over) \/ Logout(c, over)

LEMMA QuitsApart ==
  ASSUME ServerInv, NEW c \in Conns, Quits(c)
  PROVE  Apart(c) /\ Rests /\ Others(c) /\ End(c)
<1>0. Owner(c) \in Sessions
  BY ServerParts DEF Owner, Channel
<1>1. CASE ResumeLimited(c)
  <2>1. End(c) /\ Write(c, <<F("refused", 0)>>) /\ UNCHANGED rosterVars
    BY <1>1 DEF ResumeLimited
  <2>2. sess' = sess /\ chan' = chan /\ clock' = clock
    BY <2>1 DEF rosterVars
  <2> QED BY <2>1, <2>2, ApartStill, EndOthers, WriteOthers DEF Others
<1>2. CASE Replaced(c)
  <2>1. /\ chan' = Dropped(c) /\ sess' = sess /\ clock' = clock
        /\ End(c) /\ Write(c, <<F("replaced", conn[c].sent)>>)
    BY <1>2 DEF Replaced
  <2>2. (\A d \in Conns \ {c} : chan'[d] = chan[d]) /\ chan'[c].owner = chan[c].owner
    BY <2>1, ServerParts, DroppedChannel
  <2> QED BY <2>1, <2>2, ApartStill, EndOthers, WriteOthers DEF Others
<1>3. ASSUME NEW over \in SUBSET Sessions, LoginFails(c, over)
      PROVE  Apart(c) /\ Rests /\ Others(c) /\ End(c)
  BY <1>3, ApartEnding, EndOthers DEF LoginFails, Others
<1>4. ASSUME NEW over \in SUBSET Sessions, ResumeGone(c, over)
      PROVE  Apart(c) /\ Rests /\ Others(c) /\ End(c)
  BY <1>4, ApartEnding, EndOthers, WriteOthers DEF ResumeGone, Others
<1>5. ASSUME NEW over \in SUBSET Sessions, NEW s \in Sessions, ResumeBanned(c, s, over)
      PROVE  Apart(c) /\ Rests /\ Others(c) /\ End(c)
  BY <1>5, ApartEnding, EndOthers, WriteOthers DEF ResumeBanned, Others
<1>6. ASSUME NEW over \in SUBSET Sessions, ResumeLost(c, over)
      PROVE  Apart(c) /\ Rests /\ Others(c) /\ End(c)
  BY <1>0, <1>6, ApartLosing, EndOthers DEF ResumeLost, Others
<1>7. ASSUME NEW over \in SUBSET Sessions, EndKicked(c, over)
      PROVE  Apart(c) /\ Rests /\ Others(c) /\ End(c)
  BY <1>7, ApartEnding, EndOthers, WriteOthers DEF EndKicked, Others
<1>8. ASSUME NEW over \in SUBSET Sessions, ConnectionLost(c, over)
      PROVE  Apart(c) /\ Rests /\ Others(c) /\ End(c)
  BY <1>0, <1>8, ApartLosing, EndOthers DEF ConnectionLost, Others
<1>9. ASSUME NEW over \in SUBSET Sessions, Logout(c, over)
      PROVE  Apart(c) /\ Rests /\ Others(c) /\ End(c)
  BY <1>9, ApartEnding, EndOthers, WriteOthers DEF Logout, Others
<1>10. ASSUME NEW over \in SUBSET Sessions, LetGo(c, over)
       PROVE  Apart(c) /\ Rests /\ Others(c) /\ End(c)
  <2>1. End(c) /\ wire' = wire
    BY <1>10 DEF LetGo
  <2>2. Others(c)
    BY <2>1, EndOthers DEF Others
  <2>3. CASE LoseFrom(Owner(c), c, Dropped(c), over)
    BY <1>0, <2>1, <2>2, <2>3, ApartLosing
  <2>4. CASE EndSessions({Owner(c)}, Dropped(c), over) /\ clock' = clock
    BY <2>1, <2>2, <2>4, ApartEnding
  <2>5. CASE chan' = Dropped(c) /\ sess' = sess /\ clock' = clock
    <3>1. (\A d \in Conns \ {c} : chan'[d] = chan[d]) /\ chan'[c].owner = chan[c].owner
      BY <2>5, ServerParts, DroppedChannel
    <3> QED BY <2>1, <2>2, <2>5, <3>1, ApartStill
  <2> QED BY <1>10, <2>3, <2>4, <2>5 DEF LetGo
<1> QED BY <1>1, <1>2, <1>3, <1>4, <1>5, <1>6, <1>7, <1>8, <1>9, <1>10 DEF Quits

\* The steps of a task that goes on with the session it has.
Works(c) ==
  \/ LoginReply(c) \/ ResumeReply(c) \/ ResumeReplay(c) \/ ResumeDone(c) \/ ResumeFails(c)
  \/ Take(c) \/ SendEvents(c) \/ SendKickedFails(c) \/ NoMoreEvents(c) \/ LagExit(c)
  \/ SyncStart(c) \/ SyncDrain(c) \/ SyncDrained(c) \/ SyncReply(c)
  \/ ConnFails(c) \/ Panic(c)

LEMMA WorksApart ==
  ASSUME ServerInv, NEW c \in Conns, Works(c)
  PROVE  Apart(c) /\ Rests /\ Others(c) /\ sess' = sess
<1>0. conn \in [Conns -> Task] /\ wire \in [Conns -> Seq(Frame)] /\ chan \in [Conns -> Channel]
  BY ServerParts
<1>1. ASSUME sess' = sess, clock' = clock, \A d \in Conns \ {c} : chan'[d] = chan[d],
             chan'[c].owner = chan[c].owner
      PROVE  Apart(c) /\ Rests /\ sess' = sess
  BY <1>1, ApartStill
<1>2. CASE LoginReply(c) \/ ResumeReply(c) \/ ResumeReplay(c)
  BY <1>0, <1>1, <1>2 DEF LoginReply, ResumeReply, ResumeReplay, rosterVars, Write, Others
<1>3. CASE ResumeDone(c) \/ ResumeFails(c) \/ SendKickedFails(c)
  BY <1>0, <1>1, <1>3 DEF ResumeDone, ResumeFails, SendKickedFails, rosterVars, Goto, Others
<1>4. CASE SendEvents(c) \/ SyncReply(c)
  BY <1>0, <1>1, <1>4 DEF SendEvents, SyncReply, rosterVars, Goto, Write, Others
<1>5. CASE NoMoreEvents(c) \/ LagExit(c) \/ ConnFails(c) \/ SyncDrained(c)
  BY <1>0, <1>1, <1>5 DEF NoMoreEvents, LagExit, ConnFails, SyncDrained, rosterVars, Goto, Others
<1>6. CASE Take(c) \/ SyncDrain(c)
  <2>1. chan' = [chan EXCEPT ![c].queue = Tail(@)]
    BY <1>6 DEF Take, SyncDrain
  <2>2. (\A d \in Conns \ {c} : chan'[d] = chan[d]) /\ chan'[c].owner = chan[c].owner
    BY <1>0, <2>1 DEF Channel
  <2> QED BY <1>0, <1>1, <1>6, <2>2 DEF Take, SyncDrain, Write, Others
<1>7. CASE SyncStart(c)
  BY <1>0, <1>1, <1>7 DEF SyncStart, rosterVars, Others
<1>8. CASE Panic(c)
  <2>1. (\A d \in Conns \ {c} : chan'[d] = chan[d]) /\ chan'[c].owner = chan[c].owner
    BY <1>0, <1>8, DroppedChannel DEF Panic
  <2> QED BY <1>0, <1>1, <1>8, <2>1 DEF Panic, Others
<1> QED BY <1>2, <1>3, <1>4, <1>5, <1>6, <1>7, <1>8 DEF Works

-----------------------------------------------------------------------------
(* The promise, connection by connection and client by client.             *)

ConnOK(c) ==
  /\ conn[c].pc \in Writing => ChannelOf(sess, chan, conn, c)
  /\ PeerOf(c)
  /\ WireOf(c)
  /\ SyncOf(c)

SessOK(s) == ReaderOf(s) /\ ClientOf(s)

StreamInv ==
  /\ cli \in [Sessions -> Client]
  /\ \A c \in Conns : ConnOK(c)
  /\ \A s \in Sessions : SessOK(s)
  /\ FreshInv

\* A connection that stands by keeps its part of it.
LEMMA BystanderKeeps ==
  ASSUME ServerInv, ServerInv', NEW d \in Conns, ConnOK(d), Bystands(d),
         conn'[d] = conn[d], wire'[d] = wire[d],
         Grows(chan[d].owner),
         conn[d].peer => cli'[chan[d].owner] = cli[chan[d].owner]
  PROVE  ConnOK(d)'
<1>0. /\ chan[d].owner \in Sessions /\ chan'[d].owner = chan[d].owner
      /\ conn[d] \in Task /\ wire[d] \in Seq(Frame)
      /\ Len(chan'[d].queue) >= Len(chan[d].queue)
      /\ Len(chan'[d].queue) \in Nat /\ Len(chan[d].queue) \in Nat
  <2>1. chan \in [Conns -> Channel] /\ chan' \in [Conns -> Channel]
    BY ServerParts DEF ServerInv, RosterInv
  <2> QED BY <2>1, ServerParts DEF Channel, Bystands
<1>1. (conn[d].pc \in Writing => ChannelOf(sess, chan, conn, d))'
  <2>1. ASSUME conn[d].pc \in Writing PROVE ChannelOf(sess', chan', conn', d)
    <3>1. ChannelOf(sess', chan', conn, d)
      BY <2>1 DEF ConnOK, Bystands
    <3> QED BY <3>1 DEF ChannelOf, Position
  <2> QED BY <2>1
<1>2. PeerOf(d)'
  BY <1>0 DEF ConnOK, PeerOf
<1>3. WireOf(d)'
  <2>1. \A i \in 1..Len(wire[d]) : wire[d][i].at <= Reach(sess, chan[d].owner)
    BY DEF ConnOK, WireOf
  <2>2. Reach(sess', chan[d].owner) \in Int /\ Reach(sess, chan[d].owner) \in Int
    <3>1. sess \in [Sessions -> Session] /\ sess' \in [Sessions -> Session]
      BY ServerParts DEF ServerInv, RosterInv
    <3> QED BY <1>0, <3>1, ReachType
  <2>3. \A i \in 1..Len(wire[d]) : wire[d][i].at \in Nat
    <3>1. PICK w \in Seq(Frame) : w = wire[d]
      BY <1>0
    <3>2. \A i \in 1..Len(w) : w[i] \in Frame
      OBVIOUS
    <3> QED BY <3>1, <3>2 DEF Frame
  <2>4. \A i \in 1..Len(wire[d]) : wire[d][i].at <= Reach(sess', chan[d].owner)
    BY <2>1, <2>2, <2>3 DEF Grows
  <2> QED BY <1>0, <2>4 DEF ConnOK, WireOf
<1>4. SyncOf(d)'
  <2>1. TxOpen(d)' => TxOpen(d)
    BY DEF Bystands
  <2>2. conn[d].sent \in Nat /\ conn[d].mark \in Nat
    BY <1>0 DEF Task
  <2>3. PICK m, n, a, b : /\ m = conn[d].mark /\ n = conn[d].sent
                          /\ a = Len(chan[d].queue) /\ b = Len(chan'[d].queue)
    OBVIOUS
  <2>4. m \in Nat /\ n \in Nat /\ a \in Nat /\ b \in Nat /\ b >= a
    BY <1>0, <2>2, <2>3
  <2>5. m \in n..(n + a) => m \in n..(n + b)
    BY <2>4
  <2>6. SyncOf(d)
    BY DEF ConnOK
  <2>7. conn[d].pc = "drain" /\ TxOpen(d) => m \in n..(n + a)
    BY <2>3, <2>6 DEF SyncOf
  <2>8. conn'[d].pc = "drain" /\ TxOpen(d)' => m \in n..(n + b)
    BY <2>1, <2>5, <2>7
  <2> QED BY <2>3, <2>6, <2>8 DEF SyncOf
<1> QED BY <1>1, <1>2, <1>3, <1>4 DEF ConnOK

\* So does the client that reads it, or none.
LEMMA ReaderKeeps ==
  ASSUME ServerInv, ServerInv', cli \in [Sessions -> Client], NEW s \in Sessions,
         SessOK(s), Grows(s), cli'[s] = cli[s],
         cli[s].conn # NoConn => /\ conn'[cli[s].conn] = conn[cli[s].conn]
                                 /\ wire'[cli[s].conn] = wire[cli[s].conn]
                                 /\ chan'[cli[s].conn].owner = chan[cli[s].conn].owner
  PROVE  SessOK(s)'
<1>1. ReaderOf(s)'
  BY DEF SessOK, ReaderOf
<1>2. /\ Reach(sess', s) \in Int /\ Reach(sess, s) \in Int
      /\ sess[s].next \in Nat /\ sess'[s].next \in Nat
  <2>1. sess \in [Sessions -> Session] /\ sess' \in [Sessions -> Session]
    BY ServerParts DEF ServerInv, RosterInv
  <2> QED BY <2>1, ReachType
<1>3. cli[s].last \in Nat
  BY DEF Client
<1>4. ClientOf(s)'
  BY <1>2, <1>3 DEF SessOK, ClientOf, Grows
<1> QED BY <1>1, <1>4 DEF SessOK

\* A step of one task: its own connection and the client that reads it are
\* what is left to see to.
LEMMA OneTask ==
  ASSUME ServerInv, ServerInv', StreamInv, NEW c \in Conns, Apart(c), Others(c),
         cli' = cli, ConnOK(c)',
         \A s \in Sessions : cli[s].conn = c => SessOK(s)'
  PROVE  StreamInv'
<1>1. ASSUME NEW d \in Conns PROVE ConnOK(d)'
  <2>1. CASE d = c
    BY <2>1
  <2>2. CASE d # c
    <3>1. chan[d].owner \in Sessions
      BY ServerParts DEF Channel
    <3> QED BY <2>2, <3>1, BystanderKeeps DEF StreamInv, Apart, Others
  <2> QED BY <2>1, <2>2
<1>2. ASSUME NEW s \in Sessions PROVE SessOK(s)'
  <2>1. CASE cli[s].conn = c
    BY <2>1
  <2>2. CASE cli[s].conn # c
    <3>1. cli[s].conn # NoConn => cli[s].conn \in Conns \ {c}
      BY <2>2 DEF StreamInv, Client
    <3> QED BY <3>1, ReaderKeeps DEF StreamInv, Apart, Others, Bystands
  <2> QED BY <2>1, <2>2
<1>3. FreshInv'
  BY DEF StreamInv, FreshInv, Apart, Grows
<1> QED BY <1>1, <1>2, <1>3 DEF StreamInv

-----------------------------------------------------------------------------
(* What a task writes.                                                     *)

Ev(f) == IF f.kind = "event" THEN 1 ELSE 0

\* Frames that continue a stream that has got to a.
Continues(fs, a) ==
  /\ fs \in Seq(Frame) /\ fs # <<>> /\ Follows(fs)
  /\ fs[1].at = a + Ev(fs[1])
  /\ \A i \in 1..Len(fs) : /\ fs[i].kind \notin {"expired", "refused"}
                           /\ fs[i].kind = "resync" => i = 1

LEMMA FrameContinues ==
  ASSUME NEW kind \in {"hello", "ok", "resync", "event", "sync", "replaced", "bye"},
         NEW a \in Nat, NEW at \in Nat, at = a + (IF kind = "event" THEN 1 ELSE 0)
  PROVE  /\ Continues(<<F(kind, at)>>, a)
         /\ Len(<<F(kind, at)>>) = 1 /\ <<F(kind, at)>>[1] = F(kind, at)
         /\ F(kind, at).kind = kind /\ F(kind, at).at = at
<1>1. PICK f : f = F(kind, at)
  OBVIOUS
<1>2. f.kind = kind /\ f.at = at
  BY <1>1 DEF F
<1>3. <<f>> \in Seq(Frame)
  BY <1>1, FrameType
<1>4. Len(<<f>>) = 1 /\ <<f>>[1] = f /\ <<f>> # <<>>
  OBVIOUS
<1>5. Follows(<<f>>)
  BY <1>4 DEF Follows
<1> QED BY <1>1, <1>2, <1>3, <1>4, <1>5 DEF Continues, Ev

\* A batch of the events after a.
LEMMA EventsContinue ==
  ASSUME NEW q \in Seq(Nat), q # <<>>, NEW a \in Nat, Consecutive(q, a)
  PROVE  /\ Continues(EventFrames(q), a)
         /\ Len(EventFrames(q)) = Len(q)
         /\ \A i \in 1..Len(q) : EventFrames(q)[i].at = a + i /\ EventFrames(q)[i].kind = "event"
<1>1. PICK fs : fs = EventFrames(q)
  OBVIOUS
<1>2. fs \in Seq(Frame) /\ Len(fs) = Len(q) /\ Len(q) \in Nat /\ Len(q) > 0
  BY <1>1, EventFramesType DEF EventFrames
<1>3. \A i \in 1..Len(q) : fs[i].at = a + i /\ fs[i].kind = "event"
  BY <1>1 DEF EventFrames, F, Consecutive
<1>4. Follows(fs)
  BY <1>2, <1>3 DEF Follows
<1>5. fs # <<>>
  BY <1>2
<1>6. fs[1].at = a + Ev(fs[1])
  BY <1>2, <1>3 DEF Ev
<1> QED BY <1>1, <1>2, <1>3, <1>4, <1>5, <1>6 DEF Continues

\* Frames written after others.
LEMMA ContinuesAfter ==
  ASSUME NEW w \in Seq(Frame), NEW a \in Nat, NEW fs, Continues(fs, a), Follows(w),
         NEW pc, pc # "off", Placed(w, pc),
         w # <<>> => w[Len(w)].at = a,
         \A i \in 1..Len(fs) : fs[i].kind = "resync" => w = <<>>
  PROVE  /\ w \o fs \in Seq(Frame) /\ w \o fs # <<>>
         /\ Follows(w \o fs) /\ \A p : Placed(w \o fs, p)
         /\ (w \o fs)[Len(w \o fs)] = fs[Len(fs)]
         /\ (w \o fs)[1] = IF w = <<>> THEN fs[1] ELSE w[1]
         /\ \A R \in Int : /\ \A i \in 1..Len(w) : w[i].at <= R
                           /\ \A i \in 1..Len(fs) : fs[i].at <= R
                           => \A i \in 1..Len(w \o fs) : (w \o fs)[i].at <= R
<1>1. PICK m, n : m = Len(w) /\ n = Len(fs)
  OBVIOUS
<1>2. fs \in Seq(Frame) /\ m \in Nat /\ n \in Nat /\ n > 0 /\ (w = <<>> <=> m = 0)
  BY <1>1 DEF Continues
<1>3. PICK v : v = w \o fs
  OBVIOUS
<1>4. /\ v \in Seq(Frame) /\ Len(v) = m + n
      /\ \A i \in 1..(m + n) : v[i] = IF i <= m THEN w[i] ELSE fs[i - m]
  BY <1>1, <1>2, <1>3, ConcatProperties
<1>5. \A i \in 1..(m + n) : i > m => i - m \in 1..n /\ v[i] = fs[i - m]
  BY <1>2, <1>4
<1>6. \A i \in 1..m : i \in 1..(m + n) /\ v[i] = w[i]
  BY <1>2, <1>4
<1>7. v # <<>>
  BY <1>2, <1>4
<1>8. v[m + n] = fs[n]
  <2>1. m + n \in 1..(m + n) /\ m + n > m /\ (m + n) - m = n
    BY <1>2
  <2> QED BY <1>5, <2>1
<1>9. v[1] = IF w = <<>> THEN fs[1] ELSE w[1]
  <2>1. 1 \in 1..(m + n) /\ (m = 0 => 1 > m /\ 1 - m = 1) /\ (m # 0 => 1 \in 1..m)
    BY <1>2
  <2> QED BY <1>2, <1>5, <1>6, <2>1
<1>10. Follows(v)
  <2> SUFFICES ASSUME NEW i \in 2..(m + n)
               PROVE  v[i].at = IF v[i].kind = "event" THEN v[i - 1].at + 1 ELSE v[i - 1].at
    BY <1>4 DEF Follows
  <2>1. CASE i <= m
    <3>1. i \in 2..m /\ i \in 1..m /\ i - 1 \in 1..m
      BY <1>2, <2>1
    <3>2. v[i] = w[i] /\ v[i - 1] = w[i - 1]
      BY <1>6, <3>1
    <3> QED BY <1>1, <3>1, <3>2 DEF Follows
  <2>2. CASE i = m + 1
    <3>1. i \in 1..(m + n) /\ i > m /\ i - m = 1 /\ i - 1 = m /\ m \in 1..m /\ m # 0
      BY <1>2, <2>2
    <3>2. v[i] = fs[1] /\ v[i - 1] = w[m]
      BY <1>5, <1>6, <3>1
    <3>3. w[m].at = a /\ fs[1].at = a + Ev(fs[1])
      BY <1>1, <1>2, <3>1 DEF Continues
    <3> QED BY <3>2, <3>3 DEF Ev
  <2>3. CASE i > m + 1
    <3>1. /\ i \in 1..(m + n) /\ i > m /\ i - m \in 2..n
          /\ i - 1 \in 1..(m + n) /\ i - 1 > m /\ (i - 1) - m = (i - m) - 1
      BY <1>2, <2>3
    <3>2. v[i] = fs[i - m] /\ v[i - 1] = fs[(i - m) - 1]
      BY <1>5, <3>1
    <3> QED BY <1>1, <3>1, <3>2 DEF Continues, Follows
  <2> QED BY <1>2, <2>1, <2>2, <2>3
<1>11. ASSUME NEW p PROVE Placed(v, p)
  <2> SUFFICES ASSUME NEW i \in 1..(m + n)
               PROVE  /\ v[i].kind \notin {"expired", "refused"}
                      /\ v[i].kind = "resync" => i = 1
    BY <1>4 DEF Placed
  <2>1. CASE i <= m
    <3>1. i \in 1..m
      BY <1>2, <2>1
    <3> QED BY <1>1, <1>6, <3>1 DEF Placed
  <2>2. CASE i > m
    <3>1. i - m \in 1..n /\ v[i] = fs[i - m]
      BY <1>5, <2>2
    <3>2. /\ v[i].kind \notin {"expired", "refused"}
          /\ v[i].kind = "resync" => i - m = 1 /\ m = 0
      BY <1>1, <1>2, <3>1 DEF Continues
    <3> QED BY <1>2, <3>2
  <2> QED BY <1>2, <2>1, <2>2
<1>12. ASSUME NEW R \in Int, \A i \in 1..Len(w) : w[i].at <= R,
              \A i \in 1..Len(fs) : fs[i].at <= R,
              NEW i \in 1..(m + n)
       PROVE  v[i].at <= R
  <2>1. CASE i <= m
    <3>1. i \in 1..m
      BY <1>2, <2>1
    <3> QED BY <1>1, <1>6, <1>12, <3>1
  <2>2. CASE i > m
    BY <1>1, <1>5, <1>12, <2>2
  <2> QED BY <1>2, <2>1, <2>2
<1> QED BY <1>1, <1>3, <1>4, <1>7, <1>8, <1>9, <1>10, <1>11, <1>12

\* Who reads connection c.
LEMMA ReaderIs ==
  ASSUME StreamInv, NEW c \in Conns, NEW s \in Sessions, cli[s].conn = c
  PROVE  chan[c].owner = s /\ conn[c].peer /\ conn[c].pc # "unused"
<1>1. c # NoConn
  BY SessionsAssumption
<1> QED BY <1>1 DEF StreamInv, SessOK, ReaderOf

\* Its own task leaves it the same reader.
SameReader(c) ==
  /\ cli' = cli /\ chan'[c].owner = chan[c].owner /\ Grows(chan[c].owner)
  /\ conn'[c].peer = conn[c].peer /\ conn'[c].pc # "unused"

\* Connection c after its task wrote fs.
LEMMA Wrote ==
  ASSUME ServerInv, ServerInv', StreamInv, NEW c \in Conns, conn[c].pc \in Writing,
         NEW fs, Continues(fs, conn[c].sent), Write(c, fs), SameReader(c),
         \A i \in 1..Len(fs) : fs[i].kind = "resync" => wire[c] = <<>>,
         \A i \in 1..Len(fs) : fs[i].at <= Reach(sess', chan[c].owner),
         conn'[c].pc \in Writing => conn'[c].sent = fs[Len(fs)].at,
         conn[c].reply = "resync" <=> fs[1].kind = "resync",
         conn'[c].reply = "none"
  PROVE  /\ WireOf(c)' /\ (~conn[c].peer => wire'[c] = <<>>)
         /\ \A s \in Sessions : cli[s].conn = c => SessOK(s)'
<1>0. /\ chan[c].owner \in Sessions /\ wire \in [Conns -> Seq(Frame)] /\ wire[c] \in Seq(Frame)
      /\ conn[c] \in Task /\ conn[c].sent \in Nat /\ conn[c].pc # "off"
      /\ sess' \in [Sessions -> Session] /\ sess \in [Sessions -> Session]
  BY ServerParts DEF ServerInv, RosterInv, Channel, Task, Writing, Attending
<1>1. PICK w, v, R : w = wire[c] /\ v = w \o fs /\ R = Reach(sess', chan[c].owner)
  OBVIOUS
<1>2. wire'[c] = IF conn[c].peer THEN v ELSE w
  BY <1>0, <1>1 DEF Write
<1>3. R \in Int /\ Reach(sess, chan[c].owner) \in Int /\ R >= Reach(sess, chan[c].owner)
  BY <1>0, <1>1, ReachType DEF SameReader, Grows
<1>4. /\ WireOf(c) /\ PeerOf(c)
      /\ \A i \in 1..Len(w) : w[i].at \in Nat
  <2>1. \A i \in 1..Len(w) : w[i] \in Frame
    BY <1>0, <1>1
  <2> QED BY <2>1 DEF StreamInv, ConnOK, Frame
<1>5. \A i \in 1..Len(w) : w[i].at <= R
  BY <1>1, <1>3, <1>4 DEF WireOf
<1>6. /\ v \in Seq(Frame) /\ v # <<>> /\ Follows(v) /\ \A p : Placed(v, p)
      /\ v[Len(v)] = fs[Len(fs)]
      /\ v[1] = IF w = <<>> THEN fs[1] ELSE w[1]
      /\ \A i \in 1..Len(v) : v[i].at <= R
  <2>1. /\ Follows(w) /\ Placed(w, conn[c].pc) /\ w \in Seq(Frame)
        /\ w # <<>> => w[Len(w)].at = conn[c].sent
    BY <1>0, <1>1, <1>4 DEF WireOf
  <2>2. \A i \in 1..Len(fs) : fs[i].at <= R /\ (fs[i].kind = "resync" => w = <<>>)
    BY <1>1
  <2>3. PICK a, pc : a = conn[c].sent /\ pc = conn[c].pc
    OBVIOUS
  <2>4. /\ a \in Nat /\ Continues(fs, a) /\ pc # "off" /\ Placed(w, pc)
        /\ w # <<>> => w[Len(w)].at = a
    BY <1>0, <2>1, <2>3
  <2>5. /\ w \o fs \in Seq(Frame) /\ w \o fs # <<>>
        /\ Follows(w \o fs) /\ \A p : Placed(w \o fs, p)
        /\ (w \o fs)[Len(w \o fs)] = fs[Len(fs)]
        /\ (w \o fs)[1] = IF w = <<>> THEN fs[1] ELSE w[1]
    BY <2>1, <2>2, <2>4, ContinuesAfter
  <2>6. \A i \in 1..Len(w \o fs) : (w \o fs)[i].at <= R
    BY <1>3, <1>5, <2>1, <2>2, <2>4, ContinuesAfter
  <2> QED BY <1>1, <2>5, <2>6
<1>7. ~conn[c].peer => w = <<>>
  BY <1>1, <1>4 DEF PeerOf
<1>8. WireOf(c)'
  <2>1. chan'[c].owner = chan[c].owner
    BY DEF SameReader
  <2>2. CASE conn[c].peer
    <3>1. wire'[c] = v
      BY <1>2, <2>2
    <3> QED BY <1>1, <1>6, <2>1, <3>1 DEF WireOf
  <2>3. CASE ~conn[c].peer
    <3>1. wire'[c] = <<>>
      BY <1>2, <1>7, <2>3
    <3> QED BY <3>1 DEF WireOf, Follows, Placed
  <2> QED BY <2>2, <2>3
<1>9. ASSUME NEW s \in Sessions, cli[s].conn = c PROVE SessOK(s)'
  <2>1. /\ chan[c].owner = s /\ conn[c].peer /\ c # NoConn /\ wire'[c] = v
        /\ cli'[s] = cli[s] /\ cli[s].last \in Nat
    BY <1>2, <1>9, ReaderIs, SessionsAssumption DEF SameReader, StreamInv, Client
  <2>2. ReaderOf(s)'
    BY <1>9, <2>1 DEF ReaderOf, SameReader
  <2>3. ClientOf(s)
    BY DEF StreamInv, SessOK
  <2>4. cli[s].last <= Reach(sess', s)
    BY <1>1, <1>3, <2>1, <2>3 DEF ClientOf
  <2>5. Meets(cli[s], w, conn[c])
    BY <1>1, <1>9, <2>1, <2>3 DEF ClientOf
  <2>6. Meets(cli[s], v, conn'[c])
    <3>1. CASE w # <<>>
      <4>1. v[1] = w[1] /\ conn[c].reply = "none"
        BY <1>1, <1>4, <1>6, <3>1 DEF PeerOf
      <4> QED BY <1>6, <2>5, <3>1, <4>1 DEF Meets
    <3>2. CASE w = <<>>
      <4>1. v[1] = fs[1] /\ fs[1].at = conn[c].sent + Ev(fs[1])
        BY <1>6, <3>2 DEF Continues
      <4>2. IF cli[s].stale \/ conn[c].reply = "resync"
            THEN conn[c].sent >= cli[s].last ELSE conn[c].sent = cli[s].last
        BY <1>0, <2>1, <2>5, <3>2 DEF Meets
      <4> QED BY <1>0, <1>6, <2>1, <4>1, <4>2 DEF Meets, Ev
    <3> QED BY <3>1, <3>2
  <2>7. Resyncs(v, conn'[c]) => Resyncs(w, conn[c]) \/ (w = <<>> /\ fs[1].kind = "resync")
    BY <1>6 DEF Resyncs
  <2>8. Resyncs(v, conn'[c]) => Resyncs(w, conn[c])
    BY <2>7 DEF Resyncs
  <2>9. Resyncs(v, conn'[c]) => cli[s].last < sess'[s].next - 1
    <3>1. Resyncs(w, conn[c]) => cli[s].last < sess[s].next - 1
      BY <1>1, <1>9, <2>1, <2>3 DEF ClientOf
    <3>2. sess[s].next \in Nat /\ sess'[s].next \in Nat /\ sess'[s].next >= sess[s].next
      BY <1>0, <2>1, ReachType DEF SameReader, Grows
    <3> QED BY <2>1, <2>8, <3>1, <3>2
  <2>10. ClientOf(s)'
    BY <1>9, <2>1, <2>4, <2>6, <2>9 DEF ClientOf
  <2> QED BY <2>2, <2>10 DEF SessOK
<1> QED BY <1>2, <1>7, <1>8, <1>9

\* Connection c after a step in which its task wrote nothing.
LEMMA Unwritten ==
  ASSUME ServerInv, ServerInv', StreamInv, NEW c \in Conns, conn[c].pc # "off",
         wire'[c] = wire[c], SameReader(c),
         conn'[c].pc \in Writing => conn[c].pc \in Writing /\ conn'[c].sent = conn[c].sent,
         \/ conn'[c].reply = conn[c].reply
         \/ conn'[c].reply = "none" /\ conn'[c].pc \notin Writing
  PROVE  /\ WireOf(c)' /\ (~conn[c].peer => wire'[c] = <<>>)
         /\ \A s \in Sessions : cli[s].conn = c => SessOK(s)'
<1>0. /\ chan[c].owner \in Sessions /\ wire[c] \in Seq(Frame)
      /\ conn[c] \in Task /\ conn[c].sent \in Nat
      /\ sess' \in [Sessions -> Session] /\ sess \in [Sessions -> Session]
  BY ServerParts DEF ServerInv, RosterInv, Channel, Task
<1>1. PICK w, R : w = wire[c] /\ R = Reach(sess', chan[c].owner)
  OBVIOUS
<1>3. R \in Int /\ Reach(sess, chan[c].owner) \in Int /\ R >= Reach(sess, chan[c].owner)
  BY <1>0, <1>1, ReachType DEF SameReader, Grows
<1>4. /\ WireOf(c) /\ PeerOf(c)
      /\ \A i \in 1..Len(w) : w[i].at \in Nat
  <2>1. \A i \in 1..Len(w) : w[i] \in Frame
    BY <1>0, <1>1
  <2> QED BY <2>1 DEF StreamInv, ConnOK, Frame
<1>5. \A i \in 1..Len(w) : w[i].at <= R
  BY <1>1, <1>3, <1>4 DEF WireOf
<1>8. WireOf(c)'
  <2>1. chan'[c].owner = chan[c].owner
    BY DEF SameReader
  <2>2. Placed(w, conn'[c].pc)
    BY <1>1, <1>4 DEF WireOf, Placed
  <2> QED BY <1>1, <1>4, <1>5, <2>1, <2>2 DEF WireOf
<1>9. ASSUME NEW s \in Sessions, cli[s].conn = c PROVE SessOK(s)'
  <2>1. /\ chan[c].owner = s /\ conn[c].peer /\ c # NoConn
        /\ cli'[s] = cli[s] /\ cli[s].last \in Nat
    BY <1>9, ReaderIs, SessionsAssumption DEF SameReader, StreamInv, Client
  <2>2. ReaderOf(s)'
    BY <1>9, <2>1 DEF ReaderOf, SameReader
  <2>3. ClientOf(s)
    BY DEF StreamInv, SessOK
  <2>4. cli[s].last <= Reach(sess', s)
    BY <1>1, <1>3, <2>1, <2>3 DEF ClientOf
  <2>5. Meets(cli[s], w, conn[c])
    BY <1>1, <1>9, <2>1, <2>3 DEF ClientOf
  <2>6. Meets(cli[s], w, conn'[c])
    <3>1. CASE w # <<>>
      <4>1. conn[c].reply = "none" /\ conn'[c].reply = "none"
        BY <1>1, <1>4, <3>1 DEF PeerOf
      <4> QED BY <2>5, <3>1, <4>1 DEF Meets
    <3>2. CASE w = <<>>
      BY <2>5, <3>2 DEF Meets
    <3> QED BY <3>1, <3>2
  <2>9. Resyncs(w, conn'[c]) => cli[s].last < sess'[s].next - 1
    <3>1. Resyncs(w, conn[c]) => cli[s].last < sess[s].next - 1
      BY <1>1, <1>9, <2>1, <2>3 DEF ClientOf
    <3>2. sess[s].next \in Nat /\ sess'[s].next \in Nat /\ sess'[s].next >= sess[s].next
      BY <1>0, <2>1, ReachType DEF SameReader, Grows
    <3>3. Resyncs(w, conn'[c]) => Resyncs(w, conn[c])
      BY DEF Resyncs
    <3> QED BY <2>1, <3>1, <3>2, <3>3
  <2>10. ClientOf(s)'
    BY <1>1, <1>9, <2>1, <2>4, <2>6, <2>9 DEF ClientOf
  <2> QED BY <2>2, <2>10 DEF SessOK
<1>10. ~conn[c].peer => w = <<>>
  BY <1>1, <1>4 DEF PeerOf
<1> QED BY <1>1, <1>8, <1>9, <1>10

\* What a task has written has left its session's outbox.
LEMMA SentReach ==
  ASSUME ServerInv, StreamInv, NEW c \in Conns, conn[c].pc \in Writing
  PROVE  /\ conn[c].sent \in Nat /\ conn[c].out \in Seq(Nat) /\ chan[c].queue \in Seq(Nat)
         /\ conn[c].sent + Len(conn[c].out) + Len(chan[c].queue) <= Reach(sess, chan[c].owner)
         /\ chan[c].owner \in Sessions /\ Reach(sess, chan[c].owner) \in Int
         /\ conn[c].sent <= Reach(sess, chan[c].owner)
<1>1. conn[c] \in Task /\ chan[c] \in Channel /\ sess \in [Sessions -> Session]
  BY ServerParts
<1>2. chan[c].owner \in Sessions
  BY <1>1 DEF Channel
<1>3. ChannelOf(sess, chan, conn, c)
  BY DEF StreamInv, ConnOK
<1>4. /\ conn[c].sent \in Nat /\ conn[c].out \in Seq(Nat) /\ chan[c].queue \in Seq(Nat)
      /\ conn[c].sent + Len(conn[c].out) + Len(chan[c].queue) <= Reach(sess, chan[c].owner)
      /\ Reach(sess, chan[c].owner) \in Int
  BY <1>1, <1>2, <1>3, ReachType DEF Task, Channel, ChannelOf, Position
<1>5. Len(conn[c].out) \in Nat /\ Len(chan[c].queue) \in Nat
  <2>1. \A q \in Seq(Nat) : Len(q) \in Nat
    OBVIOUS
  <2> QED BY <1>4, <2>1
<1>6. conn[c].sent <= Reach(sess, chan[c].owner)
  <2>1. PICK a, m, n, R : /\ a = conn[c].sent /\ m = Len(conn[c].out)
                          /\ n = Len(chan[c].queue) /\ R = Reach(sess, chan[c].owner)
    OBVIOUS
  <2>2. a \in Nat /\ m \in Nat /\ n \in Nat /\ R \in Int /\ a + m + n <= R
    BY <1>4, <1>5, <2>1
  <2>3. a <= R
    BY <2>2
  <2> QED BY <2>1, <2>3
<1> QED BY <1>2, <1>4, <1>6

-----------------------------------------------------------------------------
(* The task's own connection, when it ends.                                *)

\* Nothing is left to promise of a task that has ended but its frames.
LEMMA OffOK ==
  ASSUME ServerInv, NEW c \in Conns, ConnOK(c), conn'[c].pc = "off",
         conn'[c].peer = conn[c].peer, conn'[c].reply = "none", cli' = cli,
         chan'[c].owner = chan[c].owner,
         WireOf(c)', ~conn[c].peer => wire'[c] = <<>>
  PROVE  ConnOK(c)'
<1>1. "off" \notin Writing
  BY DEF Writing, Attending
<1>2. PeerOf(c)'
  BY DEF ConnOK, PeerOf
<1>3. SyncOf(c)'
  BY DEF SyncOf
<1> QED BY <1>1, <1>2, <1>3 DEF ConnOK

\* A task that ends.
LEMMA EndFacts ==
  ASSUME ServerInv, NEW c \in Conns, End(c)
  PROVE  /\ conn'[c].pc = "off" /\ conn'[c].reply = "none"
         /\ conn'[c].peer = conn[c].peer
<1>1. PICK k : k = [NewTask EXCEPT !.pc = "off", !.peer = conn[c].peer]
  OBVIOUS
<1>2. k.pc = "off" /\ k.reply = "none" /\ k.peer = conn[c].peer
  BY <1>1 DEF NewTask
<1>3. conn'[c] = k
  BY <1>1, ServerParts DEF End
<1> QED BY <1>2, <1>3

\* Refused or expired: the one frame the connection ever brings.
LEMMA RefusedOK ==
  ASSUME ServerInv, ServerInv', StreamInv, NEW c \in Conns, At(c, "asked"),
         NEW kind \in {"refused", "expired"}, Write(c, <<F(kind, 0)>>), End(c),
         SameReader(c)
  PROVE  /\ WireOf(c)' /\ (~conn[c].peer => wire'[c] = <<>>)
         /\ \A s \in Sessions : cli[s].conn = c => SessOK(s)'
<1>0. /\ chan[c].owner \in Sessions /\ wire \in [Conns -> Seq(Frame)]
      /\ sess' \in [Sessions -> Session] /\ sess \in [Sessions -> Session]
      /\ cli \in [Sessions -> Client]
  BY ServerParts DEF ServerInv, RosterInv, Channel, StreamInv
<1>1. PICK f : f = F(kind, 0)
  OBVIOUS
<1>2. f.kind = kind /\ f.at = 0 /\ f \in Frame
  BY <1>1 DEF F, Frame
<1>3. PICK w : w = <<f>>
  OBVIOUS
<1>4. w \in Seq(Frame) /\ Len(w) = 1 /\ w[1] = f /\ w # <<>>
  BY <1>2, <1>3
<1>5. PeerOf(c) /\ wire[c] = <<>>
  <2>1. PeerOf(c)
    BY DEF StreamInv, ConnOK
  <2>2. conn[c].pc = "asked"
    BY DEF At
  <2> QED BY <2>1, <2>2 DEF PeerOf
<1>6. wire'[c] = IF conn[c].peer THEN w ELSE <<>>
  <2>1. <<>> \o w = w
    BY <1>4
  <2> QED BY <1>0, <1>1, <1>3, <1>5, <2>1 DEF Write
<1>7. conn'[c].pc = "off" /\ conn'[c].reply = "none" /\ "off" \notin Writing
  BY EndFacts DEF Writing, Attending
<1>8. \A s \in Sessions : ClientOf(s) /\ ReaderOf(s) /\ cli[s].last \in Nat
  BY <1>0 DEF StreamInv, SessOK, Client
<1>9. Reach(sess', chan[c].owner) \in Int /\ Reach(sess', chan[c].owner) >= 0
  <2>1. PICK o \in Sessions : o = chan[c].owner
    BY <1>0
  <2>2. Reach(sess', o) \in Int /\ Reach(sess, o) \in Int
    BY <1>0, ReachType
  <2>3. cli[o].last <= Reach(sess, o) /\ cli[o].last \in Nat /\ Reach(sess', o) >= Reach(sess, o)
    BY <1>8, <2>1 DEF ClientOf, SameReader, Grows
  <2> QED BY <2>1, <2>2, <2>3
<1>10. WireOf(c)'
  <2>1. CASE conn[c].peer
    <3>1. wire'[c] = w /\ chan'[c].owner = chan[c].owner
      BY <1>6, <2>1 DEF SameReader
    <3>2. Follows(w) /\ Placed(w, "off") /\ \A i \in 1..Len(w) : w[i].at = 0
      BY <1>2, <1>4 DEF Follows, Placed
    <3> QED BY <1>7, <1>9, <3>1, <3>2 DEF WireOf
  <2>2. CASE ~conn[c].peer
    BY <1>6, <1>7, <2>2 DEF WireOf, Follows, Placed
  <2> QED BY <2>1, <2>2
<1>11. ASSUME NEW s \in Sessions, cli[s].conn = c PROVE SessOK(s)'
  <2>1. /\ chan[c].owner = s /\ conn[c].peer /\ c # NoConn
        /\ cli'[s] = cli[s] /\ cli[s].last \in Nat
    BY <1>8, <1>11, ReaderIs, SessionsAssumption DEF SameReader
  <2>2. ReaderOf(s)'
    BY <1>11, <2>1 DEF ReaderOf, SameReader
  <2>3. cli[s].last <= Reach(sess', s)
    <3>1. Reach(sess', s) \in Int /\ Reach(sess, s) \in Int
      BY <1>0, ReachType
    <3>2. cli[s].last <= Reach(sess, s) /\ Reach(sess', s) >= Reach(sess, s)
      BY <1>8, <2>1 DEF ClientOf, SameReader, Grows
    <3> QED BY <2>1, <3>1, <3>2
  <2>4. wire'[c] = w
    BY <1>6, <2>1
  <2>5. Meets(cli[s], w, conn'[c]) /\ ~Resyncs(w, conn'[c])
    BY <1>2, <1>4, <1>7 DEF Meets, Resyncs
  <2> QED BY <1>11, <2>1, <2>2, <2>3, <2>4, <2>5 DEF SessOK, ClientOf
<1> QED BY <1>6, <1>10, <1>11

\* The connection is told how the session or its hold on it ended.
LEMMA FarewellOK ==
  ASSUME ServerInv, ServerInv', StreamInv, NEW c \in Conns, conn[c].pc \in Writing,
         conn[c].reply = "none", NEW kind \in {"bye", "replaced"},
         Write(c, <<F(kind, conn[c].sent)>>), End(c), SameReader(c)
  PROVE  /\ WireOf(c)' /\ (~conn[c].peer => wire'[c] = <<>>)
         /\ \A s \in Sessions : cli[s].conn = c => SessOK(s)'
<1>1. PICK a, fs : a = conn[c].sent /\ fs = <<F(kind, a)>>
  OBVIOUS
<1>2. a \in Nat /\ a <= Reach(sess, chan[c].owner) /\ chan[c].owner \in Sessions
  BY <1>1, SentReach
<1>3. /\ Continues(fs, a) /\ Len(fs) = 1 /\ fs[1].kind = kind /\ fs[1].at = a
  <2>1. /\ kind \in {"hello", "ok", "resync", "event", "sync", "replaced", "bye"}
        /\ a \in Nat /\ a = a + (IF kind = "event" THEN 1 ELSE 0)
    BY <1>2
  <2>2. /\ Continues(<<F(kind, a)>>, a)
        /\ Len(<<F(kind, a)>>) = 1 /\ <<F(kind, a)>>[1] = F(kind, a)
        /\ F(kind, a).kind = kind /\ F(kind, a).at = a
    BY <2>1, FrameContinues
  <2> QED BY <1>1, <2>2
<1>4. a <= Reach(sess', chan[c].owner)
  <2>1. sess' \in [Sessions -> Session] /\ sess \in [Sessions -> Session]
    BY ServerParts DEF ServerInv, RosterInv
  <2> QED BY <1>2, <2>1, ReachType DEF SameReader, Grows
<1>5. conn'[c].pc \notin Writing /\ conn'[c].reply = "none"
  BY EndFacts DEF Writing, Attending
<1> QED BY <1>1, <1>3, <1>4, <1>5, Wrote

\* Every step that ends a task keeps the promise.
LEMMA QuitsOK ==
  ASSUME ServerInv, ServerInv', StreamInv, NEW c \in Conns, Quits(c), cli' = cli
  PROVE  StreamInv'
<1>0. Apart(c) /\ Others(c) /\ End(c) /\ conn \in [Conns -> Task] /\ wire \in [Conns -> Seq(Frame)]
  BY QuitsApart, ServerParts
<1>1. /\ conn'[c].pc = "off" /\ conn'[c].reply = "none" /\ conn'[c].peer = conn[c].peer
      /\ "off" \notin Writing
  BY <1>0, EndFacts DEF Writing, Attending
<1>2. SameReader(c)
  <2>1. chan[c].owner \in Sessions
    BY ServerParts DEF Channel
  <2> QED BY <1>0, <1>1, <2>1 DEF SameReader, Apart
<1>3. ConnOK(c) /\ PeerOf(c)
  BY DEF StreamInv, ConnOK
<1> DEFINE Goal == /\ WireOf(c)' /\ (~conn[c].peer => wire'[c] = <<>>)
                   /\ \A s \in Sessions : cli[s].conn = c => SessOK(s)'
<1>4. ASSUME conn[c].pc # "off", wire' = wire PROVE Goal
  BY <1>1, <1>2, <1>4, Unwritten
<1>5. ASSUME NEW kind \in {"bye", "replaced"}, conn[c].pc \in {"kicked", "run", "replaced"},
             Write(c, <<F(kind, conn[c].sent)>>)
      PROVE  Goal
  <2>1. conn[c].pc \in Writing
    BY <1>5 DEF Writing, Attending
  <2>2. conn[c].reply = "none"
    BY <1>3, <1>5 DEF PeerOf
  <2> QED BY <1>0, <1>2, <1>5, <2>1, <2>2, FarewellOK
<1>6. ASSUME NEW kind \in {"refused", "expired"}, At(c, "asked"), Write(c, <<F(kind, 0)>>)
      PROVE  Goal
  BY <1>0, <1>2, <1>6, RefusedOK
<1> HIDE DEF Goal
<1>7. ASSUME ResumeLimited(c) PROVE Goal
  BY <1>6, <1>7 DEF ResumeLimited
<1>8. ASSUME Replaced(c) PROVE Goal
  BY <1>5, <1>8 DEF Replaced, At
<1>9. ASSUME NEW over \in SUBSET Sessions, LoginFails(c, over) PROVE Goal
  BY <1>4, <1>9 DEF LoginFails
<1>10. ASSUME NEW over \in SUBSET Sessions, ResumeGone(c, over) PROVE Goal
  BY <1>6, <1>10 DEF ResumeGone
<1>11. ASSUME NEW over \in SUBSET Sessions, NEW s \in Sessions, ResumeBanned(c, s, over) PROVE Goal
  BY <1>6, <1>11 DEF ResumeBanned
<1>12. ASSUME NEW over \in SUBSET Sessions,
              ResumeLost(c, over) \/ ConnectionLost(c, over) \/ LetGo(c, over)
       PROVE  Goal
  BY <1>4, <1>12 DEF ResumeLost, ConnectionLost, LetGo, At
<1>13. ASSUME NEW over \in SUBSET Sessions, EndKicked(c, over) \/ Logout(c, over) PROVE Goal
  BY <1>5, <1>13 DEF EndKicked, Logout, At
<1>14. Goal
  BY <1>7, <1>8, <1>9, <1>10, <1>11, <1>12, <1>13 DEF Quits
<1>15. ConnOK(c)'
  BY <1>1, <1>2, <1>3, <1>14, OffOK DEF Goal, SameReader
<1> QED BY <1>0, <1>14, <1>15, OneTask DEF Goal

-----------------------------------------------------------------------------
(* The task's own connection, while it goes on.                            *)

Kept(c) == ConnOK(c)' /\ \A s \in Sessions : cli[s].conn = c => SessOK(s)'

\* What is left to show of a task past its handshake's first steps.
LEMMA TaskOK ==
  ASSUME NEW c \in Conns, ConnOK(c), SameReader(c),
         conn'[c].pc \in Writing => ChannelOf(sess', chan', conn', c),
         conn'[c].pc \notin {"unused", "asked", "attached", "announced"},
         conn'[c].pc \in {"drain", "syncing"} => conn'[c].out = <<>>,
         conn'[c].reply # "none" =>
           wire'[c] = <<>> /\ conn'[c].pc \in {"replying", "resumelost", "panicked"},
         WireOf(c)', ~conn[c].peer => wire'[c] = <<>>, SyncOf(c)'
  PROVE  ConnOK(c)'
<1>1. PeerOf(c)'
  <2>1. conn'[c].peer => cli'[chan'[c].owner].conn = c
    BY DEF SameReader, ConnOK, PeerOf
  <2>2. ~conn'[c].peer => wire'[c] = <<>>
    BY DEF SameReader
  <2> QED BY <2>1, <2>2 DEF PeerOf
<1>2. (conn[c].pc \in Writing => ChannelOf(sess, chan, conn, c))'
  OBVIOUS
<1> QED BY <1>1, <1>2 DEF ConnOK

\* Its position and its queue are as they were.
LEMMA ChannelStays ==
  ASSUME NEW c \in Conns, ChannelOf(sess, chan, conn, c), sess' = sess, chan' = chan,
         conn'[c].out = conn[c].out, conn'[c].sent = conn[c].sent
  PROVE  ChannelOf(sess', chan', conn', c)
  BY DEF ChannelOf, Position, IsLive

\* Only its place in the code changes.
LEMMA GotoFacts ==
  ASSUME ServerInv, NEW c \in Conns, NEW pc, Goto(c, pc)
  PROVE  /\ conn'[c].pc = pc /\ conn'[c].out = conn[c].out /\ conn'[c].sent = conn[c].sent
         /\ conn'[c].reply = conn[c].reply /\ conn'[c].peer = conn[c].peer
         /\ conn'[c].mark = conn[c].mark
<1>1. conn[c] \in Task /\ conn \in [Conns -> Task]
  BY ServerParts
<1>2. PICK k : k = [conn[c] EXCEPT !.pc = pc]
  OBVIOUS
<1>3. conn'[c] = k
  BY <1>1, <1>2 DEF Goto
<1>4. /\ k.pc = pc /\ k.out = conn[c].out /\ k.sent = conn[c].sent
      /\ k.reply = conn[c].reply /\ k.peer = conn[c].peer /\ k.mark = conn[c].mark
  BY <1>1, <1>2 DEF Task
<1> QED BY <1>3, <1>4

\* A reader and a session are what they were.
LEMMA SameStill ==
  ASSUME ServerInv, NEW c \in Conns, sess' = sess, cli' = cli,
         chan'[c].owner = chan[c].owner,
         conn'[c].peer = conn[c].peer, conn'[c].pc # "unused"
  PROVE  SameReader(c)
<1>1. sess \in [Sessions -> Session] /\ chan[c].owner \in Sessions /\ chan \in [Conns -> Channel]
  BY ServerParts DEF Channel
<1>2. Grows(chan[c].owner)
  BY <1>1, StillGrows
<1> QED BY <1>2 DEF SameReader

\* The task goes to another place without a word.
LEMMA GotoKept ==
  ASSUME ServerInv, ServerInv', StreamInv, NEW c \in Conns, conn[c].pc \in Writing,
         NEW pc, Goto(c, pc), pc \in Writing \ {"attached", "announced", "drain"},
         sess' = sess, chan' = chan, wire' = wire, cli' = cli,
         pc = "syncing" => conn[c].out = <<>> /\ conn[c].mark = conn[c].sent,
         conn[c].reply = "none" \/ (conn[c].pc = "replying" /\ pc = "resumelost")
  PROVE  Kept(c)
<1>1. /\ conn'[c].pc = pc /\ conn'[c].out = conn[c].out /\ conn'[c].sent = conn[c].sent
      /\ conn'[c].reply = conn[c].reply /\ conn'[c].peer = conn[c].peer
      /\ conn'[c].mark = conn[c].mark
  BY GotoFacts
<1>2. /\ pc \notin {"unused", "asked", "attached", "announced", "drain", "off"}
      /\ conn[c].pc # "off"
  BY DEF Writing, Attending
<1>3. SameReader(c)
  BY <1>1, <1>2, SameStill
<1>4. ConnOK(c) /\ ChannelOf(sess, chan, conn, c) /\ PeerOf(c)
  BY DEF StreamInv, ConnOK
<1>5. ChannelOf(sess', chan', conn', c)
  BY <1>1, <1>4, ChannelStays
<1>6. /\ WireOf(c)' /\ (~conn[c].peer => wire'[c] = <<>>)
      /\ \A s \in Sessions : cli[s].conn = c => SessOK(s)'
  BY <1>1, <1>2, <1>3, Unwritten
<1>7. SyncOf(c)'
  BY <1>1, <1>2 DEF SyncOf
<1>8. conn'[c].reply # "none" => wire'[c] = <<>> /\ pc = "resumelost"
  BY <1>1, <1>4 DEF PeerOf
<1>9. ConnOK(c)'
  BY <1>1, <1>2, <1>3, <1>4, <1>5, <1>6, <1>7, <1>8, TaskOK
<1> QED BY <1>6, <1>9 DEF Kept

\* What is written, taken and queued is the same stretch of the stream.
LEMMA ChannelMoved ==
  ASSUME NEW c \in Conns, ChannelOf(sess, chan, conn, c), sess' = sess,
         chan'[c].owner = chan[c].owner, chan'[c].rx = chan[c].rx,
         Consecutive(conn'[c].out, conn'[c].sent),
         Consecutive(chan'[c].queue, conn'[c].sent + Len(conn'[c].out)),
         Position(chan', conn', c) = Position(chan, conn, c)
  PROVE  ChannelOf(sess', chan', conn', c)
  BY DEF ChannelOf, IsLive

\* One frame that continues the stream.
LEMMA WroteOne ==
  ASSUME ServerInv, ServerInv', StreamInv, NEW c \in Conns, conn[c].pc \in Writing,
         NEW kind \in {"hello", "ok", "resync", "event", "sync", "replaced", "bye"},
         NEW at \in Nat, at = conn[c].sent + (IF kind = "event" THEN 1 ELSE 0),
         Write(c, <<F(kind, at)>>), SameReader(c),
         kind = "resync" => wire[c] = <<>>,
         at <= Reach(sess', chan[c].owner),
         conn'[c].pc \in Writing => conn'[c].sent = at,
         conn[c].reply = "resync" <=> kind = "resync", conn'[c].reply = "none"
  PROVE  /\ WireOf(c)' /\ (~conn[c].peer => wire'[c] = <<>>)
         /\ \A s \in Sessions : cli[s].conn = c => SessOK(s)'
<1>1. PICK fs, a : fs = <<F(kind, at)>> /\ a = conn[c].sent
  OBVIOUS
<1>2. a \in Nat /\ at = a + (IF kind = "event" THEN 1 ELSE 0)
  BY <1>1, ServerParts DEF Task
<1>3. Continues(fs, a) /\ Len(fs) = 1 /\ fs[1] = F(kind, at) /\ F(kind, at).kind = kind
  BY <1>1, <1>2, FrameContinues
<1>4. fs[1].at = at /\ fs[1].kind = kind
  BY <1>3 DEF F
<1>5. \A i \in 1..Len(fs) : fs[i].at = at /\ fs[i].kind = kind
  BY <1>3, <1>4
<1>6. fs[Len(fs)].at = at
  BY <1>3, <1>4
<1>7. Write(c, fs) /\ Continues(fs, conn[c].sent)
  BY <1>1, <1>3
<1> QED BY <1>4, <1>5, <1>6, <1>7, Wrote

\* The login reply.
LEMMA LoginReplyKept ==
  ASSUME ServerInv, ServerInv', StreamInv, NEW c \in Conns, LoginReply(c), cli' = cli
  PROVE  Kept(c)
<1>0. /\ conn[c].pc = "announced" /\ conn[c] \in Task /\ conn \in [Conns -> Task]
      /\ sess' = sess /\ chan' = chan /\ Write(c, <<F("hello", 0)>>)
      /\ conn' = [conn EXCEPT ![c].pc = "run", ![c].detach = TRUE]
  BY ServerParts DEF LoginReply, At, rosterVars
<1>1. ConnOK(c) /\ PeerOf(c) /\ conn[c].pc \in Writing /\ "run" \in Writing
  BY <1>0 DEF StreamInv, ConnOK, Writing, Attending
<1>2. conn[c].out = <<>> /\ conn[c].sent = 0 /\ wire[c] = <<>> /\ conn[c].reply = "none"
  BY <1>0, <1>1 DEF PeerOf
<1>3. /\ conn'[c].pc = "run" /\ conn'[c].out = <<>> /\ conn'[c].sent = 0
      /\ conn'[c].reply = "none" /\ conn'[c].peer = conn[c].peer
  BY <1>0, <1>2 DEF Task
<1>4. SameReader(c)
  BY <1>0, <1>3, SameStill
<1>7. 0 <= Reach(sess', chan[c].owner)
  BY <1>0, <1>1, <1>2, SentReach
<1>8. /\ WireOf(c)' /\ (~conn[c].peer => wire'[c] = <<>>)
      /\ \A s \in Sessions : cli[s].conn = c => SessOK(s)'
  <2>1. Write(c, <<F("hello", 0)>>)
    BY <1>0
  <2>2. 0 = conn[c].sent + 0
    BY <1>2
  <2> QED BY <1>1, <1>2, <1>3, <1>4, <1>7, <2>1, <2>2, WroteOne
<1>9. ChannelOf(sess', chan', conn', c)
  BY <1>0, <1>1, <1>2, <1>3, ChannelStays DEF ConnOK
<1>10. SyncOf(c)'
  BY <1>3 DEF SyncOf
<1>11. ConnOK(c)'
  BY <1>1, <1>3, <1>4, <1>8, <1>9, <1>10, TaskOK
<1> QED BY <1>8, <1>11 DEF Kept

\* The answer to a resume.
LEMMA ResumeReplyKept ==
  ASSUME ServerInv, ServerInv', StreamInv, NEW c \in Conns, ResumeReply(c), cli' = cli
  PROVE  Kept(c)
<1>0. /\ conn[c].pc = "replying" /\ conn[c] \in Task /\ conn \in [Conns -> Task]
      /\ sess' = sess /\ chan' = chan /\ Write(c, <<F(conn[c].reply, conn[c].sent)>>)
      /\ conn' = [conn EXCEPT ![c].reply = "none"]
      /\ conn[c].reply \in {"ok", "resync"} /\ conn[c].sent \in Nat
  BY ServerParts DEF ResumeReply, At, rosterVars, Task
<1>1. ConnOK(c) /\ PeerOf(c) /\ conn[c].pc \in Writing
  BY <1>0 DEF StreamInv, ConnOK, Writing, Attending
<1>2. wire[c] = <<>>
  BY <1>0, <1>1 DEF PeerOf
<1>3. /\ conn'[c].pc = "replying" /\ conn'[c].out = conn[c].out /\ conn'[c].sent = conn[c].sent
      /\ conn'[c].reply = "none" /\ conn'[c].peer = conn[c].peer
  BY <1>0 DEF Task
<1>4. SameReader(c)
  BY <1>0, <1>3, SameStill
<1>5. PICK r, a : r = conn[c].reply /\ a = conn[c].sent
  OBVIOUS
<1>6. /\ r \in {"ok", "resync"} /\ a \in Nat /\ a = conn[c].sent + 0
      /\ Write(c, <<F(r, a)>>) /\ conn'[c].sent = a
  BY <1>0, <1>3, <1>5
<1>7. a <= Reach(sess', chan[c].owner)
  BY <1>0, <1>1, <1>5, SentReach
<1>8. /\ WireOf(c)' /\ (~conn[c].peer => wire'[c] = <<>>)
      /\ \A s \in Sessions : cli[s].conn = c => SessOK(s)'
  BY <1>1, <1>2, <1>3, <1>4, <1>5, <1>6, <1>7, WroteOne
<1>9. ChannelOf(sess', chan', conn', c)
  BY <1>0, <1>1, <1>3, ChannelStays DEF ConnOK
<1>10. SyncOf(c)'
  BY <1>3 DEF SyncOf
<1>11. ConnOK(c)'
  BY <1>1, <1>3, <1>4, <1>8, <1>9, <1>10, TaskOK
<1> QED BY <1>8, <1>11 DEF Kept

\* One event of the replay.
LEMMA ResumeReplayKept ==
  ASSUME ServerInv, ServerInv', StreamInv, NEW c \in Conns, ResumeReplay(c), cli' = cli
  PROVE  Kept(c)
<1>0. /\ conn[c].pc = "replying" /\ conn[c] \in Task /\ conn \in [Conns -> Task]
      /\ sess' = sess /\ chan' = chan /\ Write(c, <<F("event", Head(conn[c].out))>>)
      /\ conn' = [conn EXCEPT ![c].out = Tail(@), ![c].sent = Head(conn[c].out)]
      /\ conn[c].reply = "none" /\ conn[c].out # <<>>
  BY ServerParts DEF ResumeReplay, At, rosterVars
<1>1. /\ ConnOK(c) /\ ChannelOf(sess, chan, conn, c) /\ conn[c].pc \in Writing
      /\ "replying" \in Writing
  BY <1>0 DEF StreamInv, ConnOK, Writing, Attending
<1>2. PICK out, a, m, n : /\ out = conn[c].out /\ a = conn[c].sent
                          /\ m = Len(out) /\ n = Len(chan[c].queue)
  OBVIOUS
<1>3. /\ out \in Seq(Nat) /\ a \in Nat /\ out # <<>> /\ Consecutive(out, a)
      /\ a + m + n <= Reach(sess, chan[c].owner) /\ chan[c].queue \in Seq(Nat)
      /\ Reach(sess, chan[c].owner) \in Int /\ Consecutive(chan[c].queue, a + m)
  BY <1>0, <1>1, <1>2, SentReach DEF ChannelOf
<1>4. m \in Nat /\ n \in Nat /\ m > 0
  BY <1>2, <1>3
<1>5. PICK h, t : h = Head(out) /\ t = Tail(out)
  OBVIOUS
<1>6. h = a + 1 /\ t \in Seq(Nat) /\ Len(t) = m - 1 /\ Consecutive(t, a + 1) /\ h \in Nat
  <2>1. /\ Head(out) = a + 1 /\ Tail(out) \in Seq(Nat) /\ Len(Tail(out)) = Len(out) - 1
        /\ Consecutive(Tail(out), a + 1)
    BY <1>3, ConsecutiveTail
  <2>2. a + 1 \in Nat
    BY <1>3
  <2> QED BY <1>2, <1>5, <2>1, <2>2
<1>7. /\ conn'[c].pc = "replying" /\ conn'[c].out = t /\ conn'[c].sent = h
      /\ conn'[c].reply = "none" /\ conn'[c].peer = conn[c].peer
  BY <1>0, <1>2, <1>5 DEF Task
<1>8. SameReader(c)
  BY <1>0, <1>7, SameStill
<1>9. PICK R, l : R = Reach(sess, chan[c].owner) /\ l = Len(t)
  OBVIOUS
<1>10. h <= R /\ h + l = a + m
  <2>1. R \in Int /\ a \in Nat /\ a + m + n <= R /\ h = a + 1 /\ l = m - 1
    BY <1>3, <1>6, <1>9
  <2> QED BY <1>4, <2>1
<1>11. h <= Reach(sess', chan[c].owner)
  <2>1. sess' = sess
    BY <1>0
  <2> QED BY <1>9, <1>10, <2>1
<1>12. /\ WireOf(c)' /\ (~conn[c].peer => wire'[c] = <<>>)
       /\ \A s \in Sessions : cli[s].conn = c => SessOK(s)'
  <2>1. Write(c, <<F("event", h)>>) /\ h = conn[c].sent + 1 /\ conn[c].reply = "none"
    BY <1>0, <1>2, <1>5, <1>6
  <2> QED BY <1>1, <1>6, <1>7, <1>8, <1>11, <2>1, WroteOne
<1>13. ChannelOf(sess', chan', conn', c)
  <2>1. h + Len(t) = a + m
    BY <1>9, <1>10
  <2>2. Position(chan', conn', c) = Position(chan, conn, c)
    BY <1>0, <1>2, <1>7, <2>1 DEF Position
  <2>3. Consecutive(conn'[c].out, conn'[c].sent)
    BY <1>6, <1>7
  <2>4. Consecutive(chan'[c].queue, conn'[c].sent + Len(conn'[c].out))
    BY <1>0, <1>3, <1>7, <2>1
  <2> QED BY <1>0, <1>1, <2>2, <2>3, <2>4, ChannelMoved
<1>14. SyncOf(c)'
  BY <1>7 DEF SyncOf
<1>15. ConnOK(c)'
  BY <1>1, <1>7, <1>8, <1>12, <1>13, <1>14, TaskOK
<1> QED BY <1>12, <1>15 DEF Kept

\* The numbers of a connection whose task still reads its queue.
LEMMA Numbers ==
  ASSUME ServerInv, StreamInv, NEW c \in Conns, conn[c].pc \in Writing
  PROVE  /\ conn[c] \in Task /\ conn \in [Conns -> Task] /\ chan[c] \in Channel
         /\ chan \in [Conns -> Channel]
         /\ ConnOK(c) /\ PeerOf(c) /\ ChannelOf(sess, chan, conn, c)
         /\ \E out, q \in Seq(Nat), a, m, n \in Nat, R \in Int :
              /\ out = conn[c].out /\ q = chan[c].queue /\ a = conn[c].sent
              /\ m = Len(out) /\ n = Len(q) /\ R = Reach(sess, chan[c].owner)
              /\ Consecutive(out, a) /\ Consecutive(q, a + m) /\ a + m + n <= R
<1>1. /\ conn[c].sent \in Nat /\ conn[c].out \in Seq(Nat) /\ chan[c].queue \in Seq(Nat)
      /\ conn[c].sent + Len(conn[c].out) + Len(chan[c].queue) <= Reach(sess, chan[c].owner)
      /\ Reach(sess, chan[c].owner) \in Int
  BY SentReach
<1>2. ConnOK(c) /\ PeerOf(c) /\ ChannelOf(sess, chan, conn, c)
  BY DEF StreamInv, ConnOK
<1>3. PICK out, q, a, R : /\ out = conn[c].out /\ q = chan[c].queue /\ a = conn[c].sent
                          /\ R = Reach(sess, chan[c].owner)
  OBVIOUS
<1>4. PICK m, n : m = Len(out) /\ n = Len(q)
  OBVIOUS
<1>5. out \in Seq(Nat) /\ q \in Seq(Nat) /\ a \in Nat /\ R \in Int
  BY <1>1, <1>3
<1>6. m \in Nat /\ n \in Nat
  BY <1>4, <1>5
<1>7. a + m + n <= R /\ Consecutive(out, a) /\ Consecutive(q, a + m)
  BY <1>1, <1>2, <1>3, <1>4 DEF ChannelOf
<1> QED BY <1>2, <1>3, <1>4, <1>5, <1>6, <1>7, ServerParts

\* An event is taken from the queue.
LEMMA TakeKept ==
  ASSUME ServerInv, ServerInv', StreamInv, NEW c \in Conns, Take(c), cli' = cli
  PROVE  Kept(c)
<1>0. /\ conn[c].pc = "run" /\ sess' = sess /\ wire' = wire /\ chan[c].queue # <<>>
      /\ conn' = [conn EXCEPT ![c].out = Append(@, Head(chan[c].queue))]
      /\ chan' = [chan EXCEPT ![c].queue = Tail(@)]
  BY DEF Take, At
<1>1. conn[c].pc \in Writing /\ "run" \in Writing
  BY <1>0 DEF Writing, Attending
<1>2. /\ conn[c] \in Task /\ conn \in [Conns -> Task] /\ chan[c] \in Channel
      /\ chan \in [Conns -> Channel]
      /\ ConnOK(c) /\ PeerOf(c) /\ ChannelOf(sess, chan, conn, c)
  BY <1>1, Numbers
<1>3. PICK out, q \in Seq(Nat), a, m, n \in Nat, R \in Int :
        /\ out = conn[c].out /\ q = chan[c].queue /\ a = conn[c].sent
        /\ m = Len(out) /\ n = Len(q) /\ R = Reach(sess, chan[c].owner)
        /\ Consecutive(out, a) /\ Consecutive(q, a + m) /\ a + m + n <= R
  BY <1>1, Numbers
<1>4. PICK h, t, o : h = Head(q) /\ t = Tail(q) /\ o = Append(out, h)
  OBVIOUS
<1>5. PICK b \in Nat : b = a + m
  OBVIOUS
<1>6. h = b + 1 /\ t \in Seq(Nat) /\ Len(t) = n - 1 /\ Consecutive(t, b + 1)
  <2>1. q # <<>> /\ Consecutive(q, b)
    BY <1>0, <1>3, <1>5
  <2>2. /\ Head(q) = b + 1 /\ Tail(q) \in Seq(Nat) /\ Len(Tail(q)) = Len(q) - 1
        /\ Consecutive(Tail(q), b + 1)
    BY <2>1, ConsecutiveTail
  <2> QED BY <1>3, <1>4, <2>2
<1>7. o \in Seq(Nat) /\ Len(o) = m + 1 /\ Consecutive(o, a)
  <2>1. h \in Nat /\ h = a + Len(out) + 1
    <3>1. m = Len(out)
      BY <1>3
    <3>2. h = a + m + 1 /\ h \in Nat
      <4>1. h = b + 1
        BY <1>6
      <4> QED BY <1>5, <4>1
    <3> QED BY <3>1, <3>2
  <2>2. /\ Append(out, h) \in Seq(Nat) /\ Len(Append(out, h)) = Len(out) + 1
        /\ Consecutive(Append(out, h), a)
    BY <1>3, <2>1, ConsecutiveAppend
  <2> QED BY <1>3, <1>4, <2>2
<1>8. /\ conn'[c].pc = "run" /\ conn'[c].out = o /\ conn'[c].sent = a
      /\ conn'[c].reply = conn[c].reply /\ conn'[c].peer = conn[c].peer
  BY <1>0, <1>2, <1>3, <1>4 DEF Task
<1>9. /\ chan'[c].queue = t /\ chan'[c].owner = chan[c].owner /\ chan'[c].rx = chan[c].rx
  BY <1>0, <1>2, <1>3, <1>4 DEF Channel
<1>10. SameReader(c)
  BY <1>0, <1>8, <1>9, SameStill
<1>11. /\ WireOf(c)' /\ (~conn[c].peer => wire'[c] = <<>>)
       /\ \A s \in Sessions : cli[s].conn = c => SessOK(s)'
  BY <1>0, <1>1, <1>3, <1>8, <1>10, Unwritten
<1>12. ChannelOf(sess', chan', conn', c)
  <2>1. PICK x, y : x = Len(o) /\ y = Len(t)
    OBVIOUS
  <2>2. x = m + 1 /\ y = n - 1
    BY <1>6, <1>7, <2>1
  <2>3. a + x + y = a + m + n /\ a + x = b + 1
    BY <1>5, <2>2
  <2>4. Position(chan', conn', c) = Position(chan, conn, c)
    BY <1>3, <1>8, <1>9, <2>1, <2>3 DEF Position
  <2>5. Consecutive(conn'[c].out, conn'[c].sent)
    BY <1>7, <1>8
  <2>6. Consecutive(chan'[c].queue, conn'[c].sent + Len(conn'[c].out))
    BY <1>6, <1>8, <1>9, <2>1, <2>3
  <2> QED BY <1>0, <1>2, <1>9, <2>4, <2>5, <2>6, ChannelMoved
<1>13. conn[c].reply = "none"
  BY <1>0, <1>2 DEF PeerOf
<1>14. SyncOf(c)'
  BY <1>8 DEF SyncOf
<1>15. ConnOK(c)'
  BY <1>2, <1>8, <1>10, <1>11, <1>12, <1>13, <1>14, TaskOK
<1> QED BY <1>11, <1>15 DEF Kept

\* The batch is written.
LEMMA SendEventsKept ==
  ASSUME ServerInv, ServerInv', StreamInv, NEW c \in Conns, SendEvents(c), cli' = cli
  PROVE  Kept(c)
<1>0. /\ conn[c].pc = "run" /\ sess' = sess /\ chan' = chan /\ conn[c].out # <<>>
      /\ Write(c, EventFrames(conn[c].out))
      /\ conn' = [conn EXCEPT ![c].pc = IF HasKick(c) THEN "kicked" ELSE @,
                              ![c].out = <<>>, ![c].sent = conn[c].out[Len(conn[c].out)]]
  BY DEF SendEvents, At, rosterVars
<1>1. conn[c].pc \in Writing
  BY <1>0 DEF Writing, Attending
<1>2. /\ conn[c] \in Task /\ conn \in [Conns -> Task]
      /\ ConnOK(c) /\ PeerOf(c) /\ ChannelOf(sess, chan, conn, c)
  BY <1>1, Numbers
<1>3. PICK out, q \in Seq(Nat), a, m, n \in Nat, R \in Int :
        /\ out = conn[c].out /\ q = chan[c].queue /\ a = conn[c].sent
        /\ m = Len(out) /\ n = Len(q) /\ R = Reach(sess, chan[c].owner)
        /\ Consecutive(out, a) /\ Consecutive(q, a + m) /\ a + m + n <= R
  BY <1>1, Numbers
<1>4. m > 0 /\ m \in 1..m /\ out # <<>>
  <2>1. out # <<>> /\ m = Len(out)
    BY <1>0, <1>3
  <2>2. m # 0
    BY <2>1
  <2> QED BY <2>1, <2>2
<1>5. out[m] = a + m
  BY <1>3, <1>4 DEF Consecutive
<1>6. PICK fs : fs = EventFrames(out)
  OBVIOUS
<1>7. /\ Continues(fs, a) /\ Len(fs) = m
      /\ \A i \in 1..m : fs[i].at = a + i /\ fs[i].kind = "event"
  <2>1. out # <<>> /\ Consecutive(out, a) /\ m = Len(out)
    BY <1>3, <1>4
  <2>2. /\ Continues(EventFrames(out), a) /\ Len(EventFrames(out)) = Len(out)
        /\ \A i \in 1..Len(out) : EventFrames(out)[i].at = a + i /\ EventFrames(out)[i].kind = "event"
    BY <2>1, EventsContinue
  <2> QED BY <1>6, <2>1, <2>2
<1>8. /\ conn'[c].pc \in {"run", "kicked"} /\ conn'[c].out = <<>> /\ conn'[c].sent = a + m
      /\ conn'[c].reply = conn[c].reply /\ conn'[c].peer = conn[c].peer
  <2>1. PICK pc : pc = IF HasKick(c) THEN "kicked" ELSE conn[c].pc
    OBVIOUS
  <2>2. pc \in {"run", "kicked"}
    BY <1>0, <2>1
  <2>3. conn'[c] = [conn[c] EXCEPT !.pc = pc, !.out = <<>>, !.sent = a + m]
    BY <1>0, <1>2, <1>3, <1>5, <2>1
  <2> QED BY <1>2, <2>2, <2>3 DEF Task
<1>9. conn[c].reply = "none"
  BY <1>0, <1>2 DEF PeerOf
<1>10. SameReader(c)
  BY <1>0, <1>8, SameStill
<1>11. \A i \in 1..Len(fs) : fs[i].at <= Reach(sess', chan[c].owner)
  <2>0. a + m + n <= R
    BY <1>3
  <2>1. \A i \in 1..m : a + i <= R
    BY <2>0
  <2>2. sess' = sess /\ R = Reach(sess, chan[c].owner)
    BY <1>0, <1>3
  <2> QED BY <1>7, <2>1, <2>2
<1>12. /\ WireOf(c)' /\ (~conn[c].peer => wire'[c] = <<>>)
       /\ \A s \in Sessions : cli[s].conn = c => SessOK(s)'
  <2>1. Write(c, fs) /\ Continues(fs, conn[c].sent)
    BY <1>0, <1>3, <1>6, <1>7
  <2>2. /\ \A i \in 1..Len(fs) : fs[i].kind = "event"
        /\ fs[1].kind = "event" /\ fs[Len(fs)].at = conn'[c].sent
    BY <1>4, <1>7, <1>8
  <2> QED BY <1>1, <1>8, <1>9, <1>10, <1>11, <2>1, <2>2, Wrote
<1>13. ChannelOf(sess', chan', conn', c)
  <2>1. Len(<<>>) = 0 /\ (a + m) + 0 = a + m /\ (a + m) + 0 + n = a + m + n
    BY <1>3
  <2>2. Position(chan', conn', c) = Position(chan, conn, c)
    <3>1. Position(chan, conn, c) = a + m + n
      BY <1>3 DEF Position
    <3>2. chan'[c].queue = q
      BY <1>0, <1>3
    <3>3. Position(chan', conn', c) = (a + m) + 0 + n
      BY <1>3, <1>8, <2>1, <3>2 DEF Position
    <3> QED BY <2>1, <3>1, <3>3
  <2>3. Consecutive(conn'[c].out, conn'[c].sent)
    BY <1>8 DEF Consecutive
  <2>4. Consecutive(chan'[c].queue, conn'[c].sent + Len(conn'[c].out))
    BY <1>0, <1>3, <1>8, <2>1
  <2> QED BY <1>0, <1>2, <2>2, <2>3, <2>4, ChannelMoved
<1>14. SyncOf(c)'
  BY <1>8 DEF SyncOf
<1>15. ConnOK(c)'
  BY <1>2, <1>8, <1>9, <1>10, <1>12, <1>13, <1>14, TaskOK
<1> QED BY <1>12, <1>15 DEF Kept

\* handle_sync reads the seq: what is queued reaches it.
LEMMA SyncStartKept ==
  ASSUME ServerInv, ServerInv', StreamInv, NEW c \in Conns, SyncStart(c), cli' = cli
  PROVE  Kept(c)
<1>0. /\ conn[c].pc = "run" /\ sess' = sess /\ chan' = chan /\ wire' = wire
      /\ conn[c].out = <<>>
      /\ conn' = [conn EXCEPT ![c].pc = "drain", ![c].kick = FALSE,
                              ![c].mark = CurrentSeq(chan[c].owner)]
  BY DEF SyncStart, At, rosterVars, Owner
<1>1. conn[c].pc \in Writing
  BY <1>0 DEF Writing, Attending
<1>2. /\ conn[c] \in Task /\ conn \in [Conns -> Task]
      /\ ConnOK(c) /\ PeerOf(c) /\ ChannelOf(sess, chan, conn, c)
  BY <1>1, Numbers
<1>3. PICK out, q \in Seq(Nat), a, m, n \in Nat, R \in Int :
        /\ out = conn[c].out /\ q = chan[c].queue /\ a = conn[c].sent
        /\ m = Len(out) /\ n = Len(q) /\ R = Reach(sess, chan[c].owner)
        /\ Consecutive(out, a) /\ Consecutive(q, a + m) /\ a + m + n <= R
  BY <1>1, Numbers
<1>4. PICK z : z = CurrentSeq(chan[c].owner)
  OBVIOUS
<1>5. /\ conn'[c].pc = "drain" /\ conn'[c].out = <<>> /\ conn'[c].sent = a
      /\ conn'[c].reply = conn[c].reply /\ conn'[c].peer = conn[c].peer /\ conn'[c].mark = z
  BY <1>0, <1>2, <1>3, <1>4 DEF Task
<1>6. SameReader(c)
  BY <1>0, <1>5, SameStill
<1>7. conn[c].reply = "none"
  BY <1>0, <1>2 DEF PeerOf
<1>8. /\ WireOf(c)' /\ (~conn[c].peer => wire'[c] = <<>>)
      /\ \A s \in Sessions : cli[s].conn = c => SessOK(s)'
  BY <1>0, <1>1, <1>3, <1>5, <1>6, Unwritten
<1>9. ChannelOf(sess', chan', conn', c)
  BY <1>0, <1>2, <1>3, <1>5, ChannelStays
<1>10. SyncOf(c)'
  <2>1. ASSUME TxOpen(c)' PROVE z \in a..(a + n)
    <3>1. TxOpen(c)
      BY <1>0, <2>1 DEF TxOpen
    <3>2. IsLive(sess, chan[c].owner, c) /\ sess[chan[c].owner].phase = "here"
      BY <3>1 DEF TxOpen, IsLive
    <3>3. Position(chan, conn, c) = z
      BY <1>2, <1>4, <3>2 DEF ChannelOf, CurrentSeq
    <3>4. m = 0
      BY <1>0, <1>3
    <3>5. Position(chan, conn, c) = a + m + n
      BY <1>3 DEF Position
    <3> QED BY <3>3, <3>4, <3>5
  <2>2. Len(chan'[c].queue) = n
    BY <1>0, <1>3
  <2> QED BY <1>5, <2>1, <2>2 DEF SyncOf
<1>11. ConnOK(c)'
  BY <1>2, <1>5, <1>6, <1>7, <1>8, <1>9, <1>10, TaskOK
<1> QED BY <1>8, <1>11 DEF Kept

\* It drains one event.
LEMMA SyncDrainKept ==
  ASSUME ServerInv, ServerInv', StreamInv, NEW c \in Conns, SyncDrain(c), cli' = cli
  PROVE  Kept(c)
<1>0. /\ conn[c].pc = "drain" /\ sess' = sess /\ chan[c].queue # <<>>
      /\ chan' = [chan EXCEPT ![c].queue = Tail(@)]
      /\ Write(c, <<F("event", Head(chan[c].queue))>>)
      /\ conn' = [conn EXCEPT
           ![c].mark = IF Head(chan[c].queue) > @ THEN Head(chan[c].queue) ELSE @,
           ![c].kick = @ \/ Head(chan[c].queue) \in sess[Owner(c)].kicks,
           ![c].sent = Head(chan[c].queue)]
  BY DEF SyncDrain, At
<1>1. conn[c].pc \in Writing /\ "drain" \in Writing
  BY <1>0 DEF Writing, Attending
<1>2. /\ conn[c] \in Task /\ conn \in [Conns -> Task] /\ chan[c] \in Channel
      /\ chan \in [Conns -> Channel]
      /\ ConnOK(c) /\ PeerOf(c) /\ ChannelOf(sess, chan, conn, c)
  BY <1>1, Numbers
<1>3. PICK out, q \in Seq(Nat), a, m, n \in Nat, R \in Int :
        /\ out = conn[c].out /\ q = chan[c].queue /\ a = conn[c].sent
        /\ m = Len(out) /\ n = Len(q) /\ R = Reach(sess, chan[c].owner)
        /\ Consecutive(out, a) /\ Consecutive(q, a + m) /\ a + m + n <= R
  BY <1>1, Numbers
<1>4. out = <<>> /\ m = 0 /\ conn[c].reply = "none"
  <2>1. conn[c].out = <<>> /\ conn[c].reply = "none"
    BY <1>0, <1>2 DEF PeerOf
  <2>2. out = <<>> /\ m = Len(out)
    BY <1>3, <2>1
  <2> QED BY <2>1, <2>2
<1>5. PICK h, t : h = Head(q) /\ t = Tail(q)
  OBVIOUS
<1>6. /\ h = a + 1 /\ t \in Seq(Nat) /\ Len(t) = n - 1 /\ Consecutive(t, a + 1)
      /\ h \in Nat /\ n > 0
  <2>1. q # <<>> /\ Consecutive(q, a + m) /\ a + m = a /\ n = Len(q)
    BY <1>0, <1>3, <1>4
  <2>2. Consecutive(q, a)
    BY <2>1
  <2>3. /\ Head(q) = a + 1 /\ Tail(q) \in Seq(Nat) /\ Len(Tail(q)) = Len(q) - 1
        /\ Consecutive(Tail(q), a + 1)
    BY <2>1, <2>2, ConsecutiveTail
  <2>4. a + 1 \in Nat /\ n # 0
    BY <2>1
  <2> QED BY <1>5, <2>1, <2>3, <2>4
<1>7. PICK k, z : k = conn[c].mark /\ z = IF h > k THEN h ELSE k
  OBVIOUS
<1>8. k \in Nat
  BY <1>2, <1>7 DEF Task
<1>9. /\ conn'[c].pc = "drain" /\ conn'[c].out = out /\ conn'[c].sent = h
      /\ conn'[c].reply = conn[c].reply /\ conn'[c].peer = conn[c].peer /\ conn'[c].mark = z
  <2>1. PICK b : b = (conn[c].kick \/ Head(chan[c].queue) \in sess[Owner(c)].kicks)
    OBVIOUS
  <2>2. conn'[c] = [conn[c] EXCEPT !.mark = z, !.kick = b, !.sent = h]
    BY <1>0, <1>2, <1>3, <1>5, <1>7, <2>1
  <2>3. /\ conn'[c].pc = conn[c].pc /\ conn'[c].out = conn[c].out /\ conn'[c].sent = h
        /\ conn'[c].reply = conn[c].reply /\ conn'[c].peer = conn[c].peer /\ conn'[c].mark = z
    BY <1>2, <2>2 DEF Task
  <2> QED BY <1>0, <1>3, <2>3
<1>10. /\ chan'[c].queue = t /\ chan'[c].owner = chan[c].owner /\ chan'[c].rx = chan[c].rx
  BY <1>0, <1>2, <1>3, <1>5 DEF Channel
<1>11. SameReader(c)
  BY <1>0, <1>9, <1>10, SameStill
<1>12. h <= Reach(sess', chan[c].owner)
  <2>1. a + m + n <= R /\ R = Reach(sess, chan[c].owner) /\ sess' = sess
    BY <1>0, <1>3
  <2>2. h <= R
    BY <1>4, <1>6, <2>1
  <2> QED BY <2>1, <2>2
<1>13. /\ WireOf(c)' /\ (~conn[c].peer => wire'[c] = <<>>)
       /\ \A s \in Sessions : cli[s].conn = c => SessOK(s)'
  <2>1. Write(c, <<F("event", h)>>) /\ h = conn[c].sent + 1
    BY <1>0, <1>3, <1>5, <1>6
  <2> QED BY <1>1, <1>4, <1>6, <1>9, <1>11, <1>12, <2>1, WroteOne
<1>14. ChannelOf(sess', chan', conn', c)
  <2>1. PICK y : y = Len(t)
    OBVIOUS
  <2>2. y = n - 1 /\ h + m + y = a + m + n /\ h + m = a + 1
    <3>1. y = n - 1 /\ h = a + 1
      BY <1>6, <2>1
    <3> QED BY <1>4, <3>1
  <2>3. Position(chan', conn', c) = h + m + y
    BY <1>3, <1>9, <1>10, <2>1 DEF Position
  <2>4. Position(chan, conn, c) = a + m + n
    BY <1>3 DEF Position
  <2>5. Consecutive(conn'[c].out, conn'[c].sent)
    BY <1>4, <1>9 DEF Consecutive
  <2>6. Consecutive(chan'[c].queue, conn'[c].sent + Len(conn'[c].out))
    BY <1>3, <1>6, <1>9, <1>10, <2>2
  <2>7. Position(chan', conn', c) = Position(chan, conn, c) /\ sess' = sess
    BY <1>0, <2>2, <2>3, <2>4
  <2> QED BY <1>2, <1>10, <2>5, <2>6, <2>7, ChannelMoved
<1>15. SyncOf(c)'
  <2>1. ASSUME TxOpen(c)' PROVE z \in h..(h + Len(t))
    <3>1. TxOpen(c)
      BY <1>0, <1>10, <2>1 DEF TxOpen
    <3>2. k \in a..(a + n)
      BY <1>0, <1>2, <1>3, <1>7, <3>1 DEF ConnOK, SyncOf
    <3>3. PICK y : y = Len(t)
      OBVIOUS
    <3>4. y = n - 1 /\ h = a + 1 /\ n > 0 /\ z = IF h > k THEN h ELSE k
      BY <1>6, <1>7, <3>3
    <3>5. z \in h..(h + y)
      BY <1>8, <3>2, <3>4
    <3> QED BY <3>3, <3>5
  <2> QED BY <1>9, <1>10, <2>1 DEF SyncOf
<1>16. ConnOK(c)'
  BY <1>2, <1>4, <1>9, <1>11, <1>13, <1>14, <1>15, TaskOK
<1> QED BY <1>13, <1>16 DEF Kept

\* The queue is empty: the seq it read is the one it has written.
LEMMA SyncDrainedKept ==
  ASSUME ServerInv, ServerInv', StreamInv, NEW c \in Conns, SyncDrained(c), cli' = cli
  PROVE  Kept(c)
<1>0. /\ conn[c].pc = "drain" /\ sess' = sess /\ chan' = chan /\ wire' = wire
      /\ chan[c].queue = <<>>
  BY DEF SyncDrained, At, rosterVars
<1>1. PICK pc : pc = IF TxOpen(c) THEN IF conn[c].kick THEN "kicked" ELSE "syncing"
                     ELSE IF chan[c].lagged THEN "lost" ELSE "replaced"
  OBVIOUS
<1>2. Goto(c, pc)
  BY <1>1 DEF SyncDrained
<1>3. /\ conn[c].pc \in Writing /\ pc \in Writing \ {"attached", "announced", "drain"}
      /\ pc = "syncing" => TxOpen(c)
  BY <1>0, <1>1 DEF Writing, Attending
<1>4. ConnOK(c) /\ PeerOf(c) /\ conn[c] \in Task
  BY <1>3, Numbers
<1>5. conn[c].out = <<>> /\ conn[c].reply = "none" /\ conn[c].sent \in Nat
  BY <1>0, <1>4 DEF PeerOf, Task
<1>6. ASSUME pc = "syncing" PROVE conn[c].mark = conn[c].sent
  <2>1. conn[c].mark \in conn[c].sent..(conn[c].sent + Len(chan[c].queue))
    BY <1>0, <1>3, <1>4, <1>6 DEF ConnOK, SyncOf
  <2>2. Len(chan[c].queue) = 0
    BY <1>0
  <2> QED BY <1>5, <2>1, <2>2
<1> QED BY <1>0, <1>2, <1>3, <1>5, <1>6, GotoKept

\* The sync reply stands where the stream has got to.
LEMMA SyncReplyKept ==
  ASSUME ServerInv, ServerInv', StreamInv, NEW c \in Conns, SyncReply(c), cli' = cli
  PROVE  Kept(c)
<1>0. /\ conn[c].pc = "syncing" /\ sess' = sess /\ chan' = chan
      /\ Write(c, <<F("sync", conn[c].mark)>>) /\ Goto(c, "run")
  BY DEF SyncReply, At, rosterVars
<1>1. conn[c].pc \in Writing /\ "run" \in Writing
  BY <1>0 DEF Writing, Attending
<1>2. ConnOK(c) /\ PeerOf(c) /\ ChannelOf(sess, chan, conn, c) /\ conn[c] \in Task
  BY <1>1, Numbers
<1>3. PICK a : a = conn[c].sent
  OBVIOUS
<1>4. /\ a = conn[c].mark /\ a \in Nat /\ conn[c].reply = "none"
      /\ Write(c, <<F("sync", a)>>) /\ a = conn[c].sent + 0
  BY <1>0, <1>2, <1>3 DEF ConnOK, SyncOf, PeerOf, Task
<1>5. /\ conn'[c].pc = "run" /\ conn'[c].out = conn[c].out /\ conn'[c].sent = conn[c].sent
      /\ conn'[c].reply = conn[c].reply /\ conn'[c].peer = conn[c].peer
  BY <1>0, GotoFacts
<1>6. SameReader(c)
  BY <1>0, <1>5, SameStill
<1>7. a <= Reach(sess', chan[c].owner)
  BY <1>0, <1>1, <1>3, SentReach
<1>8. /\ WireOf(c)' /\ (~conn[c].peer => wire'[c] = <<>>)
      /\ \A s \in Sessions : cli[s].conn = c => SessOK(s)'
  BY <1>1, <1>3, <1>4, <1>5, <1>6, <1>7, WroteOne
<1>9. ChannelOf(sess', chan', conn', c)
  BY <1>0, <1>2, <1>5, ChannelStays
<1>10. SyncOf(c)'
  BY <1>5 DEF SyncOf
<1>11. ConnOK(c)'
  BY <1>2, <1>4, <1>5, <1>6, <1>8, <1>9, <1>10, TaskOK
<1> QED BY <1>8, <1>11 DEF Kept

\* The task unwinds with whatever it held.
LEMMA PanicKept ==
  ASSUME ServerInv, ServerInv', StreamInv, NEW c \in Conns, Panic(c), cli' = cli
  PROVE  Kept(c)
<1>0. /\ conn[c].pc \in Attending \ {"panicked"} /\ sess' = sess /\ wire' = wire
      /\ conn' = [conn EXCEPT ![c].pc = "panicked", ![c].out = <<>>]
      /\ chan' = Dropped(c)
  BY DEF Panic
<1>1. conn[c].pc \in Writing /\ "panicked" \notin Writing /\ conn[c].pc # "off"
  BY <1>0 DEF Writing, Attending
<1>2. ConnOK(c) /\ PeerOf(c) /\ conn[c] \in Task /\ conn \in [Conns -> Task]
  BY <1>1, Numbers
<1>3. /\ conn'[c].pc = "panicked" /\ conn'[c].reply = conn[c].reply
      /\ conn'[c].peer = conn[c].peer
  BY <1>0, <1>2 DEF Task
<1>4. chan'[c].owner = chan[c].owner
  BY <1>0, ServerParts, DroppedChannel
<1>5. SameReader(c)
  BY <1>0, <1>3, <1>4, SameStill
<1>6. /\ WireOf(c)' /\ (~conn[c].peer => wire'[c] = <<>>)
      /\ \A s \in Sessions : cli[s].conn = c => SessOK(s)'
  BY <1>0, <1>1, <1>3, <1>5, Unwritten
<1>7. conn'[c].reply # "none" => wire'[c] = <<>>
  BY <1>0, <1>2, <1>3 DEF PeerOf
<1>8. SyncOf(c)'
  BY <1>3 DEF SyncOf
<1>9. ConnOK(c)'
  BY <1>1, <1>2, <1>3, <1>5, <1>6, <1>7, <1>8, TaskOK
<1> QED BY <1>6, <1>9 DEF Kept

\* The steps that only move a task on.
LEMMA GoesOnKept ==
  ASSUME ServerInv, ServerInv', StreamInv, NEW c \in Conns, cli' = cli,
         \/ ResumeDone(c) \/ ResumeFails(c) \/ SendKickedFails(c) \/ NoMoreEvents(c)
         \/ LagExit(c) \/ ConnFails(c)
  PROVE  Kept(c)
<1>1. /\ conn[c].pc \in {"replying", "run", "drain", "syncing"}
      /\ sess' = sess /\ chan' = chan /\ wire' = wire
      /\ \E pc \in {"run", "resumelost", "kicked", "lost", "replaced"} :
           /\ Goto(c, pc)
           /\ conn[c].reply = "none" \/ conn[c].pc # "replying" \/ pc = "resumelost"
  <2>1. CASE ResumeDone(c)
    BY <2>1 DEF ResumeDone, At, rosterVars
  <2>2. CASE ResumeFails(c)
    BY <2>2 DEF ResumeFails, At, rosterVars
  <2>3. CASE SendKickedFails(c)
    BY <2>3 DEF SendKickedFails, At, rosterVars
  <2>4. CASE NoMoreEvents(c)
    BY <2>4 DEF NoMoreEvents, At, rosterVars
  <2>5. CASE LagExit(c)
    BY <2>5 DEF LagExit, At, rosterVars
  <2>6. CASE ConnFails(c)
    BY <2>6 DEF ConnFails, At, rosterVars
  <2> QED BY <2>1, <2>2, <2>3, <2>4, <2>5, <2>6
<1>2. PICK pc \in {"run", "resumelost", "kicked", "lost", "replaced"} :
        /\ Goto(c, pc)
        /\ conn[c].reply = "none" \/ conn[c].pc # "replying" \/ pc = "resumelost"
  BY <1>1
<1>3. /\ conn[c].pc \in Writing /\ pc \in Writing \ {"attached", "announced", "drain"}
      /\ pc # "syncing"
  BY <1>1 DEF Writing, Attending
<1>4. conn[c].reply = "none" \/ (conn[c].pc = "replying" /\ pc = "resumelost")
  <2>1. PeerOf(c)
    BY <1>3, Numbers
  <2> QED BY <1>1, <1>2, <2>1 DEF PeerOf
<1> QED BY <1>1, <1>2, <1>3, <1>4, GotoKept

\* Every step of a task that goes on keeps the promise.
LEMMA WorksOK ==
  ASSUME ServerInv, ServerInv', StreamInv, NEW c \in Conns, Works(c), cli' = cli
  PROVE  StreamInv'
<1>1. Apart(c) /\ Others(c)
  BY WorksApart
<1>2. Kept(c)
  BY LoginReplyKept, ResumeReplyKept, ResumeReplayKept, TakeKept, SendEventsKept,
     SyncStartKept, SyncDrainKept, SyncDrainedKept, SyncReplyKept, PanicKept, GoesOnKept
  DEF Works
<1> QED BY <1>1, <1>2, OneTask DEF Kept

-----------------------------------------------------------------------------
(* Steps that change more than one task's own affairs.                     *)

\* Nobody's task moves.
LEMMA AllStand ==
  ASSUME ServerInv, ServerInv', StreamInv, \A s \in Sessions : Grows(s),
         \A d \in Conns : Bystands(d), conn' = conn, wire' = wire, cli' = cli
  PROVE  StreamInv'
<1>1. ASSUME NEW d \in Conns PROVE ConnOK(d)'
  <2>1. chan[d].owner \in Sessions
    BY ServerParts DEF Channel
  <2> QED BY <2>1, BystanderKeeps DEF StreamInv
<1>2. ASSUME NEW s \in Sessions PROVE SessOK(s)'
  <2>1. cli[s].conn # NoConn => cli[s].conn \in Conns
    BY DEF StreamInv, Client
  <2> QED BY <2>1, ReaderKeeps DEF StreamInv, Bystands
<1>3. FreshInv'
  BY DEF StreamInv, FreshInv, Grows
<1> QED BY <1>1, <1>2, <1>3 DEF StreamInv

\* The rest of the server.
LEMMA ServerMoves ==
  ASSUME ServerInv, ServerStep
  PROVE  /\ Moves(chan) /\ Rests /\ conn' = conn /\ wire' = wire
<1>1. ASSUME NEW s \in Sessions, NEW over, Publish(s, over)
      PROVE  /\ Moves(chan) /\ Rests /\ conn' = conn /\ wire' = wire
  BY <1>1, SendToMoves DEF Publish, connVars, Rests
<1>2. ASSUME NEW s \in Sessions, NEW over, Kick(s, over)
      PROVE  /\ Moves(chan) /\ Rests /\ conn' = conn /\ wire' = wire
  <2>1. {s} \in SUBSET Sessions /\ TRUE \in BOOLEAN
    OBVIOUS
  <2> QED BY <1>2, <2>1, KickAllMoves DEF Kick, connVars, Rests
<1>3. ASSUME NEW over, EndRevoked(over)
      PROVE  /\ Moves(chan) /\ Rests /\ conn' = conn /\ wire' = wire
  <2>1. Here(sess) \cap revoked \in SUBSET Sessions /\ FALSE \in BOOLEAN
    BY DEF Here
  <2> QED BY <1>3, <2>1, KickAllMoves DEF EndRevoked, Rests
<1>4. ASSUME NEW t, NEW over, Sweep(t, over)
      PROVE  /\ Moves(chan) /\ Rests /\ conn' = conn /\ wire' = wire
  <2>1. chan \in [Conns -> Channel]
    BY ServerParts
  <2> QED BY <1>4, <2>1, EndSessionsMoves DEF Sweep, SweepDetached, connVars, Rests
<1> QED BY <1>1, <1>2, <1>3, <1>4 DEF ServerStep

LEMMA ServerStepOK ==
  ASSUME ServerInv, ServerInv', StreamInv, ServerStep, cli' = cli
  PROVE  StreamInv'
  BY ServerMoves, AllStand DEF Moves

\* Nothing in the roster and no task changes.
LEMMA IdleOK ==
  ASSUME ServerInv, ServerInv', StreamInv, sess' = sess, chan' = chan, clock' = clock,
         conn' = conn, wire' = wire, cli' = cli
  PROVE  StreamInv' /\ Rests /\ \A t \in Sessions : Grows(t)
<1>1. (\A s \in Sessions : Grows(s)) /\ (\A d \in Conns : Bystands(d))
  BY ServerParts, StillGrows
<1>2. Rests
  BY DEF Rests, Lies
<1> QED BY <1>1, <1>2, AllStand

\* The login is announced: its own connection stands by as well.
LEMMA LoginAnnounceOK ==
  ASSUME ServerInv, ServerInv', StreamInv, NEW c \in Conns, NEW over,
         LoginAnnounce(c, over), cli' = cli
  PROVE  StreamInv' /\ Rests /\ \A t \in Sessions : Grows(t)
<1>0. /\ conn[c].pc = "attached" /\ Announce(chan[c].owner, over) /\ Goto(c, "announced")
      /\ clock' = clock /\ wire' = wire /\ chan[c].owner \in Sessions
  BY ServerParts DEF LoginAnnounce, At, Owner, Channel
<1>1. Moves(chan) /\ Rests
  BY <1>0, AnnounceMoves DEF Rests
<1>2. Bystands(c) /\ Apart(c) /\ Others(c) /\ Grows(chan[c].owner)
  BY <1>0, <1>1, GotoOthers DEF Moves, Bystands, Apart, Others
<1>3. /\ conn'[c].pc = "announced" /\ conn'[c].out = conn[c].out /\ conn'[c].sent = conn[c].sent
      /\ conn'[c].reply = conn[c].reply /\ conn'[c].peer = conn[c].peer
  BY <1>0, GotoFacts
<1>4. SameReader(c)
  BY <1>2, <1>3 DEF SameReader, Bystands
<1>5. conn[c].pc \in Writing /\ "announced" \in Writing
  BY <1>0 DEF Writing, Attending
<1>6. ConnOK(c) /\ PeerOf(c) /\ ChannelOf(sess, chan, conn, c)
  BY <1>5, Numbers
<1>7. /\ WireOf(c)' /\ (~conn[c].peer => wire'[c] = <<>>)
      /\ \A s \in Sessions : cli[s].conn = c => SessOK(s)'
  BY <1>0, <1>3, <1>4, <1>5, Unwritten
<1>8. ChannelOf(sess', chan', conn', c)
  <2>1. ChannelOf(sess', chan', conn, c)
    BY <1>2, <1>5, <1>6 DEF Bystands
  <2> QED BY <1>3, <2>1 DEF ChannelOf, Position
<1>9. conn[c].out = <<>> /\ conn[c].sent = 0 /\ wire[c] = <<>> /\ conn[c].reply = "none"
  BY <1>0, <1>6 DEF PeerOf
<1>10. PeerOf(c)'
  <2>1. conn'[c].peer => cli'[chan'[c].owner].conn = c
    BY <1>3, <1>4, <1>6 DEF SameReader, PeerOf
  <2> QED BY <1>0, <1>3, <1>9, <2>1 DEF PeerOf
<1>11. SyncOf(c)'
  BY <1>3 DEF SyncOf
<1>12. ConnOK(c)'
  BY <1>7, <1>8, <1>10, <1>11 DEF ConnOK
<1> QED BY <1>1, <1>2, <1>7, <1>12, OneTask DEF Moves

\* A client is told to resync only when it lacks an event.
LEMMA ResyncLacks ==
  ASSUME ServerInv, NEW s \in Sessions, NEW last \in Nat, last <= Reach(sess, s),
         ResumeOutcome(s, last) = "resync"
  PROVE  last < sess[s].next - 1
<1>1. sess[s] \in Session /\ BufferOf(sess, s) /\ sess[s].phase = "here"
  BY ServerParts DEF BufferInv, ResumeOutcome
<1>2. sess[s].next \in Nat /\ sess[s].start \in Nat
      /\ sess[s].sink \in {"live", "lagged", "buffering"}
  <2>1. sess[s].sink # "none"
    BY <1>1, ServerParts DEF HolderInv, HolderOf, Here
  <2> QED BY <1>1, <2>1 DEF Session, SinkKinds
<1>3. CASE sess[s].sink = "lagged" \/ (sess[s].sink = "buffering" /\ sess[s].broken)
  BY <1>1, <1>2, <1>3 DEF Reach
<1>4. CASE sess[s].sink = "live"
  <2>1. Reach(sess, s) = sess[s].next - 1 /\ last + 1 # sess[s].next
    BY <1>1, <1>4 DEF Reach, ResumeOutcome
  <2> QED BY <1>2, <2>1
<1>5. CASE sess[s].sink = "buffering" /\ ~sess[s].broken
  <2>1. /\ Reach(sess, s) = sess[s].start - 1 /\ sess[s].start \in 1..sess[s].next
        /\ ~(last + 1 >= sess[s].start /\ last + 1 <= sess[s].next)
    BY <1>1, <1>5 DEF Reach, ResumeOutcome, BufferOf, Buffering, Here
  <2> QED BY <1>2, <2>1
<1> QED BY <1>2, <1>3, <1>4, <1>5

\* The session changes hands.
LEMMA ResumeTakesOK ==
  ASSUME ServerInv, ServerInv', StreamInv, NEW c \in Conns, NEW shown, NEW over,
         ResumeTakes(c, shown, over), cli' = cli
  PROVE  StreamInv' /\ Rests /\ \A t \in Sessions : Grows(t)
<1> DEFINE s == chan[c].owner
           last == conn[c].last
           outcome == ResumeOutcome(s, last)
           k == [conn[c] EXCEPT
                   !.pc = "replying", !.detach = TRUE,
                   !.reply = IF outcome = "replayed" THEN "ok" ELSE "resync",
                   !.out = IF outcome = "replayed" THEN ReplayOf(s, last) ELSE <<>>,
                   !.sent = IF outcome = "replayed" THEN last ELSE sess[s].next - 1]
<1>0. /\ s \in Sessions /\ conn \in [Conns -> Task] /\ conn[c] \in Task /\ last \in Nat
      /\ sess \in [Sessions -> Session] /\ sess' \in [Sessions -> Session]
      /\ conn' \in [Conns -> Task]
  <2>1. chan \in [Conns -> Channel] /\ conn \in [Conns -> Task] /\ sess \in [Sessions -> Session]
    BY ServerParts
  <2>2. conn' \in [Conns -> Task] /\ sess' \in [Sessions -> Session]
    BY DEF ServerInv, RosterInv, ConnTypeOK
  <2>3. s \in Sessions
    BY <2>1 DEF Channel
  <2>4. conn[c] \in Task /\ last \in Nat
    BY <2>1 DEF Task
  <2> HIDE DEF s, last
  <2> QED BY <2>1, <2>2, <2>3, <2>4
<1>1. /\ conn[c].pc = "asked" /\ outcome # "gone" /\ Resume(s, c, last, shown, over)
      /\ clock' = clock /\ wire' = wire
  BY DEF ResumeTakes, Owner, At
<1>2. conn' = [conn EXCEPT ![c] = k]
  <2>1. conn' = [conn EXCEPT
           ![c].pc = "replying", ![c].detach = TRUE,
           ![c].reply = IF outcome = "replayed" THEN "ok" ELSE "resync",
           ![c].out = IF outcome = "replayed" THEN ReplayOf(s, last) ELSE <<>>,
           ![c].sent = IF outcome = "replayed" THEN last ELSE sess[s].next - 1]
    BY DEF ResumeTakes, Owner
  <2>2. PICK r, o, a : /\ r = IF outcome = "replayed" THEN "ok" ELSE "resync"
                       /\ o = IF outcome = "replayed" THEN ReplayOf(s, last) ELSE <<>>
                       /\ a = IF outcome = "replayed" THEN last ELSE sess[s].next - 1
    <3> HIDE DEF outcome, s, last
    <3> QED OBVIOUS
  <2> HIDE DEF outcome, s, last
  <2>3. conn' = [conn EXCEPT ![c].pc = "replying", ![c].detach = TRUE, ![c].reply = r,
                             ![c].out = o, ![c].sent = a]
    BY <2>1, <2>2
  <2>4. conn' = [conn EXCEPT ![c] = [conn[c] EXCEPT !.pc = "replying", !.detach = TRUE,
                                       !.reply = r, !.out = o, !.sent = a]]
    BY <1>0, <2>3
  <2> QED BY <2>2, <2>4
<1>3. /\ conn'[c].pc = "replying" /\ conn'[c].peer = conn[c].peer
      /\ conn'[c].reply = IF outcome = "replayed" THEN "ok" ELSE "resync"
      /\ conn'[c].out = IF outcome = "replayed" THEN ReplayOf(s, last) ELSE <<>>
      /\ conn'[c].sent = IF outcome = "replayed" THEN last ELSE sess[s].next - 1
  <2>1. conn'[c] = k
    BY <1>0, <1>2
  <2>2. /\ k.pc = "replying" /\ k.peer = conn[c].peer
        /\ k.reply = IF outcome = "replayed" THEN "ok" ELSE "resync"
        /\ k.out = IF outcome = "replayed" THEN ReplayOf(s, last) ELSE <<>>
        /\ k.sent = IF outcome = "replayed" THEN last ELSE sess[s].next - 1
    <3> HIDE DEF outcome, s, last
    <3> QED BY <1>0 DEF Task
  <2> HIDE DEF k
  <2> QED BY <2>1, <2>2
<1>4. \A d \in Conns \ {c} : conn'[d] = conn[d]
  <2> HIDE DEF k
  <2> QED BY <1>0, <1>2
<1>5. /\ \A t \in Sessions : Grows(t) /\ Lies(sess', t)
      /\ \A d \in Conns \ {c} : Bystands(d)
      /\ ChannelOf(sess', chan', conn', c) /\ chan'[c].owner = s
  <2>1. PICK o, z : o = s /\ z = last
    <3> HIDE DEF s, last
    <3> QED OBVIOUS
  <2>2. /\ o \in Sessions /\ z \in Nat /\ ResumeOutcome(o, z) # "gone"
        /\ Resume(o, c, z, shown, over)
        /\ conn'[c].out = IF ResumeOutcome(o, z) = "replayed" THEN ReplayOf(o, z) ELSE <<>>
        /\ conn'[c].sent = IF ResumeOutcome(o, z) = "replayed" THEN z ELSE sess[o].next - 1
    BY <1>0, <1>1, <1>3, <2>1
  <2>3. /\ \A t \in Sessions : Grows(t) /\ Lies(sess', t)
        /\ \A d \in Conns \ {c} : Bystands(d)
        /\ ChannelOf(sess', chan', conn', c) /\ chan'[c].owner = o
    BY <1>0, <2>2, ResumeMoves
  <2> QED BY <2>1, <2>3
<1> HIDE DEF k
<1>6. Rests /\ Apart(c) /\ Others(c)
  BY <1>1, <1>4, <1>5 DEF Rests, Apart, Others
<1>7. ConnOK(c) /\ PeerOf(c)
  BY DEF StreamInv, ConnOK
<1>8. /\ wire[c] = <<>> /\ wire'[c] = <<>>
      /\ conn[c].peer => last = cli[s].last
  BY <1>1, <1>7 DEF PeerOf
<1>9. SameReader(c)
  BY <1>0, <1>3, <1>5 DEF SameReader
<1>10. ConnOK(c)'
  <2>1. WireOf(c)'
    BY <1>8 DEF WireOf, Follows, Placed
  <2>2. SyncOf(c)'
    BY <1>3 DEF SyncOf
  <2> QED BY <1>3, <1>5, <1>7, <1>8, <1>9, <2>1, <2>2, TaskOK
<1>11. ASSUME NEW t \in Sessions, cli[t].conn = c PROVE SessOK(t)'
  <2>1. t = s /\ conn[c].peer /\ c # NoConn /\ cli'[t] = cli[t] /\ cli[t].last \in Nat
    BY <1>11, ReaderIs, SessionsAssumption DEF StreamInv, Client
  <2>2. ReaderOf(t)'
    BY <1>3, <1>5, <1>11, <2>1 DEF ReaderOf
  <2>3. last = cli[t].last /\ last <= Reach(sess, s)
    BY <1>8, <2>1 DEF StreamInv, SessOK, ClientOf
  <2>4. PICK nx, nx1, R, R1 : /\ nx = sess[s].next /\ nx1 = sess'[s].next
                              /\ R = Reach(sess, s) /\ R1 = Reach(sess', s)
    <3> HIDE DEF s
    <3> QED OBVIOUS
  <2>5. nx \in Nat /\ nx1 \in Nat /\ R \in Int /\ R1 \in Int /\ nx1 >= nx /\ R1 >= R /\ R <= nx - 1
    <3>1. BufferOf(sess, s) /\ Grows(s)
      BY <1>0, <1>5, ServerParts DEF BufferInv
    <3> QED BY <1>0, <2>4, <3>1, ReachType, ReachBound DEF Grows
  <2>6. cli[t].last <= R1 /\ cli[t].last <= nx - 1
    BY <2>1, <2>3, <2>4, <2>5
  <2>7. conn'[c].reply = "resync" => cli[t].last < nx - 1
    <3>1. conn'[c].reply = "resync" => outcome = "resync"
      BY <1>1, <1>3 DEF ResumeOutcome
    <3>2. outcome = "resync" => last < nx - 1
      BY <1>0, <2>3, <2>4, ResyncLacks
    <3> QED BY <2>3, <3>1, <3>2
  <2>8. conn'[c].reply = "ok" => conn'[c].sent = cli[t].last
    BY <1>3, <2>3
  <2>9. conn'[c].reply = "resync" => conn'[c].sent = nx - 1
    BY <1>3, <2>4
  <2>10. conn'[c].reply = "ok" \/ conn'[c].reply = "resync"
    BY <1>3
  <2>11. Meets(cli[t], <<>>, conn'[c])
    <3>1. conn'[c].sent \in Nat
      BY <1>0 DEF Task
    <3>2. IF cli[t].stale \/ conn'[c].reply = "resync" THEN conn'[c].sent >= cli[t].last
          ELSE conn'[c].sent = cli[t].last
      BY <2>1, <2>5, <2>6, <2>8, <2>9, <2>10, <3>1
    <3> QED BY <2>1, <3>1, <3>2 DEF Meets
  <2>12. Resyncs(<<>>, conn'[c]) => cli[t].last < nx1 - 1
    BY <2>1, <2>5, <2>7 DEF Resyncs
  <2>13. ClientOf(t)'
    BY <1>8, <1>11, <2>1, <2>4, <2>6, <2>11, <2>12 DEF ClientOf
  <2> QED BY <2>2, <2>13 DEF SessOK
<1> QED BY <1>5, <1>6, <1>10, <1>11, OneTask

-----------------------------------------------------------------------------
(* The client.                                                             *)

\* Whose connection a peer reads.
LEMMA PeerReads ==
  ASSUME StreamInv, NEW d \in Conns
  PROVE  PeerOf(d) /\ (conn[d].peer => cli[chan[d].owner].conn = d)
<1>1. PeerOf(d)
  BY DEF StreamInv, ConnOK
<1> QED BY <1>1 DEF PeerOf

\* A connection nobody has used yet.
LEMMA UnusedConn ==
  ASSUME StreamInv, NEW c \in Conns, conn[c].pc = "unused"
  PROVE  /\ conn[c] = NewTask /\ wire[c] = <<>>
         /\ \A s \in Sessions : cli[s].conn # c
<1>1. conn[c] = NewTask /\ PeerOf(c)
  <2>1. PeerOf(c)
    BY PeerReads
  <2> QED BY <2>1 DEF PeerOf
<1>2. ~conn[c].peer
  BY <1>1 DEF NewTask
<1>3. wire[c] = <<>>
  BY <1>1, <1>2 DEF PeerOf
<1> QED BY <1>1, <1>3, ReaderIs

\* A login: the session and its connection start afresh.
LEMMA ClientLoginOK ==
  ASSUME ServerInv, ServerInv', StreamInv, NEW c \in Conns, NEW s \in Sessions,
         ClientLogin(c, s)
  PROVE  /\ StreamInv' /\ Rests /\ \A t \in Sessions : Grows(t)
         /\ \A t \in Sessions : cli'[t].last = cli[t].last /\ cli'[t].stale = cli[t].stale
<1>0. /\ conn[c].pc = "unused" /\ Attach(s, c) /\ clock' = clock /\ wire' = wire
      /\ conn' = [conn EXCEPT ![c].pc = "attached", ![c].peer = TRUE]
      /\ cli' = [cli EXCEPT ![s].conn = c]
      /\ sess[s].phase = "none"
  BY DEF ClientLogin, LoginAttach, At, Attach
<1>1. /\ conn \in [Conns -> Task] /\ conn' \in [Conns -> Task] /\ cli \in [Sessions -> Client]
      /\ sess \in [Sessions -> Session] /\ sess' \in [Sessions -> Session]
  BY ServerParts DEF StreamInv, ServerInv, RosterInv, ConnTypeOK
<1>2. conn[c] = NewTask /\ wire[c] = <<>> /\ \A t \in Sessions : cli[t].conn # c
  BY <1>0, UnusedConn
<1>3. sess[s].next = 1 /\ cli[s].conn = NoConn /\ FreshInv
  BY <1>0 DEF StreamInv, FreshInv
<1>4. /\ conn'[c].pc = "attached" /\ conn'[c].peer /\ conn'[c].out = <<>>
      /\ conn'[c].sent = 0 /\ conn'[c].reply = "none"
      /\ \A d \in Conns \ {c} : conn'[d] = conn[d]
  BY <1>0, <1>1, <1>2 DEF NewTask
<1>5. /\ \A t \in Sessions : Grows(t) /\ Lies(sess', t)
      /\ \A d \in Conns \ {c} : Bystands(d)
      /\ ChannelOf(sess', chan', conn', c) /\ chan'[c].owner = s
      /\ sess'[s].phase = "here"
  BY <1>0, <1>1, <1>3, <1>4, AttachMoves
<1>6. /\ cli' \in [Sessions -> Client] /\ \A t \in Sessions \ {s} : cli'[t] = cli[t]
      /\ cli'[s].conn = c /\ cli'[s].last = cli[s].last /\ cli'[s].stale = cli[s].stale
  <2>1. [cli[s] EXCEPT !.conn = c] \in Client
    BY <1>1 DEF Client
  <2>2. cli' = [cli EXCEPT ![s] = [cli[s] EXCEPT !.conn = c]]
    BY <1>0, <1>1
  <2> QED BY <1>1, <2>1, <2>2 DEF Client
<1>7. ASSUME NEW d \in Conns PROVE ConnOK(d)'
  <2>1. CASE d = c
    <3>1. PeerOf(c)'
      BY <1>0, <1>2, <1>4, <1>5, <1>6 DEF PeerOf
    <3>2. WireOf(c)'
      BY <1>0, <1>2 DEF WireOf, Follows, Placed
    <3>3. SyncOf(c)'
      BY <1>4 DEF SyncOf
    <3> QED BY <1>5, <2>1, <3>1, <3>2, <3>3 DEF ConnOK
  <2>2. CASE d # c
    <3>1. chan[d].owner \in Sessions
      BY ServerParts DEF Channel
    <3>2. conn[d].peer => cli'[chan[d].owner] = cli[chan[d].owner]
      <4>1. conn[d].peer => cli[chan[d].owner].conn = d
        BY PeerReads
      <4> QED BY <1>3, <1>6, <3>1, <4>1, SessionsAssumption
    <3> QED BY <1>0, <1>4, <1>5, <2>2, <3>1, <3>2, BystanderKeeps DEF StreamInv
  <2> QED BY <2>1, <2>2
<1>8. ASSUME NEW t \in Sessions PROVE SessOK(t)'
  <2>1. CASE t # s
    <3>1. cli[t].conn # NoConn => cli[t].conn \in Conns \ {c}
      BY <1>1, <1>2 DEF Client
    <3> QED BY <1>0, <1>1, <1>4, <1>5, <1>6, <2>1, <3>1, ReaderKeeps DEF StreamInv, Bystands
  <2>2. CASE t = s
    <3>1. ReaderOf(s)'
      BY <1>4, <1>5, <1>6 DEF ReaderOf
    <3>2. cli[s].last = 0 /\ Reach(sess', s) \in Int /\ Reach(sess', s) >= 0
      <4>1. cli[s].last \in Nat /\ cli[s].last <= Reach(sess, s)
        BY <1>1 DEF StreamInv, SessOK, ClientOf, Client
      <4>2. Reach(sess, s) = 0
        BY <1>0, <1>3 DEF Reach
      <4>3. Reach(sess', s) \in Int
        BY <1>1, ReachType
      <4>4. Reach(sess', s) >= Reach(sess, s)
        BY <1>5 DEF Grows
      <4> QED BY <4>1, <4>2, <4>3, <4>4
    <3>3. Meets(cli'[s], <<>>, conn'[c]) /\ ~Resyncs(<<>>, conn'[c])
      BY <1>4, <1>6, <3>2 DEF Meets, Resyncs
    <3>4. ClientOf(s)'
      BY <1>0, <1>2, <1>6, <3>2, <3>3 DEF ClientOf
    <3> QED BY <2>2, <3>1, <3>4 DEF SessOK
  <2> QED BY <2>1, <2>2
<1>9. FreshInv'
  BY <1>3, <1>5, <1>6 DEF FreshInv, Grows
<1>10. Rests
  BY <1>0, <1>5 DEF Rests
<1> QED BY <1>5, <1>6, <1>7, <1>8, <1>9, <1>10 DEF StreamInv

\* A resume: the old connection loses its reader, the new one gains it.
LEMMA ClientResumeOK ==
  ASSUME ServerInv, ServerInv', StreamInv, NEW c \in Conns, NEW s \in Sessions,
         ClientResume(c, s)
  PROVE  /\ StreamInv' /\ Rests /\ \A t \in Sessions : Grows(t)
         /\ \A t \in Sessions : cli'[t].last = cli[t].last /\ cli'[t].stale = cli[t].stale
<1>0. /\ conn[c].pc = "unused" /\ cli[s].token /\ sess' = sess /\ clock' = clock
      /\ cli' = [cli EXCEPT ![s].conn = c]
      /\ conn' = [d \in Conns |->
           IF d = c THEN [conn[c] EXCEPT !.pc = "asked", !.peer = TRUE,
                                         !.last = cli[s].last]
           ELSE IF d = cli[s].conn THEN [conn[d] EXCEPT !.peer = FALSE]
           ELSE conn[d]]
      /\ wire' = [d \in Conns |-> IF d = cli[s].conn THEN <<>> ELSE wire[d]]
      /\ chan' = [chan EXCEPT ![c].owner = s]
  BY DEF ClientResume, At
<1>1. /\ conn \in [Conns -> Task] /\ cli \in [Sessions -> Client]
      /\ sess \in [Sessions -> Session] /\ chan \in [Conns -> Channel]
  BY ServerParts DEF StreamInv
<1>2. conn[c] = NewTask /\ wire[c] = <<>> /\ \A t \in Sessions : cli[t].conn # c
  BY <1>0, UnusedConn
<1>3. PICK old : old = cli[s].conn
  OBVIOUS
<1>4. old # c /\ (old # NoConn => old \in Conns /\ chan[old].owner = s)
  BY <1>2, <1>3 DEF StreamInv, SessOK, ReaderOf
<1>5. /\ conn'[c] = [NewTask EXCEPT !.pc = "asked", !.peer = TRUE, !.last = cli[s].last]
      /\ wire'[c] = <<>> /\ chan'[c].owner = s
      /\ \A d \in Conns \ {c} : chan'[d] = chan[d]
      /\ \A d \in Conns \ {c, old} : conn'[d] = conn[d] /\ wire'[d] = wire[d]
  BY <1>0, <1>1, <1>2, <1>3, <1>4 DEF Channel
<1>6. old \in Conns => conn'[old] = [conn[old] EXCEPT !.peer = FALSE] /\ wire'[old] = <<>>
  BY <1>0, <1>3, <1>4
<1>7. /\ conn'[c].pc = "asked" /\ conn'[c].peer /\ conn'[c].last = cli[s].last
      /\ conn'[c].reply = "none" /\ "asked" \notin Writing
  BY <1>5 DEF NewTask, Writing, Attending
<1>8. /\ cli' \in [Sessions -> Client] /\ \A t \in Sessions \ {s} : cli'[t] = cli[t]
      /\ cli'[s].conn = c /\ cli'[s].last = cli[s].last /\ cli'[s].stale = cli[s].stale
  <2>1. [cli[s] EXCEPT !.conn = c] \in Client
    BY <1>1 DEF Client
  <2>2. cli' = [cli EXCEPT ![s] = [cli[s] EXCEPT !.conn = c]]
    BY <1>0, <1>1
  <2> QED BY <1>1, <2>1, <2>2 DEF Client
<1>9. (\A t \in Sessions : Grows(t)) /\ (\A d \in Conns \ {c} : Bystands(d))
  BY <1>0, <1>1, <1>5, StillGrows
<1>10. ASSUME NEW d \in Conns PROVE ConnOK(d)'
  <2>1. CASE d = c
    <3>1. PeerOf(c)'
      <4>1. conn'[c] = [NewTask EXCEPT !.pc = "asked", !.peer = conn'[c].peer,
                                       !.last = conn'[c].last]
        BY <1>5, <1>7 DEF NewTask
      <4> QED BY <1>5, <1>7, <1>8, <4>1 DEF PeerOf
    <3>2. WireOf(c)'
      BY <1>5 DEF WireOf, Follows, Placed
    <3>3. SyncOf(c)'
      BY <1>7 DEF SyncOf
    <3> QED BY <1>7, <2>1, <3>1, <3>2, <3>3 DEF ConnOK
  <2>2. CASE d = old
    <3>0. ConnOK(d) /\ PeerOf(d) /\ Bystands(d) /\ conn[d] \in Task
      BY <1>1, <1>4, <1>9, <2>2 DEF StreamInv, ConnOK
    <3>1. conn'[d] = [conn[d] EXCEPT !.peer = FALSE] /\ wire'[d] = <<>> /\ chan'[d] = chan[d]
      BY <1>4, <1>5, <1>6, <2>2
    <3>2. /\ conn'[d].pc = conn[d].pc /\ conn'[d].out = conn[d].out /\ ~conn'[d].peer
          /\ conn'[d].sent = conn[d].sent /\ conn'[d].reply = conn[d].reply
          /\ conn'[d].mark = conn[d].mark /\ conn'[d].last = conn[d].last
      BY <3>0, <3>1 DEF Task
    <3>3. conn[d].pc # "unused"
      BY <1>3, <2>2, ReaderIs
    <3>4. PeerOf(d)'
      <4>1. ASSUME conn[d].pc = "asked"
            PROVE  conn'[d] = [NewTask EXCEPT !.pc = "asked", !.peer = conn'[d].peer,
                                              !.last = conn'[d].last]
        <5>1. conn[d] = [NewTask EXCEPT !.pc = "asked", !.peer = conn[d].peer,
                                        !.last = conn[d].last]
          BY <3>0, <4>1 DEF PeerOf
        <5>2. conn'[d] = [NewTask EXCEPT !.pc = "asked", !.peer = FALSE, !.last = conn[d].last]
          BY <3>1, <5>1 DEF NewTask
        <5>3. conn'[d].peer = FALSE
          BY <5>2 DEF NewTask
        <5> QED BY <3>2, <5>2, <5>3
      <4>2. conn[d].pc \in {"drain", "syncing"} => conn[d].out = <<>>
        BY <3>0 DEF PeerOf
      <4>3. conn[d].pc \in {"attached", "announced"} => conn[d].out = <<>> /\ conn[d].sent = 0
        BY <3>0 DEF PeerOf
      <4>4. conn[d].reply # "none" => conn[d].pc \in {"replying", "resumelost", "panicked"}
        BY <3>0 DEF PeerOf
      <4> QED BY <3>1, <3>2, <3>3, <4>1, <4>2, <4>3, <4>4 DEF PeerOf
    <3>5. WireOf(d)'
      BY <3>1 DEF WireOf, Follows, Placed
    <3>6. SyncOf(d)'
      <4>1. TxOpen(d)' => TxOpen(d)
        BY <3>0 DEF Bystands
      <4> QED BY <3>0, <3>1, <3>2, <4>1 DEF SyncOf, ConnOK
    <3>7. conn'[d].pc \in Writing => ChannelOf(sess', chan', conn', d)
      BY <1>0, <3>0, <3>1, <3>2 DEF ConnOK, ChannelOf, Position, IsLive
    <3> QED BY <3>4, <3>5, <3>6, <3>7 DEF ConnOK
  <2>3. CASE d # c /\ d # old
    <3>1. chan[d].owner \in Sessions
      BY ServerParts DEF Channel
    <3>2. conn[d].peer => cli'[chan[d].owner] = cli[chan[d].owner]
      <4>1. conn[d].peer => cli[chan[d].owner].conn = d
        BY PeerReads
      <4> QED BY <1>3, <1>8, <2>3, <3>1, <4>1
    <3> QED BY <1>5, <1>9, <2>3, <3>1, <3>2, BystanderKeeps DEF StreamInv
  <2> QED BY <2>1, <2>2, <2>3
<1>11. ASSUME NEW t \in Sessions PROVE SessOK(t)'
  <2>1. CASE t # s
    <3>1. cli[t].conn # NoConn => cli[t].conn \in Conns \ {c, old}
      <4>1. cli[t].conn # NoConn => cli[t].conn \in Conns /\ chan[cli[t].conn].owner = t
        BY DEF StreamInv, SessOK, ReaderOf
      <4>2. cli[t].conn # NoConn => cli[t].conn # old
        BY <1>4, <2>1, <4>1
      <4> QED BY <1>2, <4>1, <4>2
    <3>2. cli[t].conn # NoConn => /\ conn'[cli[t].conn] = conn[cli[t].conn]
                                  /\ wire'[cli[t].conn] = wire[cli[t].conn]
                                  /\ chan'[cli[t].conn].owner = chan[cli[t].conn].owner
      BY <1>5, <3>1
    <3> QED BY <1>1, <1>8, <1>9, <2>1, <3>2, ReaderKeeps DEF StreamInv
  <2>2. CASE t = s
    <3>1. ReaderOf(s)'
      BY <1>7, <1>5, <1>8 DEF ReaderOf
    <3>2. cli'[s].last <= Reach(sess', s)
      BY <1>0, <1>8 DEF StreamInv, SessOK, ClientOf
    <3>3. Meets(cli'[s], <<>>, conn'[c]) /\ ~Resyncs(<<>>, conn'[c])
      BY <1>7 DEF Meets, Resyncs
    <3>4. ClientOf(s)'
      BY <1>5, <1>8, <3>2, <3>3 DEF ClientOf
    <3> QED BY <2>2, <3>1, <3>4 DEF SessOK
  <2> QED BY <2>1, <2>2
<1>12. FreshInv'
  BY <1>0, <1>8 DEF StreamInv, FreshInv
<1>13. Rests
  BY <1>0 DEF Rests, Lies
<1>14. \A t \in Sessions : Grows(t)
  BY <1>0, ServerParts, StillGrows
<1> QED BY <1>8, <1>10, <1>11, <1>12, <1>13, <1>14 DEF StreamInv

\* What a client reads, against what it has.
Fits(z, f) ==
  LET event == IF f.kind = "event" THEN 1 ELSE 0
  IN  f.kind \notin {"expired", "refused"} =>
        IF z.stale \/ f.kind = "resync" THEN f.at >= z.last + event
                                        ELSE f.at = z.last + event

LEMMA FrameRead ==
  ASSUME ServerInv, StreamInv, NEW s \in Sessions, ClientReads(s)
  PROVE  \E c \in Conns, f \in Frame :
           /\ c = cli[s].conn /\ wire[c] # <<>> /\ f = wire[c][1]
           /\ chan[c].owner = s /\ conn[c].peer /\ conn[c].reply = "none"
           /\ Fits(cli[s], f) /\ f.at <= Reach(sess, s)
           /\ f.kind = "resync" => cli[s].last < sess[s].next - 1
           /\ wire' = [wire EXCEPT ![c] = Tail(@)]
           /\ cli' \in [Sessions -> Client]
           /\ \A t \in Sessions \ {s} : cli'[t] = cli[t]
           /\ cli'[s].conn = c
           /\ cli'[s].last = IF f.kind \in {"event", "sync"} THEN f.at ELSE cli[s].last
           /\ cli'[s].stale <=> (f.kind = "resync" \/ (cli[s].stale /\ f.kind # "sync"))
<1> DEFINE c == cli[s].conn
           f == Head(wire[c])
<1>0. /\ wire \in [Conns -> Seq(Frame)] /\ cli \in [Sessions -> Client] /\ cli[s] \in Client
  BY ServerParts DEF StreamInv
<1>1. /\ c # NoConn /\ wire[c] # <<>>
      /\ wire' = [wire EXCEPT ![c] = Tail(@)]
      /\ cli' = [cli EXCEPT
           ![s].token = (@ \/ f.kind = "hello") /\ f.kind # "expired",
           ![s].last = IF f.kind \in {"event", "sync"} THEN f.at ELSE @,
           ![s].stale = CASE f.kind = "resync" -> TRUE
                          [] f.kind = "sync" -> FALSE
                          [] OTHER -> @]
  BY DEF ClientReads
<1>2. c \in Conns /\ chan[c].owner = s /\ conn[c].peer
  BY <1>1 DEF StreamInv, SessOK, ReaderOf
<1>3. wire[c] \in Seq(Frame) /\ f = wire[c][1] /\ f \in Frame /\ 1 \in 1..Len(wire[c])
  BY <1>0, <1>1, <1>2
<1>4. conn[c].reply = "none"
  <2>1. PeerOf(c)
    BY <1>2, PeerReads
  <2> QED BY <1>1, <2>1 DEF PeerOf
<1>5. WireOf(c) /\ ClientOf(s)
  BY <1>2 DEF StreamInv, ConnOK, SessOK
<1>6. f.at <= Reach(sess, s)
  BY <1>2, <1>3, <1>5 DEF WireOf
<1>7. Meets(cli[s], wire[c], conn[c])
  BY <1>1, <1>5 DEF ClientOf
<1>8. Fits(cli[s], f)
  BY <1>1, <1>3, <1>4, <1>7 DEF Meets, Fits
<1>9. f.kind = "resync" => cli[s].last < sess[s].next - 1
  BY <1>1, <1>3, <1>5 DEF ClientOf, Resyncs
<1>10. PICK tok \in BOOLEAN, la \in Nat, st \in BOOLEAN :
         /\ tok = ((cli[s].token \/ f.kind = "hello") /\ f.kind # "expired")
         /\ la = IF f.kind \in {"event", "sync"} THEN f.at ELSE cli[s].last
         /\ st = CASE f.kind = "resync" -> TRUE
                   [] f.kind = "sync" -> FALSE
                   [] OTHER -> cli[s].stale
  <2>1. PICK g : g = f
    <3> HIDE DEF f
    <3> QED OBVIOUS
  <2>2. g \in Frame
    BY <1>3, <2>1
  <2>3. ((cli[s].token \/ g.kind = "hello") /\ g.kind # "expired") \in BOOLEAN
    OBVIOUS
  <2>4. (IF g.kind \in {"event", "sync"} THEN g.at ELSE cli[s].last) \in Nat
    BY <1>0, <2>2 DEF Frame, Client
  <2>5. (CASE g.kind = "resync" -> TRUE [] g.kind = "sync" -> FALSE
           [] OTHER -> cli[s].stale) \in BOOLEAN
    BY <1>0 DEF Client
  <2> HIDE DEF f
  <2> QED BY <2>1, <2>3, <2>4, <2>5
<1>11. cli' = [cli EXCEPT ![s] = [cli[s] EXCEPT !.token = tok, !.last = la, !.stale = st]]
  <2>1. cli' = [cli EXCEPT ![s].token = tok, ![s].last = la, ![s].stale = st]
    <3> HIDE DEF f
    <3> QED BY <1>0, <1>1, <1>10
  <2> QED BY <1>0, <2>1
<1>12. /\ cli' \in [Sessions -> Client] /\ \A t \in Sessions \ {s} : cli'[t] = cli[t]
       /\ cli'[s].conn = c /\ cli'[s].last = la /\ cli'[s].stale = st
  <2>1. [cli[s] EXCEPT !.token = tok, !.last = la, !.stale = st] \in Client
    BY <1>0 DEF Client
  <2> HIDE DEF c
  <2>2. [cli[s] EXCEPT !.token = tok, !.last = la, !.stale = st].conn = c
    BY <1>0 DEF c, Client
  <2> QED BY <1>0, <1>11, <2>1, <2>2 DEF Client
<1>13. st <=> (f.kind = "resync" \/ (cli[s].stale /\ f.kind # "sync"))
  <2> HIDE DEF f
  <2>1. CASE f.kind = "resync"
    BY <1>10, <2>1
  <2>2. CASE f.kind = "sync"
    BY <1>10, <2>2
  <2>3. CASE f.kind # "resync" /\ f.kind # "sync"
    BY <1>10, <2>3
  <2> QED BY <2>1, <2>2, <2>3
<1>14. c = cli[s].conn
  OBVIOUS
<1> HIDE DEF c, f
<1>15. cli'[s].last = IF f.kind \in {"event", "sync"} THEN f.at ELSE cli[s].last
  BY <1>10, <1>12
<1>16. cli'[s].stale <=> (f.kind = "resync" \/ (cli[s].stale /\ f.kind # "sync"))
  BY <1>12, <1>13, Zenon
<1>17. PICK d \in Conns, g \in Frame : d = c /\ g = f
  BY <1>2, <1>3
<1>18. /\ d = cli[s].conn /\ wire[d] # <<>> /\ g = wire[d][1]
       /\ chan[d].owner = s /\ conn[d].peer /\ conn[d].reply = "none"
       /\ Fits(cli[s], g) /\ g.at <= Reach(sess, s)
       /\ g.kind = "resync" => cli[s].last < sess[s].next - 1
       /\ wire' = [wire EXCEPT ![d] = Tail(@)]
       /\ cli'[s].conn = d
       /\ cli'[s].last = IF g.kind \in {"event", "sync"} THEN g.at ELSE cli[s].last
  <2>1. wire[c] # <<>> /\ wire' = [wire EXCEPT ![c] = Tail(wire[c])]
    BY <1>1
  <2>2. d = cli[s].conn /\ wire[d] # <<>> /\ g = wire[d][1]
    BY <1>3, <1>14, <1>17, <2>1
  <2>3. chan[d].owner = s /\ conn[d].peer /\ conn[d].reply = "none"
    BY <1>2, <1>4, <1>17
  <2>4. /\ Fits(cli[s], g) /\ g.at <= Reach(sess, s)
        /\ g.kind = "resync" => cli[s].last < sess[s].next - 1
    BY <1>6, <1>8, <1>9, <1>17
  <2>5. wire' = [wire EXCEPT ![d] = Tail(wire[d])] /\ cli'[s].conn = d
    BY <1>12, <1>17, <2>1
  <2>6. cli'[s].last = IF g.kind \in {"event", "sync"} THEN g.at ELSE cli[s].last
    BY <1>15, <1>17
  <2> QED BY <2>2, <2>3, <2>4, <2>5, <2>6
<1>19. cli'[s].stale <=> (g.kind = "resync" \/ (cli[s].stale /\ g.kind # "sync"))
  BY <1>16, <1>17
<1> WITNESS d \in Conns, g \in Frame
<1> QED BY <1>12, <1>18, <1>19

LEMMA TailIndices ==
  ASSUME NEW m \in Nat, m > 0, NEW n, n = m - 1
  PROVE  /\ n \in Nat /\ n + 1 = m /\ 1 \in 1..m
         /\ \A i \in 1..n : i + 1 \in 1..m /\ i + 1 # 1 /\ m # 1
         /\ \A i \in 2..n : /\ i \in 1..n /\ i - 1 \in 1..n
                            /\ (i - 1) + 1 = i /\ i + 1 \in 2..m /\ (i + 1) - 1 = i
         /\ n = 0 => m = 1
         /\ n # 0 => 1 \in 1..n /\ n \in 1..n /\ 2 \in 2..m /\ m # 1
OBVIOUS

\* What is left of a connection's frames when the first has been read.
RestOf(w, t, pc) ==
  /\ t \in Seq(Frame) /\ Follows(t) /\ Placed(t, pc)
  /\ \A i \in 1..Len(t) : i + 1 \in 1..Len(w) /\ t[i] = w[i + 1]
  /\ t # <<>> => /\ t[Len(t)] = w[Len(w)] /\ t[1].at = w[1].at + Ev(t[1])
                 /\ t[1].kind \notin {"expired", "refused", "resync"}
                 /\ w[1].kind \notin {"expired", "refused"}
  /\ t = <<>> => Len(w) = 1

LEMMA TailFollows ==
  ASSUME NEW w \in Seq(Frame), w # <<>>, NEW pc, Follows(w), Placed(w, pc), NEW t, t = Tail(w)
  PROVE  RestOf(w, t, pc)
<1>1. PICK m, n : m = Len(w) /\ n = Len(t)
  OBVIOUS
<1>2. /\ t \in Seq(Frame) /\ m \in Nat /\ m > 0 /\ n = m - 1
      /\ \A i \in 1..n : t[i] = w[i + 1]
  BY <1>1, HeadTailProperties
<1>3. /\ n \in Nat /\ n + 1 = m /\ 1 \in 1..m
      /\ \A i \in 1..n : i + 1 \in 1..m /\ i + 1 # 1 /\ m # 1
      /\ \A i \in 2..n : /\ i \in 1..n /\ i - 1 \in 1..n
                         /\ (i - 1) + 1 = i /\ i + 1 \in 2..m /\ (i + 1) - 1 = i
      /\ n = 0 => m = 1
      /\ n # 0 => 1 \in 1..n /\ n \in 1..n /\ 2 \in 2..m /\ m # 1
  <2>1. m \in Nat /\ m > 0 /\ n = m - 1
    BY <1>2
  <2> QED BY ONLY <2>1, TailIndices
<1>4. t = <<>> <=> n = 0
  BY <1>1, <1>2, EmptySeq
<1>5. Follows(t)
  <2> SUFFICES ASSUME NEW i \in 2..n
               PROVE  t[i].at = IF t[i].kind = "event" THEN t[i - 1].at + 1 ELSE t[i - 1].at
    BY <1>1 DEF Follows
  <2>1. i \in 1..n /\ i - 1 \in 1..n /\ (i - 1) + 1 = i /\ i + 1 \in 2..m /\ (i + 1) - 1 = i
    BY <1>3
  <2>2. t[i] = w[i + 1] /\ t[i - 1] = w[(i - 1) + 1]
    BY <1>2, <2>1
  <2>3. w[i + 1].at = IF w[i + 1].kind = "event" THEN w[(i + 1) - 1].at + 1 ELSE w[(i + 1) - 1].at
    BY <1>1, <2>1 DEF Follows
  <2> QED BY <2>1, <2>2, <2>3
<1>6. ASSUME NEW i \in 1..n
      PROVE  t[i].kind \notin {"expired", "refused", "resync"}
  <2>1. i + 1 \in 1..m /\ i + 1 # 1 /\ m # 1
    BY <1>3
  <2>2. t[i] = w[i + 1]
    BY <1>2
  <2>3. \A j \in 1..m : /\ w[j].kind \in {"expired", "refused"} => m = 1
                        /\ w[j].kind = "resync" => j = 1
    BY <1>1 DEF Placed
  <2> QED BY <2>1, <2>2, <2>3
<1>7. Placed(t, pc)
  BY <1>1, <1>6 DEF Placed
<1>8. ASSUME t # <<>>
      PROVE  /\ t[n] = w[m] /\ t[1].at = w[1].at + Ev(t[1])
             /\ t[1].kind \notin {"expired", "refused", "resync"}
             /\ w[1].kind \notin {"expired", "refused"}
  <2>1. 1 \in 1..n /\ n \in 1..n /\ n + 1 = m /\ 2 \in 2..m /\ 1 \in 1..m /\ m # 1
    BY <1>3, <1>4, <1>8
  <2>2. t[1] = w[2] /\ t[n] = w[m]
    <3>1. 1 + 1 = 2
      OBVIOUS
    <3>2. t[1] = w[1 + 1] /\ t[n] = w[n + 1]
      BY <1>2, <2>1
    <3> QED BY <2>1, <3>1, <3>2
  <2>3. w[2].at = IF w[2].kind = "event" THEN w[1].at + 1 ELSE w[1].at
    <3>1. 2 - 1 = 1
      OBVIOUS
    <3>2. w[2].at = IF w[2].kind = "event" THEN w[2 - 1].at + 1 ELSE w[2 - 1].at
      BY <1>1, <2>1 DEF Follows
    <3> QED BY <3>1, <3>2
  <2>4. w[1].kind \notin {"expired", "refused"}
    BY <1>1, <2>1 DEF Placed
  <2>5. w[1].at \in Nat
    <3>1. w[1] \in Frame
      BY <1>1, <2>1
    <3> QED BY <3>1 DEF Frame
  <2>6. t[1].at = w[1].at + Ev(t[1])
    <3>1. PICK a : a = w[1].at
      OBVIOUS
    <3>2. CASE t[1].kind = "event"
      BY <2>2, <2>3, <3>2 DEF Ev
    <3>3. CASE t[1].kind # "event"
      <4>1. t[1].at = a /\ Ev(t[1]) = 0 /\ a \in Nat
        BY <2>2, <2>3, <2>5, <3>1, <3>3 DEF Ev
      <4>2. a = a + 0
        BY <4>1
      <4> QED BY <3>1, <4>1, <4>2
    <3> QED BY <3>2, <3>3
  <2> QED BY <1>6, <2>1, <2>2, <2>4, <2>6
<1>9. t = <<>> => m = 1
  BY <1>3, <1>4
<1>10. \A i \in 1..n : i + 1 \in 1..m /\ t[i] = w[i + 1]
  BY <1>2, <1>3
<1> QED BY <1>1, <1>2, <1>5, <1>7, <1>8, <1>9, <1>10 DEF RestOf

\* The client reads a frame.
LEMMA ClientReadsOK ==
  ASSUME ServerInv, ServerInv', StreamInv, NEW s \in Sessions, ClientReads(s)
  PROVE  StreamInv' /\ Rests /\ \A t \in Sessions : Grows(t)
<1>0. /\ sess' = sess /\ chan' = chan /\ clock' = clock /\ conn' = conn
  BY DEF ClientReads, rosterVars
<1>1. PICK c \in Conns, f \in Frame :
        /\ c = cli[s].conn /\ wire[c] # <<>> /\ f = wire[c][1]
        /\ chan[c].owner = s /\ conn[c].peer /\ conn[c].reply = "none"
        /\ Fits(cli[s], f) /\ f.at <= Reach(sess, s)
        /\ f.kind = "resync" => cli[s].last < sess[s].next - 1
        /\ wire' = [wire EXCEPT ![c] = Tail(@)]
        /\ cli' \in [Sessions -> Client]
        /\ \A t \in Sessions \ {s} : cli'[t] = cli[t]
        /\ cli'[s].conn = c
        /\ cli'[s].last = IF f.kind \in {"event", "sync"} THEN f.at ELSE cli[s].last
        /\ cli'[s].stale <=> (f.kind = "resync" \/ (cli[s].stale /\ f.kind # "sync"))
  BY FrameRead
<1>2. /\ wire \in [Conns -> Seq(Frame)] /\ cli \in [Sessions -> Client]
      /\ sess \in [Sessions -> Session] /\ chan \in [Conns -> Channel]
      /\ c # NoConn
  BY ServerParts, SessionsAssumption DEF StreamInv
<1>3. (\A t \in Sessions : Grows(t)) /\ (\A d \in Conns : Bystands(d))
  BY <1>0, <1>2, StillGrows
<1>4. PICK w, t : w = wire[c] /\ t = Tail(w)
  OBVIOUS
<1>5. wire'[c] = t /\ \A d \in Conns \ {c} : wire'[d] = wire[d]
  BY <1>1, <1>2, <1>4
<1>6. ConnOK(c) /\ PeerOf(c) /\ WireOf(c)
  BY DEF StreamInv, ConnOK
<1>7. /\ w \in Seq(Frame) /\ w # <<>> /\ Follows(w) /\ Placed(w, conn[c].pc) /\ f = w[1]
      /\ conn[c].pc \in Writing => w[Len(w)].at = conn[c].sent
      /\ \A i \in 1..Len(w) : w[i].at <= Reach(sess, s)
  BY <1>1, <1>2, <1>4, <1>6 DEF WireOf
<1>8. PICK p : p = conn[c].pc
  OBVIOUS
<1>9. /\ t \in Seq(Frame) /\ Follows(t) /\ Placed(t, p)
      /\ \A i \in 1..Len(t) : i + 1 \in 1..Len(w) /\ t[i] = w[i + 1]
      /\ t # <<>> => /\ t[Len(t)] = w[Len(w)] /\ t[1].at = f.at + Ev(t[1])
                     /\ t[1].kind \notin {"expired", "refused", "resync"}
                     /\ f.kind \notin {"expired", "refused"}
      /\ t = <<>> => Len(w) = 1
  <2>1. Placed(w, p) /\ t = Tail(w) /\ w \in Seq(Frame) /\ w # <<>> /\ Follows(w)
    BY <1>4, <1>7, <1>8
  <2>2. RestOf(w, t, p)
    BY <2>1, TailFollows
  <2> QED BY <1>7, <2>2 DEF RestOf
<1>10. ConnOK(c)'
  <2>1. WireOf(c)'
    <3>1. t # <<>> /\ p \in Writing => t[Len(t)].at = conn[c].sent
      BY <1>7, <1>8, <1>9
    <3>2. \A i \in 1..Len(t) : t[i].at <= Reach(sess, s)
      BY <1>7, <1>9
    <3>3. chan'[c].owner = s
      BY <1>0, <1>1
    <3> QED BY <1>0, <1>5, <1>8, <1>9, <3>1, <3>2, <3>3 DEF WireOf
  <2>2. PeerOf(c)'
    <3>1. /\ conn[c].pc \notin {"asked", "attached", "announced"}
          /\ conn[c].pc = "unused" => conn[c] = NewTask
          /\ conn[c].pc \in {"drain", "syncing"} => conn[c].out = <<>>
      BY <1>1, <1>6 DEF PeerOf
    <3>2. cli'[chan'[c].owner].conn = c
      BY <1>0, <1>1
    <3> QED BY <1>0, <1>1, <3>1, <3>2 DEF PeerOf
  <2>3. SyncOf(c)'
    BY <1>0, <1>6 DEF ConnOK, SyncOf, TxOpen
  <2>4. (conn[c].pc \in Writing => ChannelOf(sess, chan, conn, c))'
    BY <1>0, <1>6 DEF ConnOK, ChannelOf, Position, IsLive
  <2> QED BY <2>1, <2>2, <2>3, <2>4 DEF ConnOK
<1>11. SessOK(s)'
  <2>1. ReaderOf(s)'
    <3>1. conn[c].pc # "unused"
      BY <1>1, ReaderIs
    <3> QED BY <1>0, <1>1, <3>1 DEF ReaderOf
  <2>2. cli[s].last \in Nat /\ f.at \in Nat /\ cli'[s].last \in Nat /\ cli[s].last <= Reach(sess, s)
    BY <1>1, <1>2 DEF Client, Frame, StreamInv, SessOK, ClientOf
  <2>3. cli'[s].last <= Reach(sess', s)
    BY <1>0, <1>1, <2>2
  <2>4. f.kind \notin {"expired", "refused"} =>
          IF cli'[s].stale THEN f.at >= cli'[s].last ELSE f.at = cli'[s].last
    BY <1>1, <2>2 DEF Fits
  <2>5. Meets(cli'[s], t, conn[c])
    <3>1. CASE t # <<>>
      <4>1. t[1].at = f.at + Ev(t[1]) /\ t[1].kind # "resync" /\ f.kind \notin {"expired", "refused"}
        BY <1>9, <3>1
      <4> QED BY <1>1, <2>2, <2>4, <3>1, <4>1 DEF Meets, Ev
    <3>2. CASE t = <<>> /\ conn[c].pc \in Writing
      <4>1. f.at = conn[c].sent /\ conn[c].pc # "off"
        BY <1>7, <1>9, <3>2 DEF Writing, Attending
      <4>2. 1 \in 1..Len(w)
        <5>1. Len(w) = 1
          BY <1>9, <3>2
        <5> QED BY ONLY <5>1
      <4>3. f.kind \notin {"expired", "refused"}
        BY <1>7, <4>1, <4>2 DEF Placed
      <4> QED BY <1>1, <2>2, <2>4, <3>2, <4>1, <4>3 DEF Meets
    <3>3. CASE t = <<>> /\ conn[c].pc \notin Writing
      BY <3>3 DEF Meets
    <3> QED BY <3>1, <3>2, <3>3
  <2>6. ~Resyncs(t, conn[c])
    BY <1>1, <1>9 DEF Resyncs
  <2>7. ClientOf(s)'
    BY <1>0, <1>1, <1>5, <2>3, <2>5, <2>6 DEF ClientOf
  <2> QED BY <2>1, <2>7 DEF SessOK
<1>12. ASSUME NEW d \in Conns \ {c} PROVE ConnOK(d)'
  <2>1. chan[d].owner \in Sessions
    BY <1>2 DEF Channel
  <2>2. conn[d].peer => cli'[chan[d].owner] = cli[chan[d].owner]
    <3>1. conn[d].peer => cli[chan[d].owner].conn = d
      BY PeerReads
    <3> QED BY <1>1, <2>1, <3>1
  <2>3. ConnOK(d) /\ Bystands(d) /\ Grows(chan[d].owner) /\ conn'[d] = conn[d] /\ wire'[d] = wire[d]
    BY <1>0, <1>3, <1>5, <2>1 DEF StreamInv
  <2> QED BY <2>2, <2>3, BystanderKeeps
<1>13. ASSUME NEW u \in Sessions \ {s} PROVE SessOK(u)'
  <2>1. cli[u].conn # NoConn => cli[u].conn \in Conns \ {c}
    <3>1. cli[u].conn # NoConn => cli[u].conn \in Conns /\ chan[cli[u].conn].owner = u
      BY DEF StreamInv, SessOK, ReaderOf
    <3> QED BY <1>1, <3>1
  <2>2. cli[u].conn # NoConn => /\ conn'[cli[u].conn] = conn[cli[u].conn]
                                /\ wire'[cli[u].conn] = wire[cli[u].conn]
                                /\ chan'[cli[u].conn].owner = chan[cli[u].conn].owner
    BY <1>0, <1>5, <2>1
  <2>3. cli'[u] = cli[u] /\ SessOK(u) /\ Grows(u)
    BY <1>1, <1>3 DEF StreamInv
  <2> QED BY <1>2, <2>2, <2>3, ReaderKeeps
<1>14. FreshInv'
  BY <1>0, <1>1, <1>2 DEF StreamInv, FreshInv
<1>15. Rests
  BY <1>0 DEF Rests, Lies
<1> QED BY <1>1, <1>3, <1>10, <1>11, <1>12, <1>13, <1>14, <1>15 DEF StreamInv

-----------------------------------------------------------------------------
(* Every step.                                                             *)

\* A task's own step.
LEMMA TaskStepOK ==
  ASSUME ServerInv, ServerInv', StreamInv, NEW c \in Conns,
         TaskStep(c) \/ TaskFault(c) \/ TaskRequest(c), cli' = cli
  PROVE  StreamInv' /\ Rests /\ \A t \in Sessions : Grows(t)
<1>1. CASE Quits(c)
  BY <1>1, QuitsOK, QuitsApart DEF Apart
<1>2. CASE Works(c)
  BY <1>2, WorksOK, WorksApart DEF Apart
<1>3. ASSUME NEW over, LoginAnnounce(c, over)
      PROVE  StreamInv' /\ Rests /\ \A t \in Sessions : Grows(t)
  BY <1>3, LoginAnnounceOK
<1>4. ASSUME NEW over, NEW shown, ResumeTakes(c, shown, over)
      PROVE  StreamInv' /\ Rests /\ \A t \in Sessions : Grows(t)
  BY <1>4, ResumeTakesOK
<1>5. \/ Quits(c) \/ Works(c)
      \/ \E over : LoginAnnounce(c, over) \/ \E shown : ResumeTakes(c, shown, over)
  <2>1. CASE TaskStep(c)
    BY <2>1, Zenon DEF TaskStep, Quits, Works
  <2>2. CASE TaskFault(c)
    BY <2>2, Zenon DEF TaskFault, Quits, Works
  <2>3. CASE TaskRequest(c)
    BY <2>3, Zenon DEF TaskRequest, Quits, Works
  <2> QED BY <2>1, <2>2, <2>3
<1> QED BY <1>1, <1>2, <1>3, <1>4, <1>5

\* What the clients have received stays as it is.
Unread ==
  \A t \in Sessions : cli'[t].last = cli[t].last /\ cli'[t].stale = cli[t].stale

LEMMA StreamStep ==
  ASSUME CoreInv, StreamInv, [Next]_vars
  PROVE  /\ StreamInv' /\ Rests /\ \A t \in Sessions : Grows(t)
         /\ Unread \/ \E s \in Sessions : ClientReads(s)
<1>0. ServerInv /\ ServerInv'
  <2>1. CoreInv'
    BY CoreNext
  <2> QED BY <2>1 DEF CoreInv
<1>1. ASSUME NEW c \in Conns, TaskStep(c) \/ TaskFault(c) \/ TaskRequest(c), cli' = cli
      PROVE  StreamInv' /\ Rests /\ \A t \in Sessions : Grows(t)
  BY <1>0, <1>1, TaskStepOK
<1>2. ASSUME ServerStep, cli' = cli
      PROVE  StreamInv' /\ Rests /\ \A t \in Sessions : Grows(t)
  BY <1>0, <1>2, ServerStepOK, ServerMoves DEF Moves
<1>3. ASSUME sess' = sess, chan' = chan, clock' = clock, conn' = conn, wire' = wire, cli' = cli
      PROVE  StreamInv' /\ Rests /\ \A t \in Sessions : Grows(t)
  BY <1>0, <1>3, IdleOK
<1>4. ASSUME NEW s \in Sessions, Ban(s) \/ Revoke(s), cli' = cli
      PROVE  StreamInv' /\ Rests /\ \A t \in Sessions : Grows(t)
  BY <1>3, <1>4 DEF Ban, Revoke, rosterVars, connVars
<1>5. ASSUME UNCHANGED vars
      PROVE  StreamInv' /\ Rests /\ \A t \in Sessions : Grows(t)
  BY <1>3, <1>5 DEF vars, rosterVars, connVars
<1>6. ASSUME NEW c \in Conns, NEW s \in Sessions, ClientLogin(c, s) \/ ClientResume(c, s)
      PROVE  StreamInv' /\ Rests /\ (\A t \in Sessions : Grows(t)) /\ Unread
  BY <1>0, <1>6, ClientLoginOK, ClientResumeOK DEF Unread
<1>7. ASSUME NEW s \in Sessions, ClientReads(s)
      PROVE  StreamInv' /\ Rests /\ \A t \in Sessions : Grows(t)
  BY <1>0, <1>7, ClientReadsOK
<1>8. cli' = cli => Unread
  BY DEF Unread
<1>9. CASE Next
  BY <1>1, <1>2, <1>4, <1>6, <1>7, <1>8, <1>9 DEF Next
<1>10. CASE UNCHANGED vars
  BY <1>5, <1>8, <1>10 DEF vars
<1> QED BY <1>9, <1>10

LEMMA StreamInit == Init => StreamInv /\ SinceInv
<1> SUFFICES ASSUME Init PROVE StreamInv /\ SinceInv
  OBVIOUS
<1>1. CoreInv
  BY CoreInit
<1>2. /\ sess = [s \in Sessions |-> NoSession]
      /\ conn = [c \in Conns |-> NewTask] /\ wire = [c \in Conns |-> <<>>]
      /\ cli = [s \in Sessions |-> [conn |-> NoConn, token |-> FALSE, last |-> 0, stale |-> FALSE]]
  BY DEF Init, RosterInit, ConnInit
<1>3. cli \in [Sessions -> Client]
  BY <1>1 DEF CoreInv
<1>4. ASSUME NEW c \in Conns PROVE ConnOK(c)
  <2>1. conn[c] = NewTask /\ wire[c] = <<>>
    BY <1>2
  <2>2. conn[c].pc = "unused" /\ ~conn[c].peer /\ conn[c].reply = "none"
    BY <2>1 DEF NewTask
  <2>3. PeerOf(c)
    BY <2>1, <2>2 DEF PeerOf
  <2>4. WireOf(c)
    BY <2>1 DEF WireOf, Follows, Placed
  <2>5. SyncOf(c) /\ conn[c].pc \notin Writing
    BY <2>2 DEF SyncOf, Writing, Attending
  <2> QED BY <2>3, <2>4, <2>5 DEF ConnOK
<1>5. ASSUME NEW s \in Sessions PROVE SessOK(s)
  <2>1. cli[s].conn = NoConn /\ cli[s].last = 0
    BY <1>2
  <2>2. Reach(sess, s) = 0
    BY <1>2 DEF Reach, NoSession
  <2> QED BY <2>1, <2>2 DEF SessOK, ReaderOf, ClientOf
<1>6. FreshInv
  BY <1>2 DEF FreshInv, NoSession
<1>7. SinceInv
  BY <1>2 DEF SinceInv, Buffering, Here, NoSession
<1> QED BY <1>3, <1>4, <1>5, <1>6, <1>7 DEF StreamInv

-----------------------------------------------------------------------------
(* The detached sessions.                                                  *)

LEMMA EarliestNat ==
  ASSUME NEW T \in SUBSET Nat, T # {}
  PROVE  \E x \in T : \A y \in T : x <= y
<1> DEFINE less == {p \in Nat \X Nat : p[1] < p[2]}
<1>1. IsWellFoundedOn(less, Nat)
  BY NatLessThanWellFounded, Zenon DEF OpToRel
<1>2. PICK x \in T : \A y \in T : ~ (<<y, x>> \in less)
  <2> HIDE DEF less
  <2> QED BY <1>1, WFMin
<1>3. \A y \in T : ~ (y < x)
  BY <1>2
<1> QED BY <1>3

\* Of sessions told apart by their stamps, those with fewer than m newer
\* ones are at most m.
LEMMA NewestAreFew ==
  ASSUME NEW D, IsFiniteSet(D), NEW stamp \in [D -> Nat], NEW m \in Nat,
         \A x, y \in D : stamp[x] = stamp[y] => x = y,
         NEW Y \in SUBSET D,
         \A y \in Y : Cardinality({u \in D : stamp[u] > stamp[y]}) < m
  PROVE  IsFiniteSet(Y) /\ Cardinality(Y) <= m
<1>1. IsFiniteSet(Y)
  BY FS_Subset
<1>2. CASE Y = {}
  BY <1>1, <1>2, FS_EmptySet
<1>3. CASE Y # {}
  <2> DEFINE T == {stamp[y] : y \in Y}
  <2>1. T \in SUBSET Nat /\ T # {}
    BY <1>3
  <2>2. PICK x \in T : \A z \in T : x <= z
    <3> HIDE DEF T
    <3> QED BY <2>1, EarliestNat
  <2>3. PICK y \in Y : \A z \in Y : stamp[y] <= stamp[z]
    BY <2>2
  <2>4. PICK N : N = {u \in D : stamp[u] > stamp[y]}
    OBVIOUS
  <2>5. Y \ {y} \in SUBSET N
    <3> SUFFICES ASSUME NEW z \in Y, z # y PROVE z \in N
      OBVIOUS
    <3>1. stamp[z] \in Nat /\ stamp[y] \in Nat /\ stamp[y] <= stamp[z] /\ stamp[z] # stamp[y]
      BY <2>3
    <3> QED BY <2>4, <3>1
  <2>6. IsFiniteSet(N) /\ Cardinality(N) < m
    <3>1. N \in SUBSET D
      BY <2>4
    <3> QED BY <2>4, <3>1, FS_Subset
  <2>7. Cardinality(Y \ {y}) <= Cardinality(N)
    BY <2>5, <2>6, FS_Subset
  <2>8. Cardinality(Y \ {y}) = Cardinality(Y) - 1
    BY <1>1, FS_RemoveElement
  <2>9. Cardinality(Y) \in Nat /\ Cardinality(N) \in Nat
    BY <1>1, <2>6, FS_CardinalityType
  <2> QED BY ONLY <1>1, <2>6, <2>7, <2>8, <2>9, m \in Nat
<1> QED BY <1>2, <1>3

\* What every step keeps of the detached sessions.
LEMMA RestsKeeps ==
  ASSUME ServerInv, SinceInv, KickedNeverDetached, DetachedCap, Rests
  PROVE  SinceInv' /\ KickedNeverDetached' /\ DetachedCap'
<1>0. /\ sess \in [Sessions -> Session] /\ clock \in Nat
      /\ IsFiniteSet(Sessions) /\ MaxDetached \in Nat
  BY ServerParts, CapsAssumption, SessionsAssumption DEF ServerInv
<1>1. PICK B, A : B = Buffering(sess)' /\ A = Buffering(sess)
  OBVIOUS
<1>2. /\ B \subseteq Sessions /\ A \subseteq Sessions /\ B = Buffering(sess')
      /\ \A x \in A : sess[x].since \in Nat /\ sess[x].since < clock /\ ~sess[x].kicked
      /\ \A x, y \in A : sess[x].since = sess[y].since => x = y
  BY <1>0, <1>1 DEF SinceInv, KickedNeverDetached, Buffering, Here, Session
<1>3. ASSUME NEW x \in Sessions
      PROVE  /\ IsFiniteSet({t \in A : Addr[t] = Addr[x]})
             /\ Cardinality({t \in A : Addr[t] = Addr[x]}) <= MaxDetached
             /\ Cardinality({t \in A : Addr[t] = Addr[x]}) \in Nat
  <2>1. {t \in A : Addr[t] = Addr[x]} \in SUBSET Sessions
    BY <1>2
  <2>2. IsFiniteSet({t \in A : Addr[t] = Addr[x]})
    BY <1>0, <2>1, FS_Subset
  <2> QED BY <1>1, <2>2, FS_CardinalityType DEF DetachedCap, DetachedFrom
<1>4. ASSUME NEW x \in Sessions, {t \in B : Addr[t] = Addr[x]} \subseteq {t \in A : Addr[t] = Addr[x]}
      PROVE  Cardinality({t \in B : Addr[t] = Addr[x]}) <= MaxDetached
  <2>1. PICK P, Q : P = {t \in B : Addr[t] = Addr[x]} /\ Q = {t \in A : Addr[t] = Addr[x]}
    OBVIOUS
  <2>2. P \in SUBSET Q /\ IsFiniteSet(Q) /\ Cardinality(Q) <= MaxDetached /\ Cardinality(Q) \in Nat
    BY <1>3, <1>4, <2>1
  <2>3. IsFiniteSet(P) /\ Cardinality(P) <= Cardinality(Q)
    BY <2>2, FS_Subset
  <2>4. Cardinality(P) \in Nat
    BY <2>3, FS_CardinalityType
  <2>5. Cardinality(P) <= MaxDetached
    BY ONLY <1>0, <2>2, <2>3, <2>4
  <2> QED BY <2>1, <2>5
<1>5. ASSUME /\ \A x \in B : sess'[x].since < clock' /\ ~sess'[x].kicked
             /\ \A x, y \in B : sess'[x].since = sess'[y].since => x = y,
             \A x \in Sessions : Cardinality({t \in B : Addr[t] = Addr[x]}) <= MaxDetached
      PROVE  SinceInv' /\ KickedNeverDetached' /\ DetachedCap'
  BY <1>1, <1>5 DEF SinceInv, KickedNeverDetached, DetachedCap, DetachedFrom
<1>6. CASE clock' = clock /\ \A t \in Sessions : Lies(sess', t)
  <2>1. \A x \in B : x \in A /\ sess'[x].since = sess[x].since /\ (sess'[x].kicked => sess[x].kicked)
    BY <1>1, <1>2, <1>6 DEF Lies
  <2>2. \A x \in Sessions : {t \in B : Addr[t] = Addr[x]} \subseteq {t \in A : Addr[t] = Addr[x]}
    BY <2>1
  <2> QED BY <1>2, <1>4, <1>5, <1>6, <2>1, <2>2
<1>7. ASSUME NEW s \in Sessions, Detaches(s)
      PROVE  SinceInv' /\ KickedNeverDetached' /\ DetachedCap'
  <2>1. PICK S : S = Detached(s)
    OBVIOUS
  <2>2. sess[s].phase = "here" /\ ~sess[s].kicked /\ clock' = clock + 1
    BY <1>7 DEF Detaches, EndsWhenLost
  <2>3. /\ \A t \in Sessions : t # s => S[t] = sess[t]
        /\ S[s].since = clock /\ S[s].kicked = sess[s].kicked
    BY <2>1, <2>2, DetachedRaises
  <2>4. ASSUME NEW x \in Buffering(S)
        PROVE  /\ x \in Sessions /\ (x = s \/ x \in A)
               /\ S[x].since = IF x = s THEN clock ELSE sess[x].since
               /\ ~S[x].kicked
    BY <1>1, <1>2, <2>2, <2>3, <2>4 DEF Buffering, Here
  <2>5. \A x \in B : /\ x \in Buffering(S) \ OverCap(S, s) /\ sess'[x].since = S[x].since
                     /\ sess'[x].kicked <=> S[x].kicked
    BY <1>1, <1>2, <1>7, <2>1 DEF Detaches
  <2>6. \A x, y \in Buffering(S) : /\ S[x].since \in Nat /\ S[x].since < clock + 1
                                   /\ S[x].since = S[y].since => x = y
    <3> SUFFICES ASSUME NEW x \in Buffering(S), NEW y \in Buffering(S)
                 PROVE  /\ S[x].since \in Nat /\ S[x].since < clock + 1
                        /\ S[x].since = S[y].since => x = y
      OBVIOUS
    <3>1. /\ x = s \/ x \in A
          /\ y = s \/ y \in A
          /\ S[x].since = IF x = s THEN clock ELSE sess[x].since
          /\ S[y].since = IF y = s THEN clock ELSE sess[y].since
      BY <2>4
    <3> QED BY <1>0, <1>2, <3>1
  <2>7. ASSUME NEW x \in Sessions
        PROVE  Cardinality({t \in B : Addr[t] = Addr[x]}) <= MaxDetached
    <3>1. CASE Addr[x] # Addr[s]
      <4>1. {t \in B : Addr[t] = Addr[x]} \subseteq {t \in A : Addr[t] = Addr[x]}
        BY <2>4, <2>5, <3>1
      <4> QED BY <1>4, <4>1
    <3>2. CASE Addr[x] = Addr[s]
      <4>1. PICK D, Y, stamp : /\ D = DetachedFrom(S, s) /\ stamp = [t \in D |-> S[t].since]
                               /\ Y = {t \in B : Addr[t] = Addr[x]}
        OBVIOUS
      <4>2. D \in SUBSET Buffering(S) /\ D \in SUBSET Sessions
        BY <2>4, <4>1 DEF DetachedFrom
      <4>3. IsFiniteSet(D)
        BY <1>0, <4>2, FS_Subset
      <4>4. stamp \in [D -> Nat] /\ \A u, v \in D : stamp[u] = stamp[v] => u = v
        BY <2>6, <4>1, <4>2
      <4>5. Y \in SUBSET D
        BY <2>5, <3>2, <4>1 DEF DetachedFrom
      <4>6. ASSUME NEW y \in Y
            PROVE  Cardinality({u \in D : stamp[u] > stamp[y]}) < MaxDetached
        <5>1. y \in D /\ y \notin OverCap(S, s)
          BY <2>5, <4>1, <4>5
        <5>2. {u \in D : stamp[u] > stamp[y]} = {u \in D : S[u].since > S[y].since}
          BY <4>1, <5>1
        <5>3. ~(Cardinality({u \in D : S[u].since > S[y].since}) >= MaxDetached)
          BY <4>1, <5>1 DEF OverCap
        <5>4. PICK N : N = {u \in D : stamp[u] > stamp[y]}
          OBVIOUS
        <5>5. N \in SUBSET D /\ IsFiniteSet(N)
          <6>1. N \in SUBSET D
            BY <5>4
          <6> QED BY <4>3, <6>1, FS_Subset
        <5>6. Cardinality(N) \in Nat /\ ~(Cardinality(N) >= MaxDetached)
          BY <5>2, <5>3, <5>4, <5>5, FS_CardinalityType
        <5>7. Cardinality(N) < MaxDetached
          BY ONLY <1>0, <5>6
        <5> QED BY <5>4, <5>7
      <4>7. Cardinality(Y) <= MaxDetached
        BY <1>0, <4>3, <4>4, <4>5, <4>6, NewestAreFew
      <4> QED BY <4>1, <4>7
    <3> QED BY <3>1, <3>2
  <2>8. /\ \A x \in B : sess'[x].since < clock' /\ ~sess'[x].kicked
        /\ \A x, y \in B : sess'[x].since = sess'[y].since => x = y
    BY <2>2, <2>4, <2>5, <2>6
  <2> QED BY <1>5, <2>7, <2>8
<1> QED BY <1>6, <1>7 DEF Rests

-----------------------------------------------------------------------------
(* The refinement of EventStream.                                          *)

\* What a read makes of a client that had received a and was stale or not
\* (z), n being the next seq of its session: the next event, a resync, an
\* event ahead, a sync's answer, or nothing.
Reads(b, e, a, z, n) ==
  \/ ~z /\ b = a + 1 /\ b <= n - 1 /\ e = z
  \/ a < n - 1 /\ b = a /\ e = TRUE
  \/ z /\ b >= a + 1 /\ b <= n - 1 /\ e = z
  \/ z /\ b >= a /\ b <= n - 1 /\ e = FALSE
  \/ b = a /\ e = z

LEMMA ReadEffect ==
  ASSUME ServerInv, StreamInv, NEW s \in Sessions, ClientReads(s)
  PROVE  /\ Reads(cli'[s].last, cli'[s].stale, cli[s].last, cli[s].stale, sess[s].next)
         /\ cli'[s].last \in Nat /\ cli'[s].stale \in BOOLEAN
         /\ \A t \in Sessions \ {s} : cli'[t] = cli[t]
<1>1. PICK c \in Conns, f \in Frame :
        /\ Fits(cli[s], f) /\ f.at <= Reach(sess, s)
        /\ f.kind = "resync" => cli[s].last < sess[s].next - 1
        /\ cli' \in [Sessions -> Client]
        /\ \A t \in Sessions \ {s} : cli'[t] = cli[t]
        /\ cli'[s].last = IF f.kind \in {"event", "sync"} THEN f.at ELSE cli[s].last
        /\ cli'[s].stale <=> (f.kind = "resync" \/ (cli[s].stale /\ f.kind # "sync"))
  BY FrameRead
<1>2. PICK b, e, a, z, nx, h, k, rc :
        /\ b = cli'[s].last /\ e = cli'[s].stale /\ a = cli[s].last /\ z = cli[s].stale
        /\ nx = sess[s].next /\ h = f.at /\ k = f.kind /\ rc = Reach(sess, s)
  OBVIOUS
<1>3. b \in Nat /\ e \in BOOLEAN /\ a \in Nat /\ z \in BOOLEAN /\ h \in Nat
  BY <1>1, <1>2 DEF StreamInv, Client, Frame
<1>4. nx \in Nat /\ rc \in Int /\ rc <= nx - 1
  <2>1. sess \in [Sessions -> Session] /\ BufferOf(sess, s)
    BY ServerParts DEF BufferInv
  <2> QED BY <1>2, <2>1, ReachBound, ReachType
<1>5. h <= nx - 1
  <2>1. h <= rc
    BY <1>1, <1>2
  <2> QED BY ONLY <1>3, <1>4, <2>1
<1>6. /\ k = "resync" => a < nx - 1
      /\ b = IF k \in {"event", "sync"} THEN h ELSE a
      /\ e <=> (k = "resync" \/ (z /\ k # "sync"))
  BY <1>1, <1>2
<1>7. k \in {"event", "sync"} =>
        IF z THEN h >= a + (IF k = "event" THEN 1 ELSE 0)
             ELSE h = a + (IF k = "event" THEN 1 ELSE 0)
  BY <1>1, <1>2 DEF Fits
<1>8. Reads(b, e, a, z, nx)
  <2>1. CASE k = "event"
    <3>1. e <=> z
      BY <1>6, <2>1
    <3>2. e = z
      BY <1>3, <3>1, Zenon
    <3>3. b = h /\ (z => h >= a + 1) /\ (~z => h = a + 1)
      BY <1>6, <1>7, <2>1
    <3> QED BY <1>3, <1>5, <3>2, <3>3 DEF Reads
  <2>2. CASE k = "sync"
    <3>1. e = FALSE
      BY <1>3, <1>6, <2>2, Zenon
    <3>2. b = h /\ (z => h >= a) /\ (~z => h = a)
      BY <1>3, <1>6, <1>7, <2>2
    <3>3. ~z => z = FALSE
      BY <1>3, Zenon
    <3> QED BY <1>3, <1>5, <3>1, <3>2, <3>3 DEF Reads
  <2>3. CASE k = "resync"
    <3>1. e = TRUE
      BY <1>3, <1>6, <2>3, Zenon
    <3> QED BY <1>6, <2>3, <3>1 DEF Reads
  <2>4. CASE k \notin {"event", "sync", "resync"}
    <3>1. e <=> z
      BY <1>6, <2>4
    <3>2. e = z
      BY <1>3, <3>1, Zenon
    <3> QED BY <1>6, <2>4, <3>2 DEF Reads
  <2> QED BY <2>1, <2>2, <2>3, <2>4
<1> QED BY <1>1, <1>2, <1>3, <1>8

LEMMA StreamInitRefines == Init => Stream!Init
<1> SUFFICES ASSUME Init PROVE Stream!Init
  OBVIOUS
<1>1. /\ sess = [s \in Sessions |-> NoSession]
      /\ cli = [s \in Sessions |-> [conn |-> NoConn, token |-> FALSE, last |-> 0, stale |-> FALSE]]
  BY DEF Init, RosterInit
<1>2. \A s \in Sessions : sess[s].next - 1 = 0 /\ cli[s].last = 0 /\ cli[s].stale = FALSE
  BY <1>1 DEF NoSession
<1> QED BY <1>2 DEF Stream!Init

LEMMA StreamNextRefines ==
  ASSUME CoreInv, StreamInv, [Next]_vars
  PROVE  [Stream!Next]_(Stream!streamVars)
<1>0. ServerInv /\ ServerInv'
  <2>1. CoreInv'
    BY CoreNext
  <2> QED BY <2>1 DEF CoreInv
<1>1. /\ \A t \in Sessions : Grows(t)
      /\ Unread \/ \E s \in Sessions : ClientReads(s)
  BY StreamStep
<1>2. \A t \in Sessions : /\ sess[t].next \in Nat /\ sess[t].next >= 1
                          /\ sess'[t].next \in Nat /\ sess'[t].next >= 1
                          /\ sess'[t].next >= sess[t].next
  BY <1>0, <1>1 DEF ServerInv, RosterInv, BufferInv, BufferOf, Session, Grows
<1>3. CASE Unread
  <2>1. Stream!Push
    <3>1. \A t \in Sessions : sess'[t].next - 1 \in Nat /\ sess'[t].next - 1 >= sess[t].next - 1
      BY <1>2
    <3> QED BY <1>3, <3>1 DEF Stream!Push, Unread
  <2> QED BY <2>1 DEF Stream!Next
<1>4. ASSUME NEW s \in Sessions, ClientReads(s)
      PROVE  [Stream!Next]_(Stream!streamVars)
  <2>1. PICK b \in Nat, e \in BOOLEAN :
           /\ cli'[s].last = b /\ cli'[s].stale = e
           /\ \A t \in Sessions \ {s} : cli'[t] = cli[t]
           /\ Reads(b, e, cli[s].last, cli[s].stale, sess[s].next)
    BY <1>0, <1>4, ReadEffect
  <2>2. sess' = sess /\ cli[s].last \in Nat
    BY <1>4 DEF ClientReads, rosterVars, StreamInv, Client
  <2>3. PICK P, L, Z, L1, Z1 :
           /\ P = [t \in Sessions |-> sess[t].next - 1]
           /\ L = [t \in Sessions |-> cli[t].last] /\ Z = [t \in Sessions |-> cli[t].stale]
           /\ L1 = [t \in Sessions |-> cli'[t].last] /\ Z1 = [t \in Sessions |-> cli'[t].stale]
    OBVIOUS
  <2>4. /\ [t \in Sessions |-> sess'[t].next - 1] = P
        /\ L1 = [L EXCEPT ![s] = b] /\ Z1 = [Z EXCEPT ![s] = e]
        /\ P[s] = sess[s].next - 1 /\ L[s] = cli[s].last /\ Z[s] = cli[s].stale /\ L1[s] = b
    BY <2>1, <2>2, <2>3
  <2>5. P[s] \in Nat /\ L[s] \in Nat
    BY <1>2, <2>2, <2>4
  <2>6. b = L[s] => L1 = L
    BY <2>3, <2>4
  <2>7. e = Z[s] => Z1 = Z
    BY <2>3, <2>4
  <2>8. CASE ~Z[s] /\ b = L[s] + 1 /\ b <= P[s] /\ e = Z[s]
    <3>1. L[s] < P[s]
      BY <2>5, <2>8
    <3>2. Stream!Apply(s)
      BY <2>3, <2>4, <2>7, <2>8, <3>1 DEF Stream!Apply
    <3> QED BY <3>2 DEF Stream!Next
  <2>9. CASE L[s] < P[s] /\ b = L[s] /\ e = TRUE
    <3>1. Stream!Miss(s)
      BY <2>3, <2>4, <2>6, <2>9 DEF Stream!Miss
    <3> QED BY <3>1 DEF Stream!Next
  <2>10. CASE Z[s] /\ b >= L[s] + 1 /\ b <= P[s] /\ e = Z[s]
    <3>1. b \in (L[s] + 1)..P[s]
      BY <2>5, <2>10
    <3>2. Stream!Ahead(s)
      BY <2>3, <2>4, <2>7, <2>10, <3>1 DEF Stream!Ahead
    <3> QED BY <3>2 DEF Stream!Next
  <2>11. CASE Z[s] /\ b >= L[s] /\ b <= P[s] /\ e = FALSE
    <3>1. b \in L[s]..P[s]
      BY <2>5, <2>11
    <3>2. Stream!Sync(s)
      BY <2>3, <2>4, <2>11, <3>1 DEF Stream!Sync
    <3> QED BY <3>2 DEF Stream!Next
  <2>12. CASE b = L[s] /\ e = Z[s]
    <3>1. UNCHANGED Stream!streamVars
      BY <2>3, <2>4, <2>6, <2>7, <2>12 DEF Stream!streamVars
    <3> QED BY <3>1
  <2>13. \/ ~Z[s] /\ b = L[s] + 1 /\ b <= P[s] /\ e = Z[s]
         \/ L[s] < P[s] /\ b = L[s] /\ e = TRUE
         \/ Z[s] /\ b >= L[s] + 1 /\ b <= P[s] /\ e = Z[s]
         \/ Z[s] /\ b >= L[s] /\ b <= P[s] /\ e = FALSE
         \/ b = L[s] /\ e = Z[s]
    <3>1. Reads(b, e, L[s], Z[s], sess[s].next)
      BY <2>1, <2>4
    <3> QED BY <2>4, <3>1, Zenon DEF Reads
  <2> QED BY <2>8, <2>9, <2>10, <2>11, <2>12, <2>13
<1> QED BY <1>1, <1>3, <1>4

LEMMA ReadsNewer ==
  ASSUME ServerInv, StreamInv, NEW s \in Sessions, ClientReads(s),
         Head(wire[cli[s].conn]).kind = "event"
  PROVE  cli'[s].last > cli[s].last
<1>1. PICK c \in Conns, f \in Frame :
        /\ c = cli[s].conn /\ wire[c] # <<>> /\ f = wire[c][1]
        /\ Fits(cli[s], f)
        /\ cli'[s].last = IF f.kind \in {"event", "sync"} THEN f.at ELSE cli[s].last
  BY FrameRead
<1>2. f.kind = "event"
  <2>1. wire[c] \in Seq(Frame)
    BY ServerParts
  <2>2. Head(wire[c]) = wire[c][1]
    BY <1>1, <2>1
  <2> QED BY <1>1, <2>2
<1>3. f.at >= cli[s].last + 1 /\ cli'[s].last = f.at
  <2>1. cli[s].last \in Nat /\ f.at \in Nat
    BY DEF StreamInv, Client, Frame
  <2> QED BY <1>1, <1>2, <2>1 DEF Fits
<1>4. cli[s].last \in Nat /\ f.at \in Nat
  BY DEF StreamInv, Client, Frame
<1> QED BY <1>3, <1>4

-----------------------------------------------------------------------------
(* The theorems.                                                           *)

WholeInv ==
  CoreInv /\ StreamInv /\ SinceInv /\ KickedNeverDetached /\ DetachedCap

LEMMA WholeInit == Init => WholeInv
<1> SUFFICES ASSUME Init PROVE WholeInv
  OBVIOUS
<1>1. CoreInv /\ StreamInv /\ SinceInv
  BY CoreInit, StreamInit
<1>2. Buffering(sess) = {}
  <2>1. sess = [s \in Sessions |-> NoSession]
    BY DEF Init, RosterInit
  <2> QED BY <2>1 DEF Buffering, Here, NoSession
<1>3. KickedNeverDetached
  BY <1>2 DEF KickedNeverDetached
<1>4. DetachedCap
  <2>1. \A s \in Sessions : DetachedFrom(sess, s) = {}
    BY <1>2 DEF DetachedFrom
  <2> QED BY <2>1, FS_EmptySet, CapsAssumption DEF DetachedCap
<1> QED BY <1>1, <1>3, <1>4 DEF WholeInv

LEMMA WholeNext == WholeInv /\ [Next]_vars => WholeInv'
<1> SUFFICES ASSUME WholeInv, [Next]_vars PROVE WholeInv'
  OBVIOUS
<1>1. CoreInv /\ StreamInv /\ SinceInv /\ KickedNeverDetached /\ DetachedCap /\ ServerInv
  BY DEF WholeInv, CoreInv
<1>2. CoreInv'
  BY <1>1, CoreNext
<1>3. StreamInv' /\ Rests
  BY <1>1, StreamStep
<1>4. SinceInv' /\ KickedNeverDetached' /\ DetachedCap'
  BY <1>1, <1>3, RestsKeeps
<1> QED BY <1>2, <1>3, <1>4 DEF WholeInv

LEMMA WholeInvariant == Spec => []WholeInv
<1>1. Init => WholeInv
  BY WholeInit
<1>2. WholeInv /\ [Next]_vars => WholeInv'
  BY WholeNext
<1> QED BY <1>1, <1>2, PTL DEF Spec

\* The inductive invariant of the ng service: who holds a session, what its
\* buffer and its connection's queue hold, what a task has written and is
\* about to write, where its client has got to and when each detached session
\* was left (Outbox, Events, Connection::run, handle_resume, handle_sync).
THEOREM StreamInvariant == Spec => []IInv
<1>1. WholeInv => IInv
  <2> SUFFICES ASSUME WholeInv PROVE IInv
    OBVIOUS
  <2>1. CoreInv /\ StreamInv /\ SinceInv
    BY DEF WholeInv
  <2>2. TypeOK /\ HolderInv(sess, chan, conn) /\ BufferInv(sess)
    BY <2>1 DEF CoreInv, ServerInv, RosterInv, TypeOK, RosterTypeOK
  <2>3. ChannelInv(sess, chan, conn) /\ (\A c \in Conns : PeerOf(c)) /\ WireInv /\ SyncInv
    BY <2>1 DEF StreamInv, ConnOK, ChannelInv, WireInv, SyncInv
  <2>4. (\A s \in Sessions : ReaderOf(s)) /\ ClientInv /\ FreshInv
    BY <2>1 DEF StreamInv, SessOK, ClientInv
  <2> QED BY <2>1, <2>2, <2>3, <2>4 DEF IInv, PeerInv
<1> QED BY <1>1, WholeInvariant, PTL

\* The server implements EventStream: across detaching, resuming, takeovers,
\* lagging, kicks and panics, a client that is not told to resync receives
\* every event of its session once and in order, it is told to resync only
\* when it lacks one, and a sync never takes it back (Outbox::push,
\* resume_locked, handle_resume, handle_sync).
THEOREM StreamImplemented == Spec => StreamSpec
<1>1. Init => Stream!Init
  BY StreamInitRefines
<1>2. WholeInv /\ [Next]_vars => [Stream!Next]_(Stream!streamVars)
  BY StreamNextRefines DEF WholeInv
<1> QED BY <1>1, <1>2, WholeInvariant, PTL DEF Spec, StreamSpec, Stream!Spec

\* Whatever a client was told, an event it reads is newer than all it had
\* before: neither a replay nor the drain of a sync sends one twice
\* (handle_resume, handle_sync, send_events).
THEOREM NothingTwice == Spec => NeverTwice
<1>1. WholeInv /\ [Next]_vars =>
        [\A s \in Sessions :
           ClientReads(s) /\ Head(wire[cli[s].conn]).kind = "event"
             => cli'[s].last > cli[s].last]_vars
  BY ReadsNewer DEF WholeInv, CoreInv
<1> QED BY <1>1, WholeInvariant, PTL DEF Spec, NeverTwice

\* A kicked session is never kept for a resume, whichever exit its connection
\* takes (kick_in, lose, resume).
THEOREM KickedNeverKept == Spec => []KickedNeverDetached
<1>1. WholeInv => KickedNeverDetached
  BY DEF WholeInv
<1> QED BY <1>1, WholeInvariant, PTL

\* No address keeps more detached sessions than the cap: ending the sessions
\* with MaxDetached newer ones leaves at most MaxDetached (lose).
THEOREM DetachedCapped == Spec => []DetachedCap
<1>1. WholeInv => DetachedCap
  BY DEF WholeInv
<1> QED BY <1>1, WholeInvariant, PTL

=============================================================================
