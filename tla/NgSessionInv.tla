---------------------------- MODULE NgSessionInv ----------------------------
(***************************************************************************)
(* The inductive invariant behind the promises of NgSession.  Its first    *)
(* three parts are about any roster S, channels C and tasks K, so that a   *)
(* proof can carry them through a Deliver; the others relate the tasks to  *)
(* the frames they wrote and to the clients that read them.                *)
(***************************************************************************)
EXTENDS NgSession

Consecutive(q, a) == \A i \in 1..Len(q) : q[i] = a + i

\* The tasks that still have their receiver.
Writing == (Attending \ {"panicked"}) \cup {"replaced"}

IsLive(S, s, c) ==
  S[s].phase = "here" /\ S[s].sink = "live" /\ S[s].conn = c

\* The last seq a task has written, is about to write or finds queued.
Position(C, K, c) == K[c].sent + Len(K[c].out) + Len(C[c].queue)

\* The last seq that can have left the outbox: a lagged sink and a broken
\* buffer dropped at least the newest event.
Reach(S, s) ==
  IF S[s].phase # "here" THEN S[s].next - 1
  ELSE IF S[s].sink = "lagged" \/ (S[s].sink = "buffering" /\ S[s].broken)
  THEN S[s].next - 2
  ELSE IF S[s].sink = "buffering" THEN S[s].start - 1
  ELSE S[s].next - 1

\* Whoever is in a sink is a task that has yet to let the session go.
HolderOf(S, C, K, s) ==
  /\ S[s].sink # "none"
  /\ S[s].sink \in {"live", "lagged"} =>
       /\ S[s].conn \in Conns
       /\ K[S[s].conn].pc \in Attending
       /\ C[S[s].conn].owner = s
       /\ C[S[s].conn].rx <=> K[S[s].conn].pc # "panicked"
       /\ S[s].sink = "lagged" /\ C[S[s].conn].rx => C[S[s].conn].lagged

HolderInv(S, C, K) == \A s \in Here(S) : HolderOf(S, C, K, s)

\* The same for every session but those in V.
HolderInvBut(S, C, K, V) == \A s \in Here(S) \ V : HolderOf(S, C, K, s)

\* A buffer holds everything since the session detached, or is broken.
BufferOf(S, s) ==
  /\ S[s].next >= 1
  /\ s \in Buffering(S) =>
       /\ S[s].start \in 1..S[s].next
       /\ ~S[s].broken => /\ Consecutive(S[s].buf, S[s].start - 1)
                          /\ S[s].start + Len(S[s].buf) = S[s].next

BufferInv(S) == \A s \in Sessions : BufferOf(S, s)

RosterInv(S, C, K) ==
  /\ S \in [Sessions -> Session]
  /\ C \in [Conns -> Channel]
  /\ BufferInv(S)
  /\ HolderInv(S, C, K)

\* What a task holds and what its queue holds continue what it has written.
ChannelOf(S, C, K, c) ==
  /\ C[c].rx
  /\ Consecutive(K[c].out, K[c].sent)
  /\ Consecutive(C[c].queue, K[c].sent + Len(K[c].out))
  /\ Position(C, K, c) <= Reach(S, C[c].owner)
  /\ IsLive(S, C[c].owner, c) => Position(C, K, c) = S[C[c].owner].next - 1

ChannelInv(S, C, K) ==
  \A c \in Conns : K[c].pc \in Writing => ChannelOf(S, C, K, c)

\* The client and the task agree on who reads which connection.
ReaderOf(s) ==
  cli[s].conn # NoConn => /\ cli[s].conn \in Conns
                          /\ chan[cli[s].conn].owner = s
                          /\ conn[cli[s].conn].peer
                          /\ conn[cli[s].conn].pc # "unused"

\* What a task has done so far, at each place of its handshake.
PeerOf(c) ==
  /\ conn[c].peer => cli[chan[c].owner].conn = c
  /\ ~conn[c].peer => wire[c] = <<>>
  /\ conn[c].pc = "unused" => conn[c] = NewTask
  /\ conn[c].pc = "asked" =>
       /\ wire[c] = <<>>
       /\ conn[c] = [NewTask EXCEPT !.pc = "asked",
                                    !.peer = conn[c].peer,
                                    !.last = conn[c].last]
       /\ conn[c].peer => conn[c].last = cli[chan[c].owner].last
  /\ conn[c].pc \in {"attached", "announced"} =>
       conn[c].out = <<>> /\ conn[c].sent = 0 /\ wire[c] = <<>>
  /\ conn[c].pc \in {"drain", "syncing"} => conn[c].out = <<>>
  /\ conn[c].reply # "none" =>
       wire[c] = <<>> /\ conn[c].pc \in {"replying", "resumelost", "panicked"}

PeerInv == (\A s \in Sessions : ReaderOf(s)) /\ (\A c \in Conns : PeerOf(c))

\* The frames of a connection follow each other: an event is the next one,
\* and anything else is written where the stream has got to.
Follows(w) ==
  \A i \in 2..Len(w) :
    w[i].at = IF w[i].kind = "event" THEN w[i - 1].at + 1 ELSE w[i - 1].at

\* Frames that end a handshake stand alone, and a resync comes first.
Placed(w, pc) ==
  \A i \in 1..Len(w) :
    /\ w[i].kind \in {"expired", "refused"} => Len(w) = 1 /\ pc = "off"
    /\ w[i].kind = "resync" => i = 1

WireOf(c) ==
  /\ Follows(wire[c])
  /\ Placed(wire[c], conn[c].pc)
  /\ wire[c] # <<>> /\ conn[c].pc \in Writing =>
       wire[c][Len(wire[c])].at = conn[c].sent
  /\ \A i \in 1..Len(wire[c]) : wire[c][i].at <= Reach(sess, chan[c].owner)

WireInv == \A c \in Conns : WireOf(c)

\* Where a client is, against the first frame w has for it or, when it has
\* read them all, against what the task k has written.
Meets(z, w, k) ==
  LET here == IF w # <<>> THEN w[1].at ELSE k.sent
      event == IF w # <<>> /\ w[1].kind = "event" THEN 1 ELSE 0
  IN  \/ w # <<>> /\ w[1].kind \notin {"expired", "refused"}
      \/ w = <<>> /\ k.pc \in Writing
      => IF z.stale \/ (w # <<>> /\ w[1].kind = "resync") \/ k.reply = "resync"
         THEN here >= z.last + event
         ELSE here = z.last + event

\* A client is told to resync: now, or as soon as the task writes again.
Resyncs(w, k) == (w # <<>> /\ w[1].kind = "resync") \/ k.reply = "resync"

ClientOf(s) ==
  LET c == cli[s].conn
  IN  /\ cli[s].last <= Reach(sess, s)
      /\ c # NoConn => Meets(cli[s], wire[c], conn[c])
      /\ c # NoConn /\ Resyncs(wire[c], conn[c]) => cli[s].last < sess[s].next - 1

ClientInv == \A s \in Sessions : ClientOf(s)

\* handle_sync's seq: what is queued lies between it and what was written.
SyncOf(c) ==
  /\ conn[c].pc = "drain" /\ TxOpen(c) =>
       conn[c].mark \in conn[c].sent..(conn[c].sent + Len(chan[c].queue))
  /\ conn[c].pc = "syncing" => conn[c].mark = conn[c].sent

SyncInv == \A c \in Conns : SyncOf(c)

\* A session that never attached has no events and no client.
FreshInv ==
  \A s \in Sessions :
    sess[s].phase = "none" => sess[s].next = 1 /\ cli[s].conn = NoConn /\ ~cli[s].token

\* Detached sessions are told apart by when they detached, and the clock has
\* moved on since.
SinceInv ==
  \A s, t \in Buffering(sess) :
    sess[s].since < clock /\ (sess[s].since = sess[t].since => s = t)

IInv ==
  /\ TypeOK
  /\ HolderInv(sess, chan, conn)
  /\ BufferInv(sess)
  /\ ChannelInv(sess, chan, conn)
  /\ PeerInv
  /\ WireInv
  /\ ClientInv
  /\ SyncInv
  /\ FreshInv
  /\ SinceInv

=============================================================================
