----------------------------- MODULE NgSession -----------------------------
(***************************************************************************)
(* The ng service as its clients meet it: the roster, the connection tasks *)
(* and, for each session, the client that logged in and may come back.     *)
(* A client reads one connection, the newest it opened; frames on an older *)
(* one go unread, though its task may live on.  A connection may be lost   *)
(* with frames still unread in it.                                         *)
(***************************************************************************)
EXTENDS NgConn

VARIABLE cli   \* each session's client

vars == <<rosterVars, connVars, cli>>

\* conn: the connection it reads.  token: it has the login reply, and so
\* may resume.  last: the highest seq it received.  stale: it was answered
\* resync_required and has not had a sync reply since.
Client ==
  [conn: Conns \cup {NoConn}, token: BOOLEAN, last: Nat, stale: BOOLEAN]

TypeOK ==
  /\ RosterTypeOK
  /\ ConnTypeOK
  /\ cli \in [Sessions -> Client]

Init ==
  /\ RosterInit
  /\ ConnInit
  /\ cli = [s \in Sessions |-> [conn |-> NoConn, token |-> FALSE,
                                last |-> 0, stale |-> FALSE]]

-----------------------------------------------------------------------------
(* The client.                                                             *)

\* A login on a new connection.
ClientLogin(c, s) ==
  /\ LoginAttach(c, s)
  /\ cli' = [cli EXCEPT ![s].conn = c]

\* A resume on a new connection, from the highest seq received; whatever
\* the old connection still brings is not read any more.
ClientResume(c, s) ==
  /\ At(c, "unused")
  /\ cli[s].token
  /\ s \in CanDetach
  /\ cli' = [cli EXCEPT ![s].conn = c]
  /\ conn' = [d \in Conns |->
       IF d = c THEN [conn[c] EXCEPT !.pc = "asked", !.peer = TRUE,
                                     !.last = cli[s].last]
       ELSE IF d = cli[s].conn THEN [conn[d] EXCEPT !.peer = FALSE]
       ELSE conn[d]]
  /\ wire' = [d \in Conns |-> IF d = cli[s].conn THEN <<>> ELSE wire[d]]
  /\ chan' = [chan EXCEPT ![c].owner = s]
  /\ UNCHANGED <<sess, clock, revoked, banned, ending>>

ClientReads(s) ==
  LET c == cli[s].conn
      f == Head(wire[c])
  IN  /\ c # NoConn
      /\ wire[c] # <<>>
      /\ wire' = [wire EXCEPT ![c] = Tail(@)]
      /\ cli' = [cli EXCEPT
           ![s].token = (@ \/ f.kind = "hello") /\ f.kind # "expired",
           ![s].last = IF f.kind \in {"event", "sync"} THEN f.at ELSE @,
           ![s].stale = CASE f.kind = "resync" -> TRUE
                          [] f.kind = "sync" -> FALSE
                          [] OTHER -> @]
      /\ UNCHANGED <<rosterVars, conn, banned, ending>>

-----------------------------------------------------------------------------
\* The steps a connection task takes by itself.
TaskStep(c) ==
  \/ LoginReply(c) \/ ResumeReply(c) \/ ResumeReplay(c) \/ ResumeDone(c)
  \/ Take(c) \/ SendEvents(c) \/ NoMoreEvents(c) \/ LagExit(c) \/ Replaced(c)
  \/ SyncDrain(c) \/ SyncDrained(c) \/ SyncReply(c)
  \/ \E over \in SUBSET Sessions :
       \/ LoginAnnounce(c, over)
       \/ ResumeGone(c, over)
       \/ \E s \in Sessions : ResumeBanned(c, s, over)
       \/ \E shown \in BOOLEAN : ResumeTakes(c, shown, over)
       \/ ResumeLost(c, over)
       \/ EndKicked(c, over)
       \/ ConnectionLost(c, over)
       \/ LetGo(c, over)

\* What the network, the peer and faults make a connection task do.
TaskFault(c) ==
  \/ ResumeLimited(c) \/ ResumeFails(c) \/ SendKickedFails(c)
  \/ ConnFails(c) \/ Panic(c)
  \/ \E over \in SUBSET Sessions : LoginFails(c, over)

\* The requests a client sends on a connection.
TaskRequest(c) ==
  \/ SyncStart(c)
  \/ \E over \in SUBSET Sessions : Logout(c, over)

ServerStep ==
  \E over \in SUBSET Sessions :
    \/ \E s \in Sessions : Publish(s, over) \/ Kick(s, over)
    \/ EndRevoked(over)
    \/ \E t \in 1..(clock - 1) : Sweep(t, over)

Next ==
  \/ \E c \in Conns : TaskStep(c) /\ UNCHANGED cli
  \/ \E c \in Conns : TaskFault(c) /\ UNCHANGED cli
  \/ \E c \in Conns : TaskRequest(c) /\ UNCHANGED cli
  \/ ServerStep /\ UNCHANGED cli
  \/ \E s \in Sessions : (Ban(s) \/ Revoke(s)) /\ UNCHANGED cli
  \/ \E c \in Conns, s \in Sessions : ClientLogin(c, s) \/ ClientResume(c, s)
  \/ \E s \in Sessions : ClientReads(s)

Spec == Init /\ [][Next]_vars

-----------------------------------------------------------------------------
(* What a client is promised.                                              *)

Stream ==
  INSTANCE EventStream WITH
    pushed <- [s \in Sessions |-> sess[s].next - 1],
    applied <- [s \in Sessions |-> cli[s].last],
    stale <- [s \in Sessions |-> cli[s].stale]

\* Across detaching, resuming, takeovers, lagging and panics, a client that
\* is not told to resync receives every event of its session once and in
\* order, and it is told so only when it lacks one (Outbox::push,
\* resume_locked, handle_resume, handle_sync).
StreamSpec == Stream!Spec

\* Whatever a client was told, an event it receives is newer than all it had
\* before: nothing is sent twice, and nothing at or below a sync's seq is
\* sent after that sync's reply (handle_sync drains after it reads the seq,
\* and writes the events already taken before either).
NeverTwice ==
  [][\A s \in Sessions :
       ClientReads(s) /\ Head(wire[cli[s].conn]).kind = "event"
         => cli'[s].last > cli[s].last]_vars

-----------------------------------------------------------------------------
(* Who holds a session, and how it ends.                                   *)

\* A sink never keeps a connection whose task has ended: a session nobody
\* attends would neither detach nor be swept, and would stay on the roster
\* for good (every exit of run, and HeldSession when the task panics).
NoOrphan ==
  \A s \in Here(sess) :
    sess[s].sink \in {"live", "lagged"} => conn[sess[s].conn].pc \in Attending

\* A kicked session is never kept for a resume (kick_in, lose, resume).
KickedNeverDetached ==
  \A s \in Buffering(sess) : ~sess[s].kicked

\* No address keeps more detached sessions than the cap (lose).
DetachedCap ==
  \A s \in Sessions : Cardinality(DetachedFrom(sess, s)) <= MaxDetached

\* A connection detaches only the session it holds itself: what the comment
\* on connection_lost_from and the one in run promise, and what the `lost`
\* closure of handle_resume does not keep.
OnlyHolderDetaches ==
  [][\A s \in Sessions, c \in Conns :
       Holds(s, c) /\ sess'[s].phase = "here" /\ sess'[s].sink = "buffering"
         => conn'[c].pc = "off"]_vars

\* A kick takes effect: the session ends, whether its connection relays the
\* Kicked, lags behind it, is lost, is taken over or panics.
KickedEnds ==
  \A s \in Sessions : (s \in Here(sess) /\ sess[s].kicked)
                        ~> (sess[s].phase = "gone")

\* So does a revocation, also against a login or a resume that races it
\* (set_revocations, attach, lose, resume_locked).
RevokedEnds ==
  \A s \in Sessions : (s \in revoked) ~> (sess[s].phase # "here")

\* A detached session is resumed or swept; it is not kept for ever.
DetachedEnds ==
  \A s \in Sessions : (s \in Buffering(sess)) ~> (s \notin Buffering(sess))

\* A connection that does not hold its session any more is closed, however
\* it lost it (the Replaced and lagged exits of run and handle_sync).
ReplacedCloses ==
  \A c \in Conns :
    (conn[c].pc \in {"run", "drain"} /\ ~Holds(Owner(c), c))
      ~> (conn[c].pc = "off")

\* Tasks are scheduled, and every write ends within PONG_DEADLINE; the
\* sweeper wakes every 15 seconds; a reread that has put a new revocation
\* list in force goes on to end_revoked.
Fairness ==
  /\ \A c \in Conns : WF_vars(TaskStep(c) /\ UNCHANGED cli)
  /\ WF_vars(\E over \in SUBSET Sessions : EndRevoked(over) /\ UNCHANGED cli)
  /\ WF_vars(\E over \in SUBSET Sessions, t \in 1..(clock - 1) :
               Sweep(t, over) /\ UNCHANGED cli)

FairSpec == Spec /\ Fairness

=============================================================================
