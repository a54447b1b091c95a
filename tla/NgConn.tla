------------------------------- MODULE NgConn -------------------------------
(***************************************************************************)
(* The ng connection task (hxd-ng-session, conn.rs): one task for each     *)
(* WebSocket.  It logs a session in or resumes one, then relays the        *)
(* session's events and answers its requests until the connection is lost, *)
(* replaced by a newer one, or the session is over.                        *)
(*                                                                         *)
(* A task is its place in the code (pc) and its locals.  Every await and    *)
(* every lock is a point at which another task may step in between.        *)
(*                                                                         *)
(*   unused -> attached -> announced -> run          handle_login          *)
(*   unused -> asked -> replying -> run              handle_resume         *)
(*   run -> drain -> syncing -> run                  handle_sync           *)
(*   ... -> lost | resumelost | kicked | replaced | panicked -> off        *)
(***************************************************************************)
EXTENDS Roster

CONSTANTS
  MaxSeq,      \* bound: the server has nothing more to say after this seq
  Kickable,    \* the sessions a run may kick
  Bannable,    \* the sessions a run may ban
  Revocable,   \* the sessions whose key a run may revoke
  Asking,      \* the connections on which a client may sync
  Quitting,    \* those on which it may log out
  Faulty       \* the connections whose task may panic

ASSUME NgConnAssumption ==
  /\ MaxSeq \in Nat
  /\ Kickable \subseteq Sessions
  /\ Bannable \subseteq Sessions
  /\ Revocable \subseteq Sessions
  /\ Asking \subseteq Conns
  /\ Quitting \subseteq Conns
  /\ Faulty \subseteq Conns

VARIABLES
  conn,     \* each connection's task
  wire,     \* the frames written to each connection and not yet read
  banned,   \* the people a ban refuses at the door, by their session
  ending    \* a new revocation list is in force and end_revoked is to come

connVars == <<conn, wire, banned, ending>>

PCs == {"unused", "attached", "announced", "asked", "replying", "run",
        "drain", "syncing", "lost", "resumelost", "kicked", "replaced",
        "panicked", "off"}

\* The task is past its handshake's first step and has not ended.
Attending == {"attached", "announced", "replying", "run", "drain", "syncing",
              "lost", "resumelost", "kicked", "panicked"}

\* last: the resume request's last_seq.  out: events taken from the channel
\* or the replay buffer and not yet written (held, batch, replay).  sent: the
\* stream position of what was written.  mark, kick: handle_sync's locals.
\* reply: what handle_resume has to answer.  detach: hold()'s last argument.
\* peer: a client still reads the other end of the socket.
Task ==
  [pc: PCs, peer: BOOLEAN, last: Nat, out: Seq(Nat), sent: Nat, mark: Nat, kick: BOOLEAN,
   reply: {"none", "ok", "resync"}, detach: BOOLEAN]

\* A frame: an event with its seq, a reply, or a Close with its reason.
\* `at` is an event's or a sync reply's seq; for the other frames it is where
\* in the event stream they were written, which the client is not told.
Frame ==
  [kind: {"hello", "ok", "resync", "event", "sync", "expired", "refused",
          "replaced", "bye"}, at: Nat]

F(kind, at) == [kind |-> kind, at |-> at]

ConnTypeOK ==
  /\ conn \in [Conns -> Task]
  /\ wire \in [Conns -> Seq(Frame)]
  /\ banned \subseteq Sessions
  /\ ending \in BOOLEAN

NewTask ==
  [pc |-> "unused", peer |-> FALSE, last |-> 0, out |-> <<>>, sent |-> 0,
   mark |-> 0, kick |-> FALSE, reply |-> "none", detach |-> FALSE]

ConnInit ==
  /\ conn = [c \in Conns |-> NewTask]
  /\ wire = [c \in Conns |-> <<>>]
  /\ banned = {}
  /\ ending = FALSE

Owner(c) == chan[c].owner
At(c, pc) == conn[c].pc = pc
Goto(c, pc) == conn' = [conn EXCEPT ![c].pc = pc]

\* The task returns: its locals are gone.
End(c) ==
  conn' = [conn EXCEPT
             ![c] = [NewTask EXCEPT !.pc = "off", !.peer = conn[c].peer]]

\* Frames nobody will read are not kept.
Write(c, frames) ==
  wire' = [wire EXCEPT ![c] = IF conn[c].peer THEN @ \o frames ELSE @]

\* The events `seqs` as frames.
EventFrames(seqs) == [i \in 1..Len(seqs) |-> F("event", seqs[i])]

\* A Kicked is among the events taken.
HasKick(c) ==
  \E i \in 1..Len(conn[c].out) : conn[c].out[i] \in sess[Owner(c)].kicks

-----------------------------------------------------------------------------
(* handle_login.                                                           *)

\* The door refuses the banned; attach refuses the revoked.
LoginAttach(c, s) ==
  /\ At(c, "unused")
  /\ s \notin banned
  /\ Attach(s, c)
  /\ conn' = [conn EXCEPT ![c].pc = "attached", ![c].peer = TRUE]
  /\ UNCHANGED <<clock, revoked, wire, banned, ending>>

LoginAnnounce(c, over) ==
  /\ At(c, "attached")
  /\ Announce(Owner(c), over)
  /\ Goto(c, "announced")
  /\ UNCHANGED <<clock, revoked, wire, banned, ending>>

LoginReply(c) ==
  /\ At(c, "announced")
  /\ conn' = [conn EXCEPT ![c].pc = "run", ![c].detach = TRUE]
  /\ Write(c, <<F("hello", 0)>>)
  /\ UNCHANGED <<rosterVars, banned, ending>>

\* Mutant of LoginFails: the task returns and the session stays.
LoginFailsQuietly(c, over) ==
  /\ conn[c].pc \in {"attached", "announced"}
  /\ chan' = Dropped(c)
  /\ End(c)
  /\ UNCHANGED <<sess, clock, revoked, wire, banned, ending>>

\* Banned or deleted while attaching, no token to be had, or the reply
\* could not be sent: nobody holds a token to this session, so it ends.
LoginFails(c, over) ==
  /\ conn[c].pc \in {"attached", "announced"}
  /\ EndSessions({Owner(c)}, Dropped(c), over)
  /\ End(c)
  /\ UNCHANGED <<clock, revoked, wire, banned, ending>>

-----------------------------------------------------------------------------
(* handle_resume, for a request whose token the registry accepted.         *)

\* end_if_person_banned ends the session; an account at its connection
\* limit (admit_resume) leaves it as it was.
ResumeBanned(c, s, over) ==
  /\ At(c, "asked")
  /\ Owner(c) = s
  /\ s \in banned
  /\ EndSessions({s}, Dropped(c), over)
  /\ End(c)
  /\ Write(c, <<F("refused", 0)>>)
  /\ UNCHANGED <<clock, revoked, banned, ending>>

ResumeLimited(c) ==
  /\ At(c, "asked")
  /\ Owner(c) \in Here(sess) \ banned
  /\ End(c)
  /\ Write(c, <<F("refused", 0)>>)
  /\ UNCHANGED <<rosterVars, banned, ending>>

ResumeGone(c, over) ==
  /\ At(c, "asked")
  /\ Owner(c) \notin banned
  /\ ResumeOutcome(Owner(c), conn[c].last) = "gone"
  /\ EndSessions({Owner(c)}, Dropped(c), over)
  /\ End(c)
  /\ Write(c, <<F("expired", 0)>>)
  /\ UNCHANGED <<clock, revoked, banned, ending>>

\* The session changes hands here; the reply is written after an await.
ResumeTakes(c, shown, over) ==
  LET s == Owner(c)
      last == conn[c].last
      outcome == ResumeOutcome(s, last)
  IN  /\ At(c, "asked")
      /\ s \notin banned
      /\ outcome # "gone"
      /\ Resume(s, c, last, shown, over)
      /\ conn' = [conn EXCEPT
           ![c].pc = "replying",
           ![c].detach = TRUE,
           ![c].reply = IF outcome = "replayed" THEN "ok" ELSE "resync",
           ![c].out = IF outcome = "replayed" THEN ReplayOf(s, last) ELSE <<>>,
           ![c].sent = IF outcome = "replayed" THEN last
                                               ELSE sess[s].next - 1]
      /\ UNCHANGED <<clock, revoked, wire, banned, ending>>

\* The reply and the replay are written frame by frame.
ResumeReply(c) ==
  /\ At(c, "replying")
  /\ conn[c].reply # "none"
  /\ Write(c, <<F(conn[c].reply, conn[c].sent)>>)
  /\ conn' = [conn EXCEPT ![c].reply = "none"]
  /\ UNCHANGED <<rosterVars, banned, ending>>

ResumeReplay(c) ==
  /\ At(c, "replying")
  /\ conn[c].reply = "none"
  /\ conn[c].out # <<>>
  /\ Write(c, <<F("event", Head(conn[c].out))>>)
  /\ conn' = [conn EXCEPT ![c].out = Tail(@), ![c].sent = Head(conn[c].out)]
  /\ UNCHANGED <<rosterVars, banned, ending>>

ResumeDone(c) ==
  /\ At(c, "replying")
  /\ conn[c].reply = "none"
  /\ conn[c].out = <<>>
  /\ Goto(c, "run")
  /\ UNCHANGED <<rosterVars, wire, banned, ending>>

\* A frame of the handshake could not be sent.
ResumeFails(c) ==
  /\ At(c, "replying")
  /\ Goto(c, "resumelost")
  /\ UNCHANGED <<rosterVars, wire, banned, ending>>

\* The `lost` closure: connection_lost, whoever holds the session by now.
ResumeLost(c, over) ==
  /\ At(c, "resumelost")
  /\ Lose(Owner(c), Dropped(c), over)
  /\ End(c)
  /\ UNCHANGED <<revoked, wire, banned, ending>>

-----------------------------------------------------------------------------
(* The main loop: events out.                                              *)

\* events.recv() or try_recv(): one more event for the batch, which ends
\* with a Kicked.
Take(c) ==
  /\ At(c, "run")
  /\ chan[c].queue # <<>>
  /\ ~HasKick(c)
  /\ conn' = [conn EXCEPT ![c].out = Append(@, Head(chan[c].queue))]
  /\ chan' = [chan EXCEPT ![c].queue = Tail(@)]
  /\ UNCHANGED <<sess, clock, revoked, wire, banned, ending>>

\* Mutant of SendEvents: a Kicked is an event like any other.
SendEventsOnly(c) ==
  LET out == conn[c].out
  IN  /\ At(c, "run")
      /\ out # <<>>
      /\ Write(c, EventFrames(out))
      /\ conn' = [conn EXCEPT ![c].out = <<>>, ![c].sent = out[Len(out)]]
      /\ UNCHANGED <<rosterVars, banned, ending>>

\* send_events: the batch is written; with a Kicked in it the session is
\* over, even when the write failed.
SendEvents(c) ==
  LET out == conn[c].out
  IN  /\ At(c, "run")
      /\ out # <<>>
      /\ Write(c, EventFrames(out))
      /\ conn' = [conn EXCEPT ![c].pc = IF HasKick(c) THEN "kicked" ELSE @,
                              ![c].out = <<>>, ![c].sent = out[Len(out)]]
      /\ UNCHANGED <<rosterVars, banned, ending>>

SendKickedFails(c) ==
  /\ At(c, "run")
  /\ HasKick(c)
  /\ Goto(c, "kicked")
  /\ UNCHANGED <<rosterVars, wire, banned, ending>>

\* end_kicked.
EndKicked(c, over) ==
  /\ At(c, "kicked")
  /\ EndSessions({Owner(c)}, Dropped(c), over)
  /\ End(c)
  /\ Write(c, <<F("bye", conn[c].sent)>>)
  /\ UNCHANGED <<clock, revoked, banned, ending>>

\* Mutant of NoMoreEvents: a closed queue is only noticed when it lags.
NoMoreEventsIfLagged(c) ==
  /\ At(c, "run")
  /\ conn[c].out = <<>>
  /\ chan[c].queue = <<>>
  /\ ~TxOpen(c)
  /\ chan[c].lagged
  /\ Goto(c, "lost")
  /\ UNCHANGED <<rosterVars, wire, banned, ending>>

\* recv() is None: every sender is gone and the queue is empty.
NoMoreEvents(c) ==
  /\ At(c, "run")
  /\ conn[c].out = <<>>
  /\ chan[c].queue = <<>>
  /\ ~TxOpen(c)
  /\ Goto(c, IF chan[c].lagged THEN "lost" ELSE "replaced")
  /\ UNCHANGED <<rosterVars, wire, banned, ending>>

\* lag.wait(), in the loop's select or in send_events'.
LagExit(c) ==
  /\ At(c, "run")
  /\ chan[c].lagged
  /\ Goto(c, "lost")
  /\ UNCHANGED <<rosterVars, wire, banned, ending>>

Replaced(c) ==
  /\ At(c, "replaced")
  /\ chan' = Dropped(c)
  /\ End(c)
  /\ Write(c, <<F("replaced", conn[c].sent)>>)
  /\ UNCHANGED <<sess, clock, revoked, banned, ending>>

-----------------------------------------------------------------------------
(* The main loop: requests in.  Events already taken are written first.    *)

\* Mutant of SyncStart: a held event is not written before the sync.
SyncStartHolding(c) ==
  /\ c \in Asking
  /\ At(c, "run")
  /\ conn[c].peer
  /\ \A i \in 1..Len(wire[c]) : wire[c][i].kind # "sync"
  /\ conn' = [conn EXCEPT ![c].pc = "drain", ![c].kick = FALSE,
                          ![c].mark = CurrentSeq(Owner(c))]
  /\ UNCHANGED <<rosterVars, wire, banned, ending>>

\* handle_sync reads the seq first and then drains the queue.  The client
\* does not ask again before it has read the last answer (a bound).
SyncStart(c) ==
  /\ c \in Asking
  /\ At(c, "run")
  /\ conn[c].out = <<>>
  /\ conn[c].peer
  /\ \A i \in 1..Len(wire[c]) : wire[c][i].kind # "sync"
  /\ conn' = [conn EXCEPT ![c].pc = "drain", ![c].kick = FALSE,
                          ![c].mark = CurrentSeq(Owner(c))]
  /\ UNCHANGED <<rosterVars, wire, banned, ending>>

SyncDrain(c) ==
  LET seq == Head(chan[c].queue)
  IN  /\ At(c, "drain")
      /\ chan[c].queue # <<>>
      /\ chan' = [chan EXCEPT ![c].queue = Tail(@)]
      /\ Write(c, <<F("event", seq)>>)
      /\ conn' = [conn EXCEPT
           ![c].mark = IF seq > @ THEN seq ELSE @,
           ![c].kick = @ \/ seq \in sess[Owner(c)].kicks,
           ![c].sent = seq]
      /\ UNCHANGED <<sess, clock, revoked, banned, ending>>

\* Empty, or Disconnected: the session was taken over, ended or lagged.
SyncDrained(c) ==
  /\ At(c, "drain")
  /\ chan[c].queue = <<>>
  /\ Goto(c, IF TxOpen(c) THEN IF conn[c].kick THEN "kicked" ELSE "syncing"
             ELSE IF chan[c].lagged THEN "lost" ELSE "replaced")
  /\ UNCHANGED <<rosterVars, wire, banned, ending>>

SyncReply(c) ==
  /\ At(c, "syncing")
  /\ Write(c, <<F("sync", conn[c].mark)>>)
  /\ Goto(c, "run")
  /\ UNCHANGED <<rosterVars, banned, ending>>

\* The logout request: end_session by uid, whoever holds it by now.
Logout(c, over) ==
  /\ c \in Quitting
  /\ At(c, "run")
  /\ conn[c].out = <<>>
  /\ EndSessions({Owner(c)}, Dropped(c), over)
  /\ End(c)
  /\ Write(c, <<F("bye", conn[c].sent)>>)
  /\ UNCHANGED <<clock, revoked, banned, ending>>

-----------------------------------------------------------------------------
(* Failures.                                                               *)

\* Closed by the peer, a write that failed or timed out, no pong, or a
\* frame that does not parse.
ConnFails(c) ==
  /\ conn[c].pc \in {"run", "drain", "syncing"}
  /\ ~HasKick(c)
  /\ Goto(c, "lost")
  /\ UNCHANGED <<rosterVars, wire, banned, ending>>

\* Exit::ConnectionLost: connection_lost_from.
ConnectionLost(c, over) ==
  /\ At(c, "lost")
  /\ LoseFrom(Owner(c), c, Dropped(c), over)
  /\ End(c)
  /\ UNCHANGED <<revoked, wire, banned, ending>>

\* The task unwinds: its receiver is dropped, and HeldSession's drop leaves
\* let_go to another thread.
Panic(c) ==
  /\ c \in Faulty
  /\ conn[c].pc \in Attending \ {"panicked"}
  /\ conn' = [conn EXCEPT ![c].pc = "panicked", ![c].out = <<>>]
  /\ chan' = Dropped(c)
  /\ UNCHANGED <<sess, clock, revoked, wire, banned, ending>>

LetGo(c, over) ==
  LET s == Owner(c)
  IN  /\ At(c, "panicked")
      /\ IF conn[c].detach THEN LoseFrom(s, c, Dropped(c), over)
         ELSE IF Holds(s, c) THEN EndSessions({s}, Dropped(c), over) /\ UNCHANGED clock
         ELSE chan' = Dropped(c) /\ UNCHANGED <<sess, clock>>
      /\ End(c)
      /\ UNCHANGED <<revoked, wire, banned, ending>>

-----------------------------------------------------------------------------
(* The rest of the server.                                                 *)

Publish(s, over) ==
  /\ sess[s].next <= MaxSeq
  /\ SendTo(s, over)
  /\ UNCHANGED <<clock, revoked, connVars>>

\* kick_in or end_refused; once for each session (a bound).
Kick(s, over) ==
  /\ s \in Kickable \cap Here(sess)
  /\ ~sess[s].kicked
  /\ KickAll({s}, TRUE, over)
  /\ UNCHANGED <<clock, revoked, connVars>>

\* A ban that ends nothing by itself: placed from the command line, or
\* sparing this session.
Ban(s) ==
  /\ s \in Bannable \ banned
  /\ banned' = banned \cup {s}
  /\ UNCHANGED <<rosterVars, conn, wire, ending>>

\* set_revocations: the list first, under its own lock ...
Revoke(s) ==
  /\ s \in Revocable \ revoked
  /\ revoked' = revoked \cup {s}
  /\ ending' = TRUE
  /\ UNCHANGED <<sess, chan, clock, conn, wire, banned>>

\* ... and then end_revoked, under the roster's.
EndRevoked(over) ==
  /\ ending
  /\ ending' = FALSE
  /\ KickAll(Here(sess) \cap revoked, FALSE, over)
  /\ UNCHANGED <<clock, revoked, conn, wire, banned>>

\* The sweeper task.
Sweep(t, over) ==
  /\ SweepDetached(t, over)
  /\ UNCHANGED <<clock, revoked, connVars>>

=============================================================================
