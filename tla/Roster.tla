------------------------------- MODULE Roster -------------------------------
(***************************************************************************)
(* The roster's sessions and their outboxes (hxd-core, roster.rs).         *)
(*                                                                         *)
(* A session outlives its connections.  Its outbox numbers every event and *)
(* hands it to the session's sink: the queue of the one connection that    *)
(* holds the session ("live"), nowhere once that connection has fallen too *)
(* far behind ("lagged"), or a bounded replay buffer while no connection   *)
(* holds it ("buffering").  Everything here runs under the roster lock, so *)
(* each operator below is the whole effect of one critical section:        *)
(* a change of the sessions (S) followed by the events it makes the roster *)
(* push (N, a count for each session).                                     *)
(*                                                                         *)
(* An event is its seq; what it says does not matter here, except that     *)
(* `kicks` remembers which seqs of a session are Event::Kicked.            *)
(***************************************************************************)
EXTENDS Integers, Sequences, FiniteSets

CONSTANTS
  Sessions,     \* every session a run may attach, in place of uid + serial
  Conns,        \* every connection a run may open; none is used twice
  NoConn,       \* stands for "no connection"
  QueueCap,     \* LIVE_QUEUE_CAP: events one live connection may be behind
  BufferCap,    \* OUTBOX_BUFFER_CAP: events held for a detached session
  CanDetach,    \* the sessions whose account lets them detach
  Addr,         \* the address each session logged in from
  MaxDetached   \* max_detached_per_addr

ASSUME CapsAssumption ==
  /\ QueueCap \in Nat \ {0}
  /\ BufferCap \in Nat \ {0}
  /\ MaxDetached \in Nat

ASSUME SessionsAssumption ==
  /\ IsFiniteSet(Sessions)
  /\ CanDetach \subseteq Sessions
  /\ DOMAIN Addr = Sessions
  /\ Sessions # {}
  /\ NoConn \notin Conns

VARIABLES
  sess,     \* RosterInner.users: each session, with its outbox
  chan,     \* each connection's event channel (Events and ConnState)
  clock,    \* Instant::now(), ticking once for each session that detaches
  revoked   \* the sessions whose key the revocation list refuses

rosterVars == <<sess, chan, clock, revoked>>

SinkKinds == {"none", "live", "lagged", "buffering"}

Session ==
  [phase: {"none", "here", "gone"}, visible: BOOLEAN, kicked: BOOLEAN,
   next: Nat, kicks: SUBSET Nat,
   sink: SinkKinds, conn: Conns \cup {NoConn},
   start: Nat, buf: Seq(Nat), broken: BOOLEAN, since: Nat]

\* An event channel: what is queued in it, whether its connection was told
\* that it lags, whether its receiving half still exists, and its session.
Channel ==
  [queue: Seq(Nat), lagged: BOOLEAN, rx: BOOLEAN, owner: Sessions]

NoSession ==
  [phase |-> "none", visible |-> FALSE, kicked |-> FALSE,
   next |-> 1, kicks |-> {},
   sink |-> "none", conn |-> NoConn,
   start |-> 1, buf |-> <<>>, broken |-> FALSE, since |-> 0]

RosterTypeOK ==
  /\ sess \in [Sessions -> Session]
  /\ chan \in [Conns -> Channel]
  /\ clock \in Nat
  /\ revoked \subseteq Sessions

\* A new channel, and what is left of one when its receiver is dropped.
NewChannel(s) ==
  [queue |-> <<>>, lagged |-> FALSE, rx |-> TRUE, owner |-> s]

Dropped(c) ==
  [chan EXCEPT ![c].queue = <<>>, ![c].lagged = FALSE, ![c].rx = FALSE]

RosterInit ==
  /\ sess = [s \in Sessions |-> NoSession]
  /\ chan = [c \in Conns |->
               [queue |-> <<>>, lagged |-> FALSE, rx |-> FALSE,
                owner |-> CHOOSE s \in Sessions : TRUE]]
  /\ clock = 1
  /\ revoked = {}

-----------------------------------------------------------------------------
(* Reading the roster.                                                     *)

Here(S) == {s \in Sessions : S[s].phase = "here"}
Visible(S) == {s \in Here(S) : S[s].visible}
Buffering(S) == {s \in Here(S) : S[s].sink = "buffering"}

\* holds: connection c is the one the session's sink delivers to, or did
\* until it lagged.
Holds(s, c) ==
  /\ sess[s].phase = "here"
  /\ sess[s].sink \in {"live", "lagged"}
  /\ sess[s].conn = c

\* The channel's sending half exists: the sink still is Live with it.
TxOpen(c) ==
  LET s == chan[c].owner
  IN  sess[s].phase = "here" /\ sess[s].sink = "live" /\ sess[s].conn = c

\* Mutant of CurrentSeq: one too low.
CurrentSeqTooLow(s) == IF sess[s].phase = "here" THEN sess[s].next - 2 ELSE 0

\* current_seq, 0 for a session that is gone.
CurrentSeq(s) == IF sess[s].phase = "here" THEN sess[s].next - 1 ELSE 0

-----------------------------------------------------------------------------
(* Outbox::push, N[s] times for each session s.                            *)
(*                                                                         *)
(* `over` are the sessions for which the byte budgets (LIVE_QUEUE_BYTES and *)
(* the server-wide QueueBudget) bind before the event counts do: they      *)
(* refuse any event behind another one, never a first one.                 *)

Run(from, n) == [i \in 1..n |-> from + i - 1]

Bound(s, cap, over) == IF s \in over THEN 1 ELSE cap

Queued(S, C, s) == IF S[s].sink = "live" THEN Len(C[S[s].conn].queue)
                                         ELSE Len(S[s].buf)

Cap(S, s, over) ==
  Bound(s, IF S[s].sink = "live" THEN QueueCap ELSE BufferCap, over)

\* The push that finds no room: try_send says Full, or the buffer is full.
\* A channel whose receiver is gone (Closed) takes the event and loses it.
Overflows(S, C, N, over, s) ==
  /\ S[s].sink \in {"live", "buffering"}
  /\ S[s].sink = "live" => C[S[s].conn].rx
  /\ N[s] > 0
  /\ Queued(S, C, s) + N[s] > Cap(S, s, over)

\* How many of the N[s] events a live queue takes before it is full.
Taken(S, C, N, over, s) ==
  IF ~Overflows(S, C, N, over, s) THEN N[s]
  ELSE IF Queued(S, C, s) >= Cap(S, s, over) THEN 0
  ELSE Cap(S, s, over) - Queued(S, C, s)

\* Mutant of PushSession: a full buffer drops the event and says nothing.
PushSessionSilently(S, C, N, over, s) ==
  LET full == Overflows(S, C, N, over, s)
  IN  [S[s] EXCEPT
         !.next = @ + N[s],
         !.sink = IF @ = "live" /\ full THEN "lagged" ELSE @,
         !.buf = IF S[s].sink # "buffering" \/ S[s].broken \/ full THEN @
                 ELSE @ \o Run(S[s].next, N[s])]

PushSession(S, C, N, over, s) ==
  LET full == Overflows(S, C, N, over, s)
  IN  [S[s] EXCEPT
         !.next = @ + N[s],
         !.sink = IF @ = "live" /\ full THEN "lagged" ELSE @,
         !.broken = @ \/ (S[s].sink = "buffering" /\ full),
         !.buf = IF S[s].sink # "buffering" \/ S[s].broken THEN @
                 ELSE IF full THEN <<>>
                 ELSE @ \o Run(S[s].next, N[s])]

\* A channel with the n events from `from` on queued; lag: it was full.
Longer(o, from, n, lag) ==
  [o EXCEPT !.queue = @ \o Run(from, n), !.lagged = @ \/ lag]

PushChannel(S, C, N, over, c) ==
  LET s == C[c].owner
  IN  IF S[s].sink = "live" /\ S[s].conn = c /\ C[c].rx
      THEN Longer(C[c], S[s].next, Taken(S, C, N, over, s),
                  Overflows(S, C, N, over, s))
      ELSE C[c]

\* The roster after the sessions became S and the channels C, and N events
\* were pushed to each session still here.
Deliver(S, C, N, over) ==
  /\ sess' = [s \in Sessions |-> IF S[s].phase = "here"
                                 THEN PushSession(S, C, N, over, s) ELSE S[s]]
  /\ chan' = [c \in Conns |-> IF S[C[c].owner].phase = "here"
                              THEN PushChannel(S, C, N, over, c) ELSE C[c]]

\* broadcast: one event to every visible session outside X.
Broadcast(S, X) == [t \in Sessions |-> IF t \in Visible(S) \ X THEN 1 ELSE 0]

Nothing == [t \in Sessions |-> 0]

Plus(N, M) == [t \in Sessions |-> N[t] + M[t]]

-----------------------------------------------------------------------------
(* Ending sessions: RosterInner::end_session for each member of V, with    *)
(* the Parted each visible one leaves behind.                              *)

Removed(S, V) ==
  [s \in Sessions |->
     IF s \in V
     THEN [NoSession EXCEPT !.phase = "gone", !.next = S[s].next,
                            !.kicked = S[s].kicked, !.kicks = S[s].kicks]
     ELSE S[s]]

Parted(S, V) ==
  [t \in Sessions |-> IF t \in Visible(S) \ V
                      THEN Cardinality(V \cap Visible(S)) ELSE 0]

EndSessions(V, C, over) ==
  LET W == V \cap Here(sess)
  IN  Deliver(Removed(sess, W), C, Parted(sess, W), over)

-----------------------------------------------------------------------------
(* Attaching and announcing.                                               *)

\* Mutant of Attach: the revocation list is not asked under the lock.
AttachUnasked(s, c) ==
  /\ sess[s].phase = "none"
  /\ sess' = [sess EXCEPT ![s] = [NoSession EXCEPT !.phase = "here",
                                                  !.sink = "live",
                                                  !.conn = c]]
  /\ chan' = [chan EXCEPT ![c] = NewChannel(s)]

\* Core::attach: a session nobody sees yet, live with a new channel.
\* Refused under the roster lock when the key is revoked.
Attach(s, c) ==
  /\ sess[s].phase = "none"
  /\ s \notin revoked
  /\ sess' = [sess EXCEPT ![s] = [NoSession EXCEPT !.phase = "here",
                                                  !.sink = "live",
                                                  !.conn = c]]
  /\ chan' = [chan EXCEPT ![c] = NewChannel(s)]

\* Core::announce: the session becomes visible and the others hear Joined.
Announce(s, over) ==
  IF sess[s].phase = "here" /\ ~sess[s].visible
  THEN Deliver([sess EXCEPT ![s].visible = TRUE], chan,
               Broadcast(sess, {s}), over)
  ELSE UNCHANGED <<sess, chan>>

-----------------------------------------------------------------------------
(* Losing a connection: Core::lose.                                        *)

DetachedFrom(S, s) == {t \in Buffering(S) : Addr[t] = Addr[s]}

\* Mutant of OverCap: off by one.
OverCapByOne(S, s) ==
  {t \in DetachedFrom(S, s) :
     Cardinality({u \in DetachedFrom(S, s) : S[u].since > S[t].since})
       > MaxDetached}

\* The per-address cap ends the oldest until MaxDetached are left.
OverCap(S, s) ==
  {t \in DetachedFrom(S, s) :
     Cardinality({u \in DetachedFrom(S, s) : S[u].since > S[t].since})
       >= MaxDetached}

\* Mutant of EndsWhenLost: a kicked session detaches like any other.
EndsWhenLostUnlessKicked(s) == s \notin CanDetach \/ s \in revoked

EndsWhenLost(s) == s \notin CanDetach \/ sess[s].kicked \/ s \in revoked

Detached(s) ==
  [sess EXCEPT ![s].sink = "buffering", ![s].conn = NoConn,
               ![s].start = sess[s].next, ![s].buf = <<>>,
               ![s].broken = (sess[s].sink = "lagged"),
               ![s].since = clock]

\* C: the channels, the caller's own being dropped.
Lose(s, C, over) ==
  IF sess[s].phase # "here" THEN chan' = C /\ UNCHANGED <<sess, clock>>
  ELSE IF EndsWhenLost(s) THEN EndSessions({s}, C, over) /\ UNCHANGED clock
  ELSE LET S == Detached(s)
           V == OverCap(S, s)
           status == IF sess[s].sink # "buffering" /\ sess[s].visible
                     THEN Broadcast(S, V) ELSE Nothing
       IN  /\ Deliver(Removed(S, V), C, Plus(status, Parted(S, V)), over)
           /\ clock' = clock + 1

\* connection_lost_from and let_go: only by the connection that holds it.
LoseFrom(s, c, C, over) ==
  IF Holds(s, c) THEN Lose(s, C, over)
                 ELSE chan' = C /\ UNCHANGED <<sess, clock>>

-----------------------------------------------------------------------------
(* Resuming: Core::resume_locked as resume_sealed calls it.                *)

\* Mutant of ResumeOutcome: the buffer is taken to begin one seq earlier.
ResumeOutcomeOneShort(s, last) ==
  LET o == sess[s]
  IN  IF o.phase # "here" \/ o.kicked \/ s \in revoked THEN "gone"
      ELSE IF \/ /\ o.sink = "buffering"
                 /\ ~o.broken
                 /\ last + 2 >= o.start
                 /\ last + 1 <= o.next
              \/ o.sink = "live" /\ last + 1 = o.next
      THEN "replayed"
      ELSE "resync"

ResumeOutcome(s, last) ==
  LET o == sess[s]
  IN  IF o.phase # "here" \/ o.kicked \/ s \in revoked THEN "gone"
      ELSE IF \/ /\ o.sink = "buffering"
                 /\ ~o.broken
                 /\ last + 1 >= o.start
                 /\ last + 1 <= o.next
              \/ o.sink = "live" /\ last + 1 = o.next
      THEN "replayed"
      ELSE "resync"

\* The events of a queue in seq order that come after `last`.
After(queue, last) ==
  LET k == CHOOSE k \in 0..Len(queue) :
             /\ \A i \in 1..k : queue[i] <= last
             /\ \A i \in (k + 1)..Len(queue) : queue[i] > last
  IN  SubSeq(queue, k + 1, Len(queue))

\* What a resume replays: the buffered events the client has not received.
ReplayOf(s, last) ==
  IF sess[s].sink = "buffering" THEN After(sess[s].buf, last) ELSE <<>>

\* `shown`: the resume changed what the roster row of an active session
\* shows (its sealed or signing marks), and so is announced.
Resume(s, c, last, shown, over) ==
  IF ResumeOutcome(s, last) = "gone"
  THEN EndSessions({s}, chan, over)
  ELSE LET S == [sess EXCEPT ![s].sink = "live", ![s].conn = c,
                             ![s].start = 1, ![s].buf = <<>>,
                             ![s].broken = FALSE, ![s].since = 0]
           C == [chan EXCEPT ![c] = NewChannel(s)]
           changed == sess[s].visible /\ (sess[s].sink = "buffering" \/ shown)
       IN  Deliver(S, C, IF changed THEN Broadcast(S, {}) ELSE Nothing, over)

-----------------------------------------------------------------------------
(* The sweeper, moderation and revocation.                                 *)

\* Mutant of SweepDetached: the newest session is never old enough.
SweepDetachedButNewest(t, over) ==
  LET V == {s \in Buffering(sess) : sess[s].since < t}
  IN  V # {} /\ EndSessions(V, chan, over)

\* sweep_detached: every session detached at least the grace window ago.
\* Time is left open: the window has passed for those stamped up to `t`.
SweepDetached(t, over) ==
  LET V == {s \in Buffering(sess) : sess[s].since <= t}
  IN  V # {} /\ EndSessions(V, chan, over)

\* kick_in and end_refused (flag), and end_revoked (~flag): each session
\* of K is sent Kicked, and one with no connection to hear it ends here.
KickAll(K, flag, over) ==
  LET S == [s \in Sessions |->
              IF s \in K THEN [sess[s] EXCEPT
                                 !.kicked = @ \/ flag,
                                 !.kicks = @ \cup {sess[s].next}]
                         ELSE sess[s]]
      V == K \cap Buffering(sess)
      told == [t \in Sessions |-> IF t \in K \ V THEN 1 ELSE 0]
  IN  Deliver(Removed(S, V), chan, Plus(told, Parted(sess, V)), over)

\* send_to from anywhere else in the server: one event to one session.
SendTo(s, over) ==
  /\ sess[s].phase = "here"
  /\ Deliver(sess, chan, [t \in Sessions |-> IF t = s THEN 1 ELSE 0], over)

=============================================================================
