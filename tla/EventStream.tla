---------------------------- MODULE EventStream ----------------------------
(***************************************************************************)
(* What hotline-ng promises a client about its session's events            *)
(* (docs/hotline-ng.md sections 3, 6.2 and 6.3), whatever happens to its   *)
(* connections.  The server has numbered `pushed` events; the client has   *)
(* received events up to `applied`.  While the client is not `stale` it    *)
(* receives each event exactly once and in order.  It becomes stale only   *)
(* by being told so, and only when it did miss an event; a sync tells it   *)
(* where to continue from.                                                 *)
(***************************************************************************)
EXTENDS Naturals

CONSTANT Sessions

VARIABLES pushed, applied, stale

streamVars == <<pushed, applied, stale>>

Init ==
  /\ pushed = [s \in Sessions |-> 0]
  /\ applied = [s \in Sessions |-> 0]
  /\ stale = [s \in Sessions |-> FALSE]

\* One critical section of the server may push events to many sessions.
Push ==
  /\ pushed' \in [Sessions -> Nat]
  /\ \A s \in Sessions : pushed'[s] >= pushed[s]
  /\ UNCHANGED <<applied, stale>>

\* The next event, and no other.
Apply(s) ==
  /\ ~stale[s]
  /\ applied[s] < pushed[s]
  /\ applied' = [applied EXCEPT ![s] = @ + 1]
  /\ UNCHANGED <<pushed, stale>>

\* resync_required: told only to a client that lacks an event.
Miss(s) ==
  /\ applied[s] < pushed[s]
  /\ stale' = [stale EXCEPT ![s] = TRUE]
  /\ UNCHANGED <<pushed, applied>>

\* An event received between resync_required and the sync reply.
Ahead(s) ==
  /\ stale[s]
  /\ applied'[s] \in (applied[s] + 1)..pushed[s]
  /\ applied' = [applied EXCEPT ![s] = applied'[s]]
  /\ UNCHANGED <<pushed, stale>>

\* A sync reply: never behind what the client has, never past the server;
\* to a client that missed nothing it changes nothing.
Sync(s) ==
  /\ stale[s]
  /\ applied'[s] \in applied[s]..pushed[s]
  /\ applied' = [applied EXCEPT ![s] = applied'[s]]
  /\ stale' = [stale EXCEPT ![s] = FALSE]
  /\ UNCHANGED pushed

Next ==
  \/ Push
  \/ \E s \in Sessions : Apply(s) \/ Miss(s) \/ Ahead(s) \/ Sync(s)

Spec == Init /\ [][Next]_streamVars
=============================================================================
