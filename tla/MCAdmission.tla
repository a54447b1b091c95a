---------------------------- MODULE MCAdmission ----------------------------
(***************************************************************************)
(* Admission for TLC: bob, who has a password, and guests, from addresses  *)
(* of one /48.                                                             *)
(***************************************************************************)
EXTENDS Admission

CONSTANTS wide, bob, guest, LiveBytes, SendBytes, Unbounded

\* Total is what a fold with + computes.
ASSUME TotalIsSum ==
  \A n \in 0..4 : \A q \in [1..n -> 0..3] : Total(q) = FoldSeq(+, 0, q)

MCWideOf == [a \in Addrs |-> wide]
MCShares == Conns \cup Sessions \cup {Backlog}
MCTasks == Conns \cup {Hub} \cup Writers \cup Enqueuers

\* A buffer's own bound is usize::MAX: what the bounded work never reaches.
MCOwnBound == [s \in Shares |-> IF s \in Conns THEN LiveBytes
                               ELSE IF s = Backlog THEN SendBytes
                               ELSE Unbounded]

\* Many connections, or a few that guess, or a few with something queued.
MCPlans == {[conns |-> 3, items |-> 0, fills |-> 0],
            [conns |-> 2, items |-> 0, fills |-> 1],
            [conns |-> 2, items |-> 1, fills |-> 0],
            [conns |-> 1, items |-> 2, fills |-> 0],
            [conns |-> 0, items |-> 4, fills |-> 0]}

\* Connections are alike, and so are sessions and those who enqueue.
Alike == Permutations(Conns) \cup Permutations(Sessions) \cup Permutations(Enqueuers)
=============================================================================
