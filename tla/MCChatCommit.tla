---------------------------- MODULE MCChatCommit ----------------------------
(* ChatCommit for TLC.  Person p is connected as session x, guest v as v;  *)
(* where it matters p has a second session, y.                             *)
EXTENDS ChatCommit

CONSTANTS t1, t2, t3, l1, l2, l3, l4, g

Sessions2 == "x" :> "p" @@ "v" :> "v"
Sessions3 == "x" :> "p" @@ "y" :> "p" @@ "v" :> "v"

\* Three connections of p's; one sends two lines in one call, or in two.
ThreadsLead == l1 :> t1 @@ l2 :> t1 @@ l3 :> t2 @@ l4 :> t3
SessionsLead == [l \in Lines |-> "x"]
GuidsLead == [l \in Lines |-> NoGuid]
SaidLead == [l \in Lines |-> "unsigned"]

\* p's line is sent on one thread and session and again on others; v's is sent
\* twice on one, in one call or in two.
ThreadsOnce == l1 :> t1 @@ l2 :> t2 @@ l3 :> t2 @@ l4 :> t2
SessionsOnce == l1 :> "x" @@ l2 :> "y" @@ l3 :> "v" @@ l4 :> "v"
GuidsOnce == [l \in Lines |-> IF l = l4 THEN NoGuid ELSE g]
SaidOnce == l1 :> "c" @@ l2 :> "c" @@ l3 :> "unsigned" @@ l4 :> "unsigned"

\* p signs two lines under one guid; a third line has a guid of its own.
ThreadsSigned == l1 :> t1 @@ l2 :> t2 @@ l3 :> t1
SessionsSigned == l1 :> "x" @@ l2 :> "x" @@ l3 :> "v"
GuidsSigned == [l \in Lines |-> g]
SaidSigned == l1 :> "c" @@ l2 :> "d" @@ l3 :> "unsigned"
=============================================================================
