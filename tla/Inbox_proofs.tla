---------------------------- MODULE Inbox_proofs ----------------------------
(***************************************************************************)
(* Proofs about Inbox, for any number of accounts, messages, sessions and  *)
(* calls: only the owner of a mailbox is handed its mail, once, and what   *)
(* is stamped or answered delivered was handed over.                       *)
(*                                                                         *)
(* The properties are not inductive by themselves.  IInv adds, for each    *)
(* call, what it remembers across the locks it lets go:                    *)
(*   Lock      flushing is held by the call inside a flush, no other;      *)
(*   SeenInv   what a call is about to stamp was seen;                     *)
(*   BatchInv  what a flush has read are rows of its mailbox;              *)
(*   UidInv    a uid a call has named by number is still its mailbox's, or *)
(*             quarantined and nobody's;                                   *)
(*   SendInv   a send's message is known while its flush lasts;            *)
(*   OnceInv   a private message in a session's hands is stamped, about to *)
(*             be, or gone, and no flush that has read holds it;           *)
(*   LiveInv   one about to go out live has no row, or raced it.           *)
(* All of it is about messages whose guid retention has not forgotten.     *)
(* The order: types, the invariant, where each step leaves a call, then    *)
(* one section for each part.                                              *)
(***************************************************************************)
EXTENDS Inbox, SequenceTheorems, TLAPS

USE DEF seenVars

Kinds == {"none", "all", "mail", "instant"}
Dos == {"none", "send", "flush", "drain", "ack"}
Sinks == {"none", "live", "lagged", "detached"}
Answers == {"none", "delivered", "queued", "refused"}
Wires == (UNION {Wire[a] : a \in Accounts}) \cup {"ng"}
Boxes == Accounts \cup {NoAccount}
SomeMsgs == SUBSET Msgs

Users == [acct : Boxes, wire : Wires, sink : Sinks, messenger : BOOLEAN, due : BOOLEAN,
          serial : Nat, got : SomeMsgs, again : SomeMsgs, beside : SomeMsgs]

Batches == [all : SomeMsgs, mail : SomeMsgs, instant : SomeMsgs]
Reads == [Uids -> Kinds]
Mets == SUBSET (Uids \X Nat)

\* The places of a call that has a message.
Bearing == {"live", "push", "mark", "told", "tell", "slip"}

CallRecs == [pc : PCs, do : Dos, msg : Msgs \cup {NoMsg}, box : Boxes,
             by : Nat, named : Nat, on : Nat, which : Reads, batch : Batches,
             slips : SomeMsgs, given : SomeMsgs, unread : SomeMsgs, met : Mets,
             fresh : BOOLEAN, reads : BOOLEAN]

Calls == {c \in CallRecs : c.pc \in Bearing => c.msg \in Msgs}

SessTyped ==
  /\ users \in [Uids -> Users]
  /\ freed \in Seq(Uids) /\ lastUid \in Nat /\ serial \in Nat

CallTyped ==
  /\ op \in [Workers -> Calls]
  /\ flushing \in Workers \cup {NoWorker}
  /\ answer \in [Msgs -> Answers] /\ events \in Nat

HistTyped ==
  /\ reached \subseteq Msgs /\ dropped \subseteq Msgs /\ pulled \subseteq Msgs
  /\ failed \subseteq Msgs
  /\ told \in [Msgs -> Nat]

Typed == StoreTypeOK /\ SessTyped /\ CallTyped /\ HistTyped

(***************************************************************************)
(* Types.                                                                  *)
(***************************************************************************)
LEMMA EmptyTyped == {} \in SomeMsgs /\ Nobody \in Reads /\ NoBatch \in Batches
BY DEF SomeMsgs, Nobody, Reads, Kinds, NoBatch, Batches

LEMMA IdleTyped == Idle \in Calls
BY EmptyTyped, InboxAssumption DEF Idle, Calls, CallRecs, Bearing, PCs, Dos, Mets, Boxes

LEMMA NoUserTyped == NoUser \in Users
<1>1. "ng" \in Wires /\ "none" \in Sinks /\ NoAccount \in Boxes
  BY DEF Wires, Sinks, Boxes
<1> QED
  BY <1>1, EmptyTyped DEF NoUser, Users

\* A worker moved to a call leaves the others where they are.
LEMMA NowTyped ==
  ASSUME CallTyped, NEW w \in Workers, NEW c \in Calls, Now(w, c)
  PROVE  /\ op' \in [Workers -> Calls]
         /\ op'[w] = c
         /\ \A v \in Workers \ {w} : op'[v] = op[v]
BY DEF CallTyped, Now

LEMMA InitTyped == ASSUME Init PROVE Typed
<1>1. StoreTypeOK
  BY DEF Init, StoreInit, StoreTypeOK
<1>2. SessTyped
  BY NoUserTyped, EmptySeq DEF Init, SessTyped
<1>3. CallTyped
  BY IdleTyped DEF Init, CallTyped, Answers
<1>4. HistTyped
  BY DEF Init, HistTyped
<1> QED
  BY <1>1, <1>2, <1>3, <1>4 DEF Typed

\* A uid next_uid may give is one of the server's.
LEMMA NextUidTyped == ASSUME SessTyped PROVE NextUids \subseteq Uids
BY HeadTailProperties DEF SessTyped, NextUids, Lowest, After, Unused

LEMMA LoginTyped ==
  ASSUME Typed, NEW u \in Uids, NEW a \in Accounts, NEW k \in Wire[a], Login(u, a, k)
  PROVE  Typed'
<1> USE DEF Typed
<1>1. StoreTypeOK' /\ CallTyped' /\ HistTyped'
  BY DEF Login, storeVars, callVars, StoreTypeOK, CallTyped, HistTyped, Pairs
<1>2. [NoUser EXCEPT !.acct = a, !.wire = k, !.sink = "live", !.due = GetsMail(a),
                     !.serial = serial + 1] \in Users
  <2>1. GetsMail(a) \in BOOLEAN
    BY DEF GetsMail
  <2>2. k \in Wires /\ "live" \in Sinks /\ a \in Boxes
    BY DEF Wires, Sinks, Boxes
  <2>3. serial + 1 \in Nat
    BY DEF SessTyped
  <2> DEFINE d == GetsMail(a)
  <2> HIDE DEF d
  <2>4. [NoUser EXCEPT !.acct = a, !.wire = k, !.sink = "live", !.due = d,
                       !.serial = serial + 1] \in Users
    BY <2>1, <2>2, <2>3, NoUserTyped DEF Users, d
  <2> QED
    BY <2>4 DEF d
<1>3. users' \in [Uids -> Users]
  BY <1>2 DEF Login, SessTyped
<1>4. freed' \in Seq(Uids)
  <2>1. CASE Unused = {}
    <3>1. freed # <<>>
      BY <2>1 DEF Login, NextUids
    <3> QED
      BY <2>1, <3>1, HeadTailProperties DEF Login, SessTyped
  <2> QED
    BY <2>1 DEF Login, SessTyped
<1>5. lastUid' \in Nat /\ serial' \in Nat
  BY InboxAssumption DEF Login, SessTyped
<1> QED
  BY <1>1, <1>3, <1>4, <1>5 DEF SessTyped

\* Each operation of the store keeps the types of its rows.
LEMMA StoreTyped ==
  ASSUME StoreTypeOK
  PROVE  /\ \A m \in Msgs, r \in Nat : Stored(m, r) => StoreTypeOK'
         /\ \A m \in Msgs : StoredSlip(m) => StoreTypeOK'
         /\ \A S \in SomeMsgs, R \in SomeMsgs : MarkDelivered(S, R) => StoreTypeOK'
         /\ \A S \in SomeMsgs : MarkHanded(S) => StoreTypeOK'
         /\ \A S \in SomeMsgs : SlipsDelivered(S) => StoreTypeOK'
         /\ \A m \in Msgs : ReceiptTold(m) => StoreTypeOK'
         /\ \A a \in Boxes, m \in Msgs : MarkRead(a, m) => StoreTypeOK'
         /\ Age => StoreTypeOK'
<1>1. ASSUME NEW m \in Msgs, NEW r \in Nat, Stored(m, r) PROVE StoreTypeOK'
  BY <1>1 DEF Stored, StoreTypeOK, Pairs
<1>2. ASSUME NEW m \in Msgs, StoredSlip(m) PROVE StoreTypeOK'
  BY <1>2 DEF StoredSlip, StoreTypeOK, Pairs
<1>3. ASSUME NEW S \in SomeMsgs, NEW R \in SomeMsgs, MarkDelivered(S, R) PROVE StoreTypeOK'
  BY <1>3 DEF MarkDelivered, StoreTypeOK, Pairs, SomeMsgs
<1>4. ASSUME NEW S \in SomeMsgs, MarkHanded(S) PROVE StoreTypeOK'
  BY <1>4 DEF MarkHanded, StoreTypeOK, Pairs, SomeMsgs
<1>5. ASSUME NEW S \in SomeMsgs, SlipsDelivered(S) PROVE StoreTypeOK'
  BY <1>5 DEF SlipsDelivered, StoreTypeOK, Pairs
<1>6. ASSUME NEW m \in Msgs, ReceiptTold(m) PROVE StoreTypeOK'
  BY <1>6 DEF ReceiptTold, StoreTypeOK, Pairs
<1>7. ASSUME NEW a \in Boxes, NEW m \in Msgs, MarkRead(a, m) PROVE StoreTypeOK'
  BY <1>7 DEF MarkRead, UpTo, Rows, StoreTypeOK, Pairs
<1>8. ASSUME Age PROVE StoreTypeOK'
  BY <1>8 DEF Age, StoreTypeOK, Pairs
<1> QED
  BY <1>1, <1>2, <1>3, <1>4, <1>5, <1>6, <1>7, <1>8

LEMMA PruneTyped ==
  ASSUME StoreTypeOK, NEW m \in Msgs, PruneRead(m) \/ PruneSent(m) \/ PruneSlip(m)
  PROVE  StoreTypeOK'
<1>1. CASE PruneRead(m)
  BY <1>1 DEF PruneRead, Dropped, StoreTypeOK, Pairs
<1>2. CASE PruneSent(m)
  BY <1>2 DEF PruneSent, Dropped, StoreTypeOK, Pairs
<1>3. CASE PruneSlip(m)
  BY <1>3 DEF PruneSlip, SlipsDelivered, StoreTypeOK, Pairs
<1> QED
  BY <1>1, <1>2, <1>3

LEMMA FriendsTyped ==
  ASSUME StoreTypeOK, NEW p \in Pairs, Befriend(p) \/ Unfriend(p)
  PROVE  StoreTypeOK'
<1>1. CASE Befriend(p)
  BY <1>1 DEF Befriend, StoreTypeOK, Pairs
<1>2. CASE Unfriend(p)
  BY <1>2 DEF Unfriend, StoreTypeOK, Pairs
<1> QED
  BY <1>1, <1>2

\* What a session may become, and the sessions with one of them changed.
LEMMA UserTyped ==
  ASSUME SessTyped, NEW u \in Uids
  PROVE  /\ \A b \in BOOLEAN : [users[u] EXCEPT !.messenger = b] \in Users
         /\ [users[u] EXCEPT !.due = FALSE] \in Users
         /\ \A x \in Sinks, b \in BOOLEAN :
              [users[u] EXCEPT !.sink = x, !.due = b] \in Users
         /\ \A r \in Users : [users EXCEPT ![u] = r] \in [Uids -> Users]
<1>1. users[u] \in Users
  BY DEF SessTyped
<1>2. \A b \in BOOLEAN : [users[u] EXCEPT !.messenger = b] \in Users
  BY <1>1 DEF Users
<1>3. [users[u] EXCEPT !.due = FALSE] \in Users
  BY <1>1 DEF Users
<1>4. \A x \in Sinks, b \in BOOLEAN : [users[u] EXCEPT !.sink = x, !.due = b] \in Users
  BY <1>1 DEF Users
<1>5. \A r \in Users : [users EXCEPT ![u] = r] \in [Uids -> Users]
  BY DEF SessTyped
<1> QED
  BY <1>2, <1>3, <1>4, <1>5

LEMMA SessionTyped ==
  ASSUME Typed, NEW u \in Uids, Detach(u) \/ Resume(u) \/ EndSession(u)
  PROVE  Typed'
<1> USE DEF Typed
<1>1. StoreTypeOK' /\ CallTyped' /\ HistTyped'
  BY DEF Detach, Resume, EndSession, storeVars, callVars, histVars, StoreTypeOK, CallTyped,
         HistTyped, Pairs
<1>2. users' \in [Uids -> Users]
  <2>1. CASE Detach(u)
    BY <2>1, UserTyped DEF Detach, Sinks
  <2>2. CASE Resume(u)
    BY <2>2, UserTyped DEF Resume, Sinks, GetsMail
  <2>3. CASE EndSession(u)
    BY <2>3, UserTyped, NoUserTyped DEF EndSession
  <2> QED
    BY <2>1, <2>2, <2>3
<1>3. freed' \in Seq(Uids) /\ lastUid' \in Nat /\ serial' \in Nat
  <2>1. CASE Detach(u) \/ Resume(u)
    BY <2>1 DEF Detach, Resume, SessTyped
  <2>2. CASE EndSession(u)
    BY <2>2, AppendProperties DEF EndSession, SessTyped
  <2> QED
    BY <2>1, <2>2
<1> QED
  BY <1>1, <1>2, <1>3 DEF SessTyped

LEMMA SendStartTyped ==
  ASSUME Typed, NEW w \in Workers, NEW u \in Uids, NEW m \in Msgs, NEW named \in Uids \cup {0},
         SendStart(w, u, m, named)
  PROVE  Typed'
<1> USE DEF Typed
<1>1. StoreTypeOK' /\ HistTyped'
  BY DEF SendStart, storeVars, histVars, StoreTypeOK, HistTyped, Pairs
<1>2. SessTyped'
  <2>1. users[u].messenger \in BOOLEAN
    BY DEF SessTyped, Users
  <2> QED
    BY <2>1, UserTyped DEF SendStart, SessTyped
<1>3. To[m] \in Boxes /\ named \in Nat /\ u \in Nat
  BY MessageStoreAssumption, InboxAssumption DEF Boxes
<1>4. (IF m \in Ims THEN rel[Pair(m)] ELSE 0) \in Nat
  BY DEF StoreTypeOK, Pairs
<1>5. PICK pc \in {"push", "live"} :
        Now(w, [Idle EXCEPT !.pc = pc, !.do = "send", !.msg = m, !.box = To[m], !.by = u,
                !.named = named, !.on = IF m \in Ims THEN rel[Pair(m)] ELSE 0])
  BY DEF SendStart
<1>6. op' \in [Workers -> Calls]
  <2> DEFINE r == IF m \in Ims THEN rel[Pair(m)] ELSE 0
             c == [Idle EXCEPT !.pc = pc, !.do = "send", !.msg = m, !.box = To[m], !.by = u,
                               !.named = named, !.on = r]
  <2>1. c \in Calls
    <3>1. pc \in PCs /\ "send" \in Dos
      BY DEF PCs, Dos
    <3>2. r \in Nat
      BY <1>4
    <3> HIDE DEF r
    <3> QED
      BY <1>3, <3>1, <3>2, IdleTyped DEF Calls, CallRecs, Bearing
  <2>2. Now(w, c)
    BY <1>5
  <2> HIDE DEF c
  <2> QED
    BY <2>1, <2>2, NowTyped
<1>7. CallTyped'
  BY <1>6 DEF SendStart, CallTyped
<1> QED
  BY <1>1, <1>2, <1>7

LEMMA DoneTyped ==
  ASSUME CallTyped, NEW w \in Workers, Done(w)
  PROVE  /\ op' \in [Workers -> Calls]
         /\ op'[w] = Idle
         /\ \A v \in Workers \ {w} : op'[v] = op[v]
BY IdleTyped, NowTyped DEF Done

LEMMA AnsweredTyped ==
  ASSUME CallTyped, NEW w \in Workers, NEW g, Answered(w, g)
  PROVE  /\ op' \in [Workers -> Calls]
         /\ flushing' \in Workers \cup {NoWorker}
         /\ answer' \in [Msgs -> Answers]
<1>1. op' \in [Workers -> Calls]
  BY DoneTyped DEF Answered
<1>2. answer' \in [Msgs -> Answers]
  BY DEF Answered, CallTyped, Answers
<1> QED
  BY <1>1, <1>2 DEF Answered

\* A step that only ends the call of w.
LEMMA EndsTyped ==
  ASSUME Typed, NEW w \in Workers, Done(w), UNCHANGED <<storeVars, sessVars, flushing>>,
         answer' \in [Msgs -> Answers], events' \in Nat, HistTyped'
  PROVE  Typed'
<1> USE DEF Typed
<1>1. StoreTypeOK' /\ SessTyped'
  BY DEF storeVars, sessVars, StoreTypeOK, SessTyped, Pairs
<1>2. CallTyped'
  BY DoneTyped DEF CallTyped
<1> QED
  BY <1>1, <1>2

\* What a live send does to the sessions: it notes the copy in those that are
\* live, and a full queue lags.
Noted(u, m) ==
  /\ users'[u].acct = users[u].acct /\ users'[u].wire = users[u].wire
  /\ users'[u].messenger = users[u].messenger /\ users'[u].due = users[u].due
  /\ users'[u].serial = users[u].serial
  /\ users'[u].got = users[u].got /\ users'[u].again = users[u].again
  /\ users'[u].beside \subseteq users[u].beside \cup (users[u].got \cap {m})
  /\ users'[u].sink \in {users[u].sink, "lagged"}
LEMMA SendLiveUsers ==
  ASSUME Typed, NEW w \in Workers, SendLive(w)
  PROVE  /\ users' \in [Uids -> Users]
         /\ \A u \in Uids : Noted(u, op[w].msg) /\ (users'[u] = users[u] \/ Live(u))
<1>0. users \in [Uids -> Users]
  BY DEF Typed, SessTyped
<1> DEFINE to == IF op[w].msg \in Mails THEN NamedSessions(op[w].box, op[w].named, op[w].by)
                                        ELSE {u \in SessionsOf(op[w].box) : Live(u)}
<1>1. PICK full \in SUBSET (to \cap Lagging) :
        users' = [u \in Uids |->
          CASE u \in full -> [users[u] EXCEPT !.sink = "lagged"]
            [] u \in to \ full ->
                 [users[u] EXCEPT !.beside = @ \cup (users[u].got \cap {op[w].msg})]
            [] OTHER -> users[u]]
  BY DEF SendLive
<1>2. \A u \in to : Live(u)
  BY DEF NamedSessions, AttachedOf, Lowest, Holds
<1> HIDE DEF to
<1>3. ASSUME NEW u \in Uids
      PROVE  users'[u] \in Users /\ Noted(u, op[w].msg) /\ (users'[u] = users[u] \/ Live(u))
  <2>0. users[u] \in Users
    BY <1>0
  <2>1. CASE u \in full
    <3>1. users'[u] = [users[u] EXCEPT !.sink = "lagged"]
      BY <1>1, <2>1
    <3>2. users'[u] \in Users /\ Noted(u, op[w].msg)
      BY <2>0, <3>1 DEF Users, Sinks, Noted
    <3> QED
      BY <1>2, <2>1, <3>2
  <2>2. CASE u \in to \ full
    <3> DEFINE b == users[u].beside \cup (users[u].got \cap {op[w].msg})
    <3>1. b \in SomeMsgs
      BY <2>0 DEF Users, SomeMsgs
    <3>2. users'[u] = [users[u] EXCEPT !.beside = b]
      BY <1>1, <2>2
    <3>3. b \subseteq users[u].beside \cup (users[u].got \cap {op[w].msg})
      OBVIOUS
    <3> HIDE DEF b
    <3>4. users'[u] \in Users /\ Noted(u, op[w].msg)
      BY <2>0, <3>1, <3>2, <3>3 DEF Users, Noted
    <3> QED
      BY <1>2, <2>2, <3>4
  <2>3. CASE u \notin full /\ u \notin to
    <3>1. users'[u] = users[u]
      BY <1>1, <2>3
    <3> QED
      BY <2>0, <3>1 DEF Noted
  <2> QED
    BY <2>1, <2>2, <2>3
<1>4. users' \in [Uids -> Users]
  BY <1>1, <1>3
<1> QED
  BY <1>3, <1>4

LEMMA SendEndsTyped ==
  ASSUME Typed, NEW w \in Workers,
         SendLive(w) \/ SendKnown(w) \/ SendFull(w) \/ SendFails(w)
  PROVE  Typed'
<1> USE DEF Typed
<1>1. answer' \in [Msgs -> Answers] /\ events' \in Nat
  BY DEF SendLive, SendKnown, SendFull, SendFails, CallTyped, Answers
<1>2. CASE SendLive(w)
  <2>1. StoreTypeOK' /\ HistTyped'
    BY <1>2 DEF SendLive, storeVars, StoreTypeOK, HistTyped, Pairs
  <2>2. SessTyped'
    BY <1>2, SendLiveUsers DEF SendLive, SessTyped
  <2>3. CallTyped'
    BY <1>1, <1>2, DoneTyped DEF SendLive, CallTyped
  <2> QED
    BY <2>1, <2>2, <2>3
<1>3. CASE SendKnown(w) \/ SendFull(w) \/ SendFails(w)
  BY <1>1, <1>3, EndsTyped DEF SendKnown, SendFull, SendFails, HistTyped, histVars
<1> QED
  BY <1>2, <1>3

LEMMA SendPushTyped ==
  ASSUME Typed, NEW w \in Workers, SendPush(w)
  PROVE  Typed'
<1> USE DEF Typed
<1>1. op[w] \in Calls
  BY DEF CallTyped
<1>2. op[w].msg \in Msgs /\ op[w].on \in Nat
  BY <1>1 DEF SendPush, Calls, CallRecs, Bearing
<1>3. SessTyped' /\ HistTyped'
  BY DEF SendPush, sessVars, histVars, SessTyped, HistTyped
<1>4. StoreTypeOK'
  <2>1. CASE op[w].msg \in Rows
    BY <2>1 DEF SendPush, storeVars, StoreTypeOK, Pairs
  <2>2. CASE op[w].msg \notin Rows
    BY <2>2, <1>2, StoreTyped DEF SendPush
  <2> QED
    BY <2>1, <2>2
<1>5. op' \in [Workers -> Calls]
  <2> DEFINE f == op[w].msg \notin Rows
             c == [op[w] EXCEPT !.pc = "resolve", !.fresh = f]
  <2>1. f \in BOOLEAN /\ "resolve" \in PCs
    BY DEF PCs
  <2> HIDE DEF f
  <2>2. c \in Calls
    BY <1>1, <2>1 DEF Calls, CallRecs, Bearing
  <2>3. Now(w, c)
    BY DEF SendPush, f
  <2> HIDE DEF c
  <2> QED
    BY <2>2, <2>3, NowTyped
<1>6. CallTyped'
  BY <1>5 DEF SendPush, CallTyped
<1> QED
  BY <1>3, <1>4, <1>6

LEMMA StartsTyped ==
  ASSUME Typed, NEW w \in Workers, NEW u \in Uids, FlushStart(w, u) \/ DrainStart(w, u)
  PROVE  Typed'
<1> USE DEF Typed
<1>1. StoreTypeOK' /\ HistTyped'
  BY DEF FlushStart, DrainStart, storeVars, histVars, StoreTypeOK, HistTyped, Pairs
<1>2. SessTyped'
  BY UserTyped DEF FlushStart, DrainStart, SessTyped
<1> DEFINE c(d) == [Idle EXCEPT !.pc = "lock", !.do = d, !.box = users[u].acct, !.by = u]
<1>3. \A d \in {"flush", "drain"} : c(d) \in Calls
  <2>1. users[u].acct \in Boxes /\ u \in Nat /\ "lock" \in PCs
    BY InboxAssumption DEF SessTyped, Users, PCs
  <2>2. \A d \in {"flush", "drain"} : d \in Dos
    BY DEF Dos
  <2> QED
    BY <2>1, <2>2, IdleTyped DEF Calls, CallRecs, Bearing
<1>4. \E d \in {"flush", "drain"} : Now(w, c(d))
  BY DEF FlushStart, DrainStart
<1>5. op' \in [Workers -> Calls]
  <2> HIDE DEF c
  <2> QED
    BY <1>3, <1>4, NowTyped
<1>6. CallTyped'
  BY <1>5 DEF FlushStart, DrainStart, CallTyped
<1> QED
  BY <1>1, <1>2, <1>6

\* A step of w's call that moves no session and leaves the history typed.
LEMMA MovesTyped ==
  ASSUME Typed, NEW w \in Workers, NEW c \in Calls, Now(w, c), UNCHANGED sessVars,
         StoreTypeOK', HistTyped', flushing' \in Workers \cup {NoWorker},
         answer' = answer, events' \in Nat
  PROVE  Typed'
<1> USE DEF Typed
<1>1. SessTyped'
  BY DEF sessVars, SessTyped
<1>2. CallTyped'
  BY NowTyped DEF CallTyped
<1> QED
  BY <1>1, <1>2

\* A step that ends w's flush.
LEMMA AnswersTyped ==
  ASSUME Typed, NEW w \in Workers, NEW g, Answered(w, g), UNCHANGED sessVars,
         StoreTypeOK', HistTyped', events' \in Nat
  PROVE  Typed'
<1> USE DEF Typed
<1>1. SessTyped'
  BY DEF sessVars, SessTyped
<1>2. CallTyped'
  BY AnsweredTyped DEF CallTyped
<1> QED
  BY <1>1, <1>2

LEMMA TargetsTyped == ASSUME NEW w \in Workers PROVE Targets(w) \in Reads
<1>1. \A u \in Uids : WhichOf(u) \in Kinds
  BY DEF WhichOf, Kinds
<1> QED
  BY <1>1 DEF Targets, Reads, Kinds

LEMMA ResolveTyped ==
  ASSUME Typed, NEW w \in Workers, Resolve(w)
  PROVE  Typed'
<1> USE DEF Typed
<1>1. StoreTypeOK' /\ HistTyped'
  BY DEF Resolve, storeVars, StoreTypeOK, HistTyped, Pairs
<1> DEFINE k == Targets(w)
           c == [op[w] EXCEPT !.pc = "read", !.which = k, !.by = 0, !.named = 0, !.on = 0]
<1>2. Now(w, c)
  BY DEF Resolve
<1>3. c \in Calls
  <2>1. k \in Reads /\ "read" \in PCs /\ op[w] \in Calls
    BY TargetsTyped DEF PCs, CallTyped
  <2> HIDE DEF k
  <2> QED
    BY <2>1 DEF Calls, CallRecs, Bearing
<1> HIDE DEF c
<1> QED
  BY <1>1, <1>2, <1>3, MovesTyped DEF Resolve, CallTyped

\* What a flush reads are messages.
LEMMA PendingTyped ==
  ASSUME NEW w \in Workers
  PROVE  /\ [k \in DOMAIN NoBatch |-> Pending(op[w], k)] \in Batches
         /\ PendingSlips(op[w]) \in SomeMsgs
<1>1. \A n, key : \A S \in SUBSET Msgs : Oldest(S, n, key) \subseteq S
  BY DEF Oldest
<1>2. \A a : Waiting(a) \subseteq Msgs /\ WaitingMail(a) \subseteq Msgs
             /\ Receipts(a) \subseteq Msgs
  BY DEF Waiting, WaitingMail, Receipts, Rows
<1>3. \A a, g : Instant(a, g) \subseteq Msgs
  BY DEF Instant, Rows
<1>4. \A k : Pending(op[w], k) \in SomeMsgs
  BY <1>1, <1>2, <1>3 DEF Pending, SomeMsgs
<1>5. PendingSlips(op[w]) \in SomeMsgs
  BY <1>1, <1>2 DEF PendingSlips, SomeMsgs
<1>6. DOMAIN NoBatch = {"all", "mail", "instant"}
  BY DEF NoBatch
<1>7. [k \in DOMAIN NoBatch |-> Pending(op[w], k)] \in Batches
  BY <1>4, <1>6 DEF Batches
<1> QED
  BY <1>5, <1>7

LEMMA ReadTyped ==
  ASSUME Typed, NEW w \in Workers, Read(w) \/ ReadFails(w)
  PROVE  Typed'
<1> USE DEF Typed
<1>1. StoreTypeOK' /\ HistTyped' /\ events' \in Nat
  BY DEF Read, ReadFails, storeVars, histVars, StoreTypeOK, HistTyped, CallTyped, Pairs
<1>2. op[w] \in Calls /\ "hand" \in PCs
  BY DEF CallTyped, PCs
<1> DEFINE b == [k \in DOMAIN NoBatch |-> Pending(op[w], k)]
           s == PendingSlips(op[w])
           c == [op[w] EXCEPT !.pc = "hand", !.batch = b, !.slips = s]
           d == [op[w] EXCEPT !.pc = "hand", !.slips = s]
<1>3. c \in Calls /\ d \in Calls
  <2>1. b \in Batches /\ s \in SomeMsgs
    BY PendingTyped
  <2> HIDE DEF b, s
  <2> QED
    BY <1>2, <2>1 DEF Calls, CallRecs, Bearing
<1>4. \/ Answered(w, {})
      \/ Now(w, c) /\ UNCHANGED <<flushing, answer>>
      \/ Now(w, d) /\ UNCHANGED <<flushing, answer>>
  BY DEF Read, ReadFails
<1>5. UNCHANGED sessVars
  BY DEF Read, ReadFails
<1> HIDE DEF c, d
<1> QED
  BY <1>1, <1>3, <1>4, <1>5, AnswersTyped, MovesTyped DEF CallTyped

LEMMA BatchTyped ==
  ASSUME Typed, NEW w \in Workers, NEW u \in Uids
  PROVE  BatchFor(w, u) \subseteq Msgs
<1>1. op[w].which \in Reads /\ op[w].batch \in Batches
  BY DEF Typed, CallTyped, Calls, CallRecs
<1>2. op[w].which[u] \in {"none", "all", "mail", "instant"}
  BY <1>1 DEF Reads, Kinds
<1>3. \A k \in {"all", "mail", "instant"} : op[w].batch[k] \subseteq Msgs
  BY <1>1 DEF Batches, SomeMsgs
<1> QED
  BY <1>2, <1>3 DEF BatchFor

LEMMA TakeTyped ==
  ASSUME NEW s \in Users, NEW b, NEW fits \in SUBSET Msgs
  PROVE  Take(s, b, fits) \in Users
<1>1. fits \in SomeMsgs
  BY DEF SomeMsgs
<1>2. s.got \in SomeMsgs /\ s.again \in SomeMsgs /\ s.sink \in Sinks
  BY DEF Users
<1> DEFINE g == s.got \cup fits
           r == s.again \cup (s.got \cap fits)
           k == IF fits = b THEN s.sink ELSE "lagged"
<1>3. g \in SomeMsgs /\ r \in SomeMsgs /\ k \in Sinks
  BY <1>1, <1>2 DEF SomeMsgs, Sinks
<1>4. Take(s, b, fits) = [s EXCEPT !.got = g, !.again = r, !.sink = k]
  BY DEF Take, Users
<1> HIDE DEF g, r, k
<1> QED
  BY <1>3, <1>4 DEF Users

\* A call whose rows were handed over keeps its task.
LEMMA GivenOf ==
  ASSUME NEW w \in Workers, op[w] \in Calls, NEW given
  PROVE  LET c == HandedOver(w, given) IN
         /\ c.given = given /\ c.which = Nobody /\ c.batch = NoBatch
         /\ c.pc = IF Instantly(w) THEN "handed" ELSE "stamp"
         /\ c.slips = IF There(w) # {} THEN op[w].slips ELSE {}
         /\ c.do = op[w].do /\ c.msg = op[w].msg /\ c.box = op[w].box
         /\ c.fresh = op[w].fresh /\ c.named = op[w].named /\ c.by = op[w].by
         /\ c.on = op[w].on /\ c.reads = op[w].reads
<1> DEFINE x == IF Instantly(w) THEN "handed" ELSE "stamp"
           s == IF There(w) # {} THEN op[w].slips ELSE {}
           n == IF Instantly(w) THEN {} ELSE Unread(w)
           t == IF Instantly(w) THEN {} ELSE {<<u, users[u].serial>> : u \in There(w)}
<1>1. HandedOver(w, given) =
        [op[w] EXCEPT !.pc = x, !.which = Nobody, !.batch = NoBatch, !.given = given,
                      !.slips = s, !.unread = n, !.met = t]
  BY DEF HandedOver, Calls, CallRecs
<1> HIDE DEF x, s, n, t
<1>2. LET c == HandedOver(w, given) IN
      /\ c.given = given /\ c.which = Nobody /\ c.batch = NoBatch /\ c.pc = x /\ c.slips = s
      /\ c.do = op[w].do /\ c.msg = op[w].msg /\ c.box = op[w].box
      /\ c.fresh = op[w].fresh /\ c.named = op[w].named /\ c.by = op[w].by
      /\ c.on = op[w].on /\ c.reads = op[w].reads
  BY <1>1 DEF Calls, CallRecs
<1> QED
  BY <1>2 DEF x, s

\* Hand puts took[u], the first rows of its batch, into the hands of each
\* session u that is still there.  A flush counts all their rows as handed
\* over, a send of an instant message perhaps not all.
HandsOver(w, took) ==
  LET taken == UNION {took[u] : u \in There(w)} IN
  /\ \A u \in There(w) : took[u] \in Prefixes(BatchFor(w, u))
  /\ users' = [u \in Uids |->
                 IF u \in There(w) THEN Take(users[u], BatchFor(w, u), took[u])
                 ELSE users[u]]
  /\ reached' = reached \cup taken
  /\ op'[w].given \subseteq Given(w)
  /\ ~Instantly(w) => op'[w].given = Given(w)
  /\ dropped' = dropped \cup (op'[w].given \ taken)
  /\ op' = [op EXCEPT ![w] = HandedOver(w, op'[w].given)]
LEMMA HandTakes ==
  ASSUME Typed, NEW w \in Workers, Hand(w)
  PROVE  \E took : HandsOver(w, took)
<1>1. \A b : b \in Prefixes(b)
  BY DEF Prefixes
<1> DEFINE all(took) == UNION {took[u] : u \in There(w)}
<1>2. PICK took \in [There(w) -> UNION {Prefixes(BatchFor(w, u)) : u \in There(w)}] :
        /\ \A u \in There(w) : took[u] \in IF u \in Lagging THEN Prefixes(BatchFor(w, u))
                                           ELSE {BatchFor(w, u)}
        /\ users' = [u \in Uids |->
                       IF u \in There(w) THEN Take(users[u], BatchFor(w, u), took[u])
                       ELSE users[u]]
        /\ reached' = reached \cup all(took)
        /\ \E given \in Tried(w, all(took)) :
             /\ dropped' = dropped \cup
                  {m \in given \ all(took) : \E u \in There(w) : m \in BatchFor(w, u)}
             /\ Now(w, HandedOver(w, given))
  BY DEF Hand
<1>3. \A u \in There(w) : took[u] \in Prefixes(BatchFor(w, u))
  BY <1>1, <1>2
<1>4. PICK given \in Tried(w, all(took)) :
        /\ dropped' = dropped \cup
             {m \in given \ all(took) : \E u \in There(w) : m \in BatchFor(w, u)}
        /\ Now(w, HandedOver(w, given))
  BY <1>2
<1>5. given \subseteq Given(w) /\ (~Instantly(w) => given = Given(w))
  BY DEF Tried, Prefixes
<1>6. dropped' = dropped \cup (given \ all(took))
  <2>1. \A m \in given : \E u \in There(w) : m \in BatchFor(w, u)
    BY <1>5 DEF Given
  <2> HIDE DEF all
  <2> QED
    BY <1>4, <2>1
<1>7. op[w] \in Calls /\ op \in [Workers -> Calls]
  BY DEF Typed, CallTyped
<1>8. op' = [op EXCEPT ![w] = HandedOver(w, given)] /\ op'[w] = HandedOver(w, given)
  BY <1>4, <1>7 DEF Now
<1>9. op'[w].given = given
  BY <1>7, <1>8, GivenOf
<1> HIDE DEF all
<1>10. /\ op'[w].given \subseteq Given(w) /\ (~Instantly(w) => op'[w].given = Given(w))
       /\ dropped' = dropped \cup (op'[w].given \ all(took))
       /\ op' = [op EXCEPT ![w] = HandedOver(w, op'[w].given)]
  BY <1>5, <1>6, <1>8, <1>9
<1> QED
  BY <1>2, <1>3, <1>10 DEF HandsOver, all

LEMMA HandTyped ==
  ASSUME Typed, NEW w \in Workers, Hand(w)
  PROVE  Typed'
<1> USE DEF Typed
<1>1. PICK took : HandsOver(w, took)
  BY HandTakes
<1>2. \A u \in Uids : BatchFor(w, u) \subseteq Msgs
  BY BatchTyped
<1>3. There(w) \subseteq Uids
  BY DEF There
<1>4. StoreTypeOK'
  BY DEF Hand, storeVars, StoreTypeOK, Pairs
<1>5. SessTyped'
  <2>1. \A u \in Uids : users[u] \in Users
    BY DEF SessTyped
  <2>2. \A u \in There(w) : Take(users[u], BatchFor(w, u), took[u]) \in Users
    <3>1. \A u \in There(w) : took[u] \in SUBSET Msgs
      BY <1>1, <1>2, <1>3 DEF HandsOver, Prefixes
    <3> QED
      BY <1>3, <2>1, <3>1, TakeTyped
  <2>3. users' \in [Uids -> Users]
    BY <1>1, <2>1, <2>2 DEF HandsOver
  <2> QED
    BY <2>3 DEF Hand, SessTyped
<1>6. HistTyped'
  <2>1. \A u \in There(w) : took[u] \subseteq Msgs
    BY <1>1, <1>2, <1>3 DEF HandsOver, Prefixes
  <2>2. reached' \subseteq Msgs /\ dropped' \subseteq Msgs
    BY <1>1, <1>2, <1>3, <2>1 DEF HandsOver, HistTyped, Given
  <2>3. told' \in [Msgs -> Nat]
    BY DEF Hand, HistTyped
  <2> QED
    BY <2>2, <2>3 DEF Hand, HistTyped
<1> DEFINE x == IF Instantly(w) THEN "handed" ELSE "stamp"
           g == op'[w].given
           s == IF There(w) # {} THEN op[w].slips ELSE {}
           n == IF Instantly(w) THEN {} ELSE Unread(w)
           t == IF Instantly(w) THEN {} ELSE {<<u, users[u].serial>> : u \in There(w)}
           c == [op[w] EXCEPT !.pc = x, !.which = Nobody, !.batch = NoBatch, !.given = g,
                              !.slips = s, !.unread = n, !.met = t]
<1>7. c \in Calls /\ op' = [op EXCEPT ![w] = c]
  <2>1. op[w] \in Calls
    BY DEF CallTyped
  <2>2. x \in PCs /\ x \notin Bearing
    BY DEF PCs, Bearing
  <2>3. g \in SomeMsgs /\ n \in SomeMsgs
    BY <1>1, <1>2, <1>3 DEF HandsOver, Given, Unread, SomeMsgs
  <2>4. s \in SomeMsgs
    BY <2>1, EmptyTyped DEF Calls, CallRecs
  <2>5. t \in Mets
    <3>1. \A u \in Uids : users[u].serial \in Nat
      BY DEF SessTyped, Users
    <3> QED
      BY <1>3, <3>1 DEF Mets
  <2>6. op' = [op EXCEPT ![w] = c]
    <3>1. HandedOver(w, g) = c
      BY <2>1 DEF HandedOver, Calls, CallRecs
    <3> QED
      BY <1>1, <3>1 DEF HandsOver
  <2> HIDE DEF x, g, s, n, t
  <2>7. c \in Calls
    BY <2>1, <2>2, <2>3, <2>4, <2>5, EmptyTyped DEF Calls, CallRecs
  <2> QED
    BY <2>6, <2>7
<1>8. CallTyped'
  <2> HIDE DEF c
  <2> QED
    BY <1>7, NowTyped DEF Hand, CallTyped, Now
<1> QED
  BY <1>4, <1>5, <1>6, <1>8

LEMMA StampTyped ==
  ASSUME Typed, NEW w \in Workers,
         \/ Stamp(w) \/ StampHanded(w) \/ StampSlips(w) \/ StampFails(w) \/ HandedFails(w)
         \/ Notice(w) \/ NoticeFails(w)
  PROVE  Typed'
<1> USE DEF Typed
<1>1. op[w] \in Calls
  BY DEF CallTyped
<1>2. op[w].given \in SomeMsgs /\ op[w].given \ op[w].unread \in SomeMsgs
      /\ op[w].slips \in SomeMsgs
  BY <1>1 DEF Calls, CallRecs, SomeMsgs
<1>3. \A x \in {"notice", "slips"} : x \in PCs /\ x \notin Bearing
  BY DEF PCs, Bearing
<1>4. \A x \in {"notice", "slips"} : [op[w] EXCEPT !.pc = x] \in Calls
  BY <1>1, <1>3 DEF Calls, CallRecs
<1>5. [op[w] EXCEPT !.pc = "notice", !.unread = {}] \in Calls
  BY <1>1, <1>3, EmptyTyped DEF Calls, CallRecs
<1>6. CASE Stamp(w)
  BY <1>2, <1>5, <1>6, StoreTyped, MovesTyped DEF Stamp, CallTyped, HistTyped, histVars
<1>7. CASE StampHanded(w)
  BY <1>2, <1>4, <1>7, StoreTyped, MovesTyped, AnswersTyped
     DEF StampHanded, CallTyped, HistTyped, histVars
<1>8. CASE StampSlips(w)
  BY <1>2, <1>8, StoreTyped, AnswersTyped DEF StampSlips, CallTyped, HistTyped, histVars
<1>11. CASE StampFails(w)
  <2>1. StoreTypeOK' /\ HistTyped' /\ events' \in Nat /\ UNCHANGED sessVars
    <3>1. PICK lost \in SUBSET op[w].given :
            /\ MarkDelivered(op[w].given \ lost, (op[w].given \ op[w].unread) \ lost)
            /\ failed' = failed \cup lost
      BY <1>11 DEF StampFails
    <3>2. StoreTypeOK'
      BY <1>2, <3>1 DEF MarkDelivered, StoreTypeOK, Pairs, SomeMsgs
    <3> QED
      BY <1>2, <1>11, <3>1, <3>2 DEF StampFails, HistTyped, CallTyped, SomeMsgs
  <2>2. Now(w, [op[w] EXCEPT !.pc = "notice", !.unread = {}]) /\ UNCHANGED <<flushing, answer>>
    BY <1>11 DEF StampFails
  <2> QED
    BY <1>5, <2>1, <2>2, MovesTyped DEF CallTyped
<1>9. CASE HandedFails(w)
  <2>1. StoreTypeOK' /\ HistTyped' /\ events' \in Nat /\ UNCHANGED sessVars
    BY <1>2, <1>9 DEF HandedFails, storeVars, StoreTypeOK, HistTyped, CallTyped, Pairs,
                      SomeMsgs
  <2>2. \/ \E x \in {"notice", "slips"} :
             Now(w, [op[w] EXCEPT !.pc = x]) /\ UNCHANGED <<flushing, answer>>
        \/ Answered(w, op[w].given)
    BY <1>9 DEF HandedFails
  <2> QED
    BY <1>4, <2>1, <2>2, MovesTyped, AnswersTyped DEF CallTyped
<1>10. CASE Notice(w) \/ NoticeFails(w)
  <2>2. StoreTypeOK' /\ events' \in Nat /\ UNCHANGED sessVars
    BY <1>10 DEF Notice, NoticeFails, storeVars, StoreTypeOK, CallTyped, Pairs
  <2>5. HistTyped'
    BY <1>10 DEF Notice, NoticeFails, HistTyped
  <2>3. Answered(w, op[w].given)
    BY <1>10 DEF Notice, NoticeFails
  <2> QED
    BY <2>2, <2>3, <2>5, AnswersTyped
<1> QED
  BY <1>6, <1>7, <1>8, <1>9, <1>10, <1>11

LEMMA AckStartTyped ==
  ASSUME Typed, NEW w \in Workers, NEW u \in Uids, NEW m \in Ims, NEW reads \in BOOLEAN,
         AckStart(w, u, m, reads)
  PROVE  Typed'
<1> USE DEF Typed
<1>1. StoreTypeOK' /\ HistTyped'
  BY DEF AckStart, storeVars, StoreTypeOK, HistTyped, Pairs, Msgs
<1>2. SessTyped'
  BY UserTyped DEF AckStart, SessTyped
<1> DEFINE c == [Idle EXCEPT !.pc = "mark", !.do = "ack", !.msg = m, !.box = To[m],
                             !.by = u, !.on = id[m], !.reads = reads]
<1>3. c \in Calls /\ Now(w, c)
  <2>1. m \in Msgs /\ To[m] \in Boxes /\ u \in Nat /\ id[m] \in Nat
    BY MessageStoreAssumption, InboxAssumption DEF Boxes, Msgs, StoreTypeOK
  <2>2. "mark" \in PCs /\ "ack" \in Dos
    BY DEF PCs, Dos
  <2> QED
    BY <2>1, <2>2, IdleTyped DEF AckStart, Calls, CallRecs
<1>4. CallTyped'
  <2> HIDE DEF c
  <2> QED
    BY <1>3, NowTyped DEF AckStart, CallTyped
<1> QED
  BY <1>1, <1>2, <1>4

LEMMA AckTyped ==
  ASSUME Typed, NEW w \in Workers,
         AckMark(w) \/ AckTold(w) \/ AckTell(w) \/ AckSlip(w) \/ AckFails(w)
  PROVE  Typed'
<1> USE DEF Typed
<1>1. op[w] \in Calls
  BY DEF CallTyped
<1>2. op[w].msg \in Msgs
  BY <1>1 DEF AckMark, AckTold, AckTell, AckSlip, AckFails, Calls, Bearing
<1>3. \A x \in {"told", "tell", "slip"} : [op[w] EXCEPT !.pc = x] \in Calls
  <2>1. \A x \in {"told", "tell", "slip"} : x \in PCs
    BY DEF PCs
  <2> QED
    BY <1>1, <1>2, <2>1 DEF Calls, CallRecs
<1>4. CASE AckMark(w)
  <2> DEFINE R == IF op[w].reads THEN Acked(op[w]) ELSE {}
  <2>1. Acked(op[w]) \in SomeMsgs /\ R \in SomeMsgs
    BY <1>2 DEF SomeMsgs, Acked
  <2>2. \E x \in {"told", "tell"} : Now(w, [op[w] EXCEPT !.pc = x])
    BY <1>4 DEF AckMark
  <2>3. StoreTypeOK'
    BY <1>4, <2>1, StoreTyped DEF AckMark
  <2> QED
    BY <1>3, <1>4, <2>2, <2>3, MovesTyped DEF AckMark, CallTyped, HistTyped, histVars
<1>5. CASE AckTold(w)
  <2>1. StoreTypeOK'
    BY <1>2, <1>5, StoreTyped DEF AckTold, storeVars, StoreTypeOK, Pairs
  <2>2. HistTyped' /\ events' \in Nat /\ UNCHANGED <<sessVars, flushing, answer>>
    BY <1>5 DEF AckTold, HistTyped, CallTyped, histVars
  <2>3. Now(w, [op[w] EXCEPT !.pc = "tell"]) \/ Now(w, Idle)
    BY <1>5 DEF AckTold, Done
  <2> QED
    BY <1>3, <2>1, <2>2, <2>3, IdleTyped, MovesTyped DEF CallTyped
<1>6. CASE AckTell(w)
  <2>1. StoreTypeOK' /\ HistTyped' /\ events' \in Nat /\ UNCHANGED <<sessVars, flushing, answer>>
    BY <1>2, <1>6 DEF AckTell, storeVars, StoreTypeOK, HistTyped, CallTyped, Pairs
  <2>2. Now(w, [op[w] EXCEPT !.pc = "slip"]) \/ Now(w, Idle)
    BY <1>6 DEF AckTell, Done
  <2> QED
    BY <1>3, <2>1, <2>2, IdleTyped, MovesTyped DEF CallTyped
<1>7. CASE AckSlip(w) \/ AckFails(w)
  <2>1. StoreTypeOK'
    BY <1>2, <1>7, StoreTyped DEF AckSlip, AckFails, storeVars, StoreTypeOK, Pairs
  <2>2. HistTyped' /\ events' \in Nat /\ UNCHANGED <<sessVars, flushing, answer>>
    BY <1>7 DEF AckSlip, AckFails, HistTyped, CallTyped, histVars
  <2>3. Now(w, Idle)
    BY <1>7 DEF AckSlip, AckFails, Done
  <2> QED
    BY <2>1, <2>2, <2>3, IdleTyped, MovesTyped DEF CallTyped
<1> QED
  BY <1>4, <1>5, <1>6, <1>7

LEMMA OtherTyped ==
  ASSUME Typed,
         \/ \E u \in Uids, m \in Msgs : InboxMarkRead(u, m)
         \/ \E m \in Msgs : Prune(m)
         \/ \E p \in Pairs : Friends(p)
         \/ QuarantineEnds
         \/ Restart
         \/ DayPasses
  PROVE  Typed'
<1> USE DEF Typed
<1>1. CASE \E u \in Uids, m \in Msgs : InboxMarkRead(u, m)
  <2>1. PICK u \in Uids, m \in Msgs : InboxMarkRead(u, m)
    BY <1>1
  <2>2. users[u].acct \in Boxes
    BY DEF SessTyped, Users
  <2>3. UpTo(users[u].acct, m) \subseteq Msgs
    BY DEF UpTo, Rows
  <2> QED
    BY <2>1, <2>2, <2>3, StoreTyped
       DEF InboxMarkRead, SessTyped, CallTyped, HistTyped, sessVars
<1>2. CASE \E m \in Msgs : Prune(m)
  BY <1>2, PruneTyped DEF Prune, SessTyped, CallTyped, HistTyped, sessVars, callVars
<1>3. CASE \E p \in Pairs : Friends(p)
  BY <1>3, FriendsTyped DEF Friends, SessTyped, CallTyped, HistTyped, sessVars, histVars
<1>4. CASE QuarantineEnds
  <2>1. freed' \in Seq(Uids)
    BY <1>4, HeadTailProperties DEF QuarantineEnds, SessTyped
  <2> QED
    BY <1>4, <2>1 DEF QuarantineEnds, storeVars, callVars, histVars, StoreTypeOK, SessTyped,
                      CallTyped, HistTyped, Pairs
<1>5. CASE Restart
  <2>1. StoreTypeOK' /\ HistTyped'
    <3>1. \A w \in Workers : op[w].given \cup op[w].slips \subseteq Msgs
      BY DEF CallTyped, Calls, CallRecs, SomeMsgs
    <3> QED
      BY <1>5, <3>1 DEF Restart, storeVars, StoreTypeOK, HistTyped, Pairs
  <2>2. SessTyped'
    BY <1>5, NoUserTyped, EmptySeq DEF Restart, SessTyped
  <2>3. CallTyped'
    BY <1>5, IdleTyped DEF Restart, CallTyped
  <2> QED
    BY <2>1, <2>2, <2>3
<1>6. CASE DayPasses
  BY <1>6, StoreTyped DEF DayPasses, SessTyped, CallTyped, HistTyped, sessVars, histVars
<1> QED
  BY <1>1, <1>2, <1>3, <1>4, <1>5, <1>6

LEMMA StutterTyped == ASSUME Typed, UNCHANGED vars PROVE Typed'
BY DEF Typed, vars, storeVars, sessVars, callVars, histVars, StoreTypeOK, SessTyped, CallTyped,
       HistTyped, Pairs

LEMMA TypedStep == ASSUME Typed, [Next]_vars PROVE Typed'
<1>1. CASE Session
  BY <1>1, LoginTyped, SessionTyped DEF Session
<1>2. CASE \E w \in Workers : Send(w)
  BY <1>2, SendStartTyped, SendEndsTyped, SendPushTyped DEF Send
<1>3. CASE \E w \in Workers : Flush(w)
  BY <1>3, StartsTyped, ResolveTyped, ReadTyped, HandTyped, StampTyped DEF Flush
<1>4. CASE \E w \in Workers : Ack(w)
  BY <1>4, AckStartTyped, AckTyped DEF Ack
<1> QED
  BY <1>1, <1>2, <1>3, <1>4, OtherTyped, StutterTyped DEF Next

(***************************************************************************)
(* The invariant.                                                          *)
(***************************************************************************)
\* What was put on a live queue, dropped by full ones or pulled: it only grows.
Seen == reached \cup dropped \cup pulled

\* A row or a stub answers for the message, or retention has forgotten it.
Known(m) == m \in Rows \cup stubs \cup closed

\* The places of a call that holds flushing, and only that holder is there.
Inside == {"resolve", "read", "hand", "stamp", "handed", "slips", "notice"}
Lock == \A w \in Workers : op[w].pc \in Inside <=> flushing = w

\* The messages stamped in the store, in a session's hands, or about to be
\* stamped by a call were seen.
SeenInv ==
  /\ delivered \cup handed \cup read \cup stubs \subseteq Seen
  /\ \A u \in Uids : users[u].got \subseteq Seen
  /\ \A w \in Workers : /\ op[w].given \subseteq Seen
                        /\ op[w].pc = "mark" => op[w].msg \in Seen

\* A flush that has read, and has not handed over, remembers rows of its
\* mailbox; a target of instant messages has no other for company.
Lots == {"all", "mail", "instant"}
BatchCall(w) ==
  LET c == op[w] IN
  /\ c.pc # "hand" => \A k \in Lots : c.batch[k] = {}
  /\ \A k \in Lots : \A m \in c.batch[k] :
       m \in Msgs /\ To[m] = c.box /\ (m \in Mails => Known(m))
  /\ c.batch["instant"] \subseteq Ims
  /\ \A u, v \in Uids : c.pc \in {"read", "hand"} /\ c.which[u] = "instant"
                          => c.which[v] \in {"none", "instant"}
BatchInv == \A w \in Workers : BatchCall(w)

\* A call names u by its number and will not look at its account again.
Names(w, u) ==
  \/ op[w].pc = "lock" /\ op[w].do = "drain" /\ op[w].by = u
  \/ op[w].pc \in {"read", "hand"} /\ op[w].which[u] = "instant"
InQuarantine(u) == \E i \in DOMAIN freed : freed[i] = u
UidInv ==
  early \/ /\ \A u \in Uids : InQuarantine(u) => users[u] = NoUser
           /\ \A w \in Workers, u \in Uids :
                Names(w, u) => \/ users[u].acct = op[w].box /\ users[u].sink # "none"
                               \/ InQuarantine(u)

\* What a send remembers of its message, and that it stays known.
SendCall(w) ==
  LET c == op[w] IN
  /\ c.pc \in {"push", "resolve"} => c.do = "send"
  /\ c.pc = "lock" => c.do # "send"
  /\ c.do = "send" =>
       /\ c.msg \in Msgs /\ To[c.msg] = c.box
       /\ c.pc \in Inside /\ c.msg \in Mails => Known(c.msg)
       /\ c.pc = "push" /\ c.msg \in Mails => c.on = 0
SendInv ==
  /\ \A m \in Mails : on[m] = 0
  /\ \A w \in Workers : SendCall(w)

\* A private message in a session's hands is stamped, or its stamp failed or
\* is the next step, or its row has left a stub; what a flush has read is in
\* no hands.
Gone(m) == m \notin Rows /\ m \in stubs
AtStamp(m) == \E w \in Workers : op[w].pc = "stamp" /\ m \in op[w].given
OnceInv ==
  /\ \A w \in Workers : op[w].pc = "stamp" => \A m \in op[w].given \cap Mails : Known(m)
  /\ \A u \in Uids : \A m \in users[u].got \cap Mails :
       /\ Known(m)
       /\ m \notin closed =>
            /\ m \in failed \/ m \in delivered \/ Gone(m) \/ AtStamp(m)
            /\ \A w \in Workers :
                 m \in op[w].batch["all"] \cup op[w].batch["mail"] => m \in failed

\* A private message that is about to go out live, past the quota, is in the
\* store only if its row was stored since the look (or is another's by now).
LiveCall(w) ==
  op[w].pc = "live" /\ op[w].msg \in Mails /\ op[w].msg \in Rows \cup stubs
    => op[w].msg \in raced \cup closed
LiveInv == \A w \in Workers : LiveCall(w)

IInv == /\ Lock /\ SeenInv /\ BatchInv /\ UidInv /\ SendInv /\ OnceInv /\ LiveInv
        /\ RightMailbox /\ HandedOnce /\ AnsweredTruly

(***************************************************************************)
(* Where each step of a call leaves it.                                    *)
(***************************************************************************)
\* The others stay where they are.
Others(w) == \A v \in Workers \ {w} : op'[v] = op[v]

\* What the call is about stays, and what it has read and handed over.
SameCall(w) ==
  /\ op'[w].do = op[w].do /\ op'[w].msg = op[w].msg /\ op'[w].box = op[w].box
SameRows(w) ==
  /\ op'[w].batch = op[w].batch /\ op'[w].given = op[w].given

\* A fresh call: it has read and handed over nothing.
Fresh(c) == c.which = Nobody /\ c.batch = NoBatch /\ c.given = {}

LEMMA IdleFresh == Idle.pc = "idle" /\ Idle.do = "none" /\ Fresh(Idle)
BY DEF Idle, Fresh

LEMMA DoneAfter ==
  ASSUME Typed, NEW w \in Workers, Done(w)
  PROVE  Others(w) /\ op'[w] = Idle
BY DoneTyped DEF Typed, Others

LEMMA SendStartAfter ==
  ASSUME Typed, NEW w \in Workers, NEW u \in Uids, NEW m \in Msgs, NEW named \in Uids \cup {0},
         SendStart(w, u, m, named)
  PROVE  /\ Others(w) /\ Fresh(op'[w])
         /\ op[w].pc = "idle" /\ op'[w].pc \in {"push", "live"}
         /\ op'[w].do = "send" /\ op'[w].msg = m /\ op'[w].box = To[m]
         /\ m \in Mails => op'[w].on = 0
         /\ flushing' = flushing /\ (op'[w].pc = "live" => ~FindGuid(m))
<1>1. PICK pc \in {"push", "live"} :
        /\ op' = [op EXCEPT ![w] =
             [Idle EXCEPT !.pc = pc, !.do = "send", !.msg = m, !.box = To[m], !.by = u,
                !.named = named, !.on = IF m \in Ims THEN rel[Pair(m)] ELSE 0]]
        /\ pc = "live" => ~FindGuid(m)
  BY DEF SendStart, Now
<1>2. op \in [Workers -> Calls]
  BY DEF Typed, CallTyped
<1>3. op'[w] = [Idle EXCEPT !.pc = pc, !.do = "send", !.msg = m, !.box = To[m], !.by = u,
                  !.named = named, !.on = IF m \in Ims THEN rel[Pair(m)] ELSE 0]
      /\ Others(w)
  BY <1>1, <1>2 DEF Others
<1>4. Fresh(op'[w])
  BY <1>3, IdleFresh DEF Fresh, Idle
<1>5. /\ op'[w].pc = pc
      /\ op'[w].do = "send" /\ op'[w].msg = m /\ op'[w].box = To[m]
      /\ m \in Mails => op'[w].on = 0
  BY <1>3, MessageStoreAssumption DEF Idle
<1> QED
  BY <1>1, <1>3, <1>4, <1>5 DEF SendStart

LEMMA StartsAfter ==
  ASSUME Typed, NEW w \in Workers, NEW u \in Uids, FlushStart(w, u) \/ DrainStart(w, u)
  PROVE  /\ Others(w) /\ Fresh(op'[w])
         /\ op[w].pc = "idle" /\ op'[w].pc = "lock" /\ op'[w].do \in {"flush", "drain"}
         /\ op'[w].box = users[u].acct /\ op'[w].by = u
         /\ op'[w].do = "drain" => Live(u)
         /\ flushing' = flushing
<1>1. PICK d \in {"flush", "drain"} :
        /\ op' = [op EXCEPT ![w] =
             [Idle EXCEPT !.pc = "lock", !.do = d, !.box = users[u].acct, !.by = u]]
        /\ d = "drain" => Live(u)
  BY DEF FlushStart, DrainStart, Now
<1>2. op \in [Workers -> Calls]
  BY DEF Typed, CallTyped
<1>3. op'[w] = [Idle EXCEPT !.pc = "lock", !.do = d, !.box = users[u].acct, !.by = u]
      /\ Others(w)
  BY <1>1, <1>2 DEF Others
<1>4. Fresh(op'[w])
  BY <1>3, IdleFresh DEF Fresh, Idle
<1>5. op'[w].pc = "lock" /\ op'[w].do = d /\ op'[w].box = users[u].acct /\ op'[w].by = u
  BY <1>3 DEF Idle
<1> QED
  BY <1>1, <1>3, <1>4, <1>5 DEF FlushStart, DrainStart

LEMMA AckStartAfter ==
  ASSUME Typed, NEW w \in Workers, NEW u \in Uids, NEW m \in Ims, NEW reads \in BOOLEAN,
         AckStart(w, u, m, reads)
  PROVE  /\ Others(w) /\ Fresh(op'[w])
         /\ op[w].pc = "idle" /\ op'[w].pc = "mark" /\ op'[w].do = "ack" /\ op'[w].msg = m
         /\ flushing' = flushing
<1>1. op' = [op EXCEPT ![w] = [Idle EXCEPT !.pc = "mark", !.do = "ack", !.msg = m,
                                 !.box = To[m], !.by = u, !.on = id[m], !.reads = reads]]
  BY DEF AckStart, Now
<1>2. op \in [Workers -> Calls]
  BY DEF Typed, CallTyped
<1>3. op'[w] = [Idle EXCEPT !.pc = "mark", !.do = "ack", !.msg = m,
                  !.box = To[m], !.by = u, !.on = id[m], !.reads = reads]
      /\ Others(w)
  BY <1>1, <1>2 DEF Others
<1>4. Fresh(op'[w])
  BY <1>3, IdleFresh DEF Fresh, Idle
<1>5. op'[w].pc = "mark" /\ op'[w].do = "ack" /\ op'[w].msg = m
  BY <1>3 DEF Idle
<1> QED
  BY <1>3, <1>4, <1>5 DEF AckStart

LEMMA SendPushAfter ==
  ASSUME Typed, NEW w \in Workers, SendPush(w)
  PROVE  /\ Others(w) /\ SameCall(w) /\ SameRows(w)
         /\ op[w].pc = "push" /\ op'[w].pc = "resolve"
         /\ flushing = NoWorker /\ flushing' = w
<1>1. op' = [op EXCEPT ![w] = [op[w] EXCEPT !.pc = "resolve", !.fresh = op[w].msg \notin Rows]]
  BY DEF SendPush, Now
<1>2. op \in [Workers -> Calls]
  BY DEF Typed, CallTyped
<1>3. op'[w] = [op[w] EXCEPT !.pc = "resolve", !.fresh = op[w].msg \notin Rows] /\ Others(w)
  BY <1>1, <1>2 DEF Others
<1>4. SameCall(w) /\ SameRows(w) /\ op'[w].pc = "resolve"
  BY <1>2, <1>3 DEF SameCall, SameRows, Calls, CallRecs
<1> QED
  BY <1>3, <1>4 DEF SendPush

LEMMA ResolveAfter ==
  ASSUME Typed, NEW w \in Workers, Resolve(w)
  PROVE  /\ Others(w) /\ SameCall(w) /\ SameRows(w)
         /\ op'[w].pc = "read" /\ op'[w].which = Targets(w)
         /\ op[w].pc = "resolve" \/ (op[w].pc = "lock" /\ flushing = NoWorker)
         /\ flushing' = w
<1>1. op' = [op EXCEPT ![w] = [op[w] EXCEPT !.pc = "read", !.which = Targets(w),
                                 !.by = 0, !.named = 0, !.on = 0]]
  BY DEF Resolve, Now
<1>2. op \in [Workers -> Calls]
  BY DEF Typed, CallTyped
<1> DEFINE t == Targets(w)
<1> HIDE DEF t
<1>3. op'[w] = [op[w] EXCEPT !.pc = "read", !.which = t, !.by = 0, !.named = 0,
                  !.on = 0] /\ Others(w)
  BY <1>1, <1>2 DEF Others, t
<1>4. SameCall(w) /\ SameRows(w) /\ op'[w].pc = "read" /\ op'[w].which = t
  BY <1>2, <1>3 DEF SameCall, SameRows, Calls, CallRecs
<1> QED
  BY <1>3, <1>4 DEF Resolve, t

LEMMA AnsweredAfter ==
  ASSUME Typed, NEW w \in Workers, NEW g, Answered(w, g)
  PROVE  Others(w) /\ op'[w] = Idle /\ flushing' = NoWorker
BY DoneAfter DEF Answered

LEMMA ReadAfter ==
  ASSUME Typed, NEW w \in Workers, Read(w) \/ ReadFails(w)
  PROVE  /\ Others(w) /\ op[w].pc = "read"
         /\ \/ Answered(w, {}) /\ op'[w] = Idle /\ flushing' = NoWorker
            \/ /\ SameCall(w) /\ op'[w].given = op[w].given /\ op'[w].pc = "hand"
               /\ op'[w].which = op[w].which /\ flushing' = flushing /\ answer' = answer
               /\ \A k \in Lots : op'[w].batch[k] \in {op[w].batch[k], Pending(op[w], k)}
<1>1. op \in [Workers -> Calls] /\ op[w].pc = "read"
  BY DEF Typed, CallTyped, Read, ReadFails
<1> DEFINE b == [k \in DOMAIN NoBatch |-> Pending(op[w], k)]
           s == PendingSlips(op[w])
<1>2. \/ Answered(w, {})
      \/ /\ Now(w, [op[w] EXCEPT !.pc = "hand", !.batch = b, !.slips = s])
         /\ UNCHANGED <<flushing, answer>>
      \/ Now(w, [op[w] EXCEPT !.pc = "hand", !.slips = s]) /\ UNCHANGED <<flushing, answer>>
  BY DEF Read, ReadFails
<1>3. \A k \in Lots : b[k] = Pending(op[w], k)
  BY DEF Lots, NoBatch
<1> HIDE DEF b, s
<1>4. CASE Answered(w, {})
  BY <1>1, <1>4, AnsweredAfter
<1>5. CASE Now(w, [op[w] EXCEPT !.pc = "hand", !.batch = b, !.slips = s])
           /\ UNCHANGED <<flushing, answer>>
  <2>1. op'[w] = [op[w] EXCEPT !.pc = "hand", !.batch = b, !.slips = s] /\ Others(w)
    BY <1>1, <1>5 DEF Others, Now
  <2>2. /\ SameCall(w) /\ op'[w].given = op[w].given /\ op'[w].pc = "hand"
        /\ op'[w].which = op[w].which /\ op'[w].batch = b
    BY <1>1, <2>1 DEF SameCall, Calls, CallRecs
  <2> QED
    BY <1>1, <1>3, <1>5, <2>1, <2>2
<1>6. CASE Now(w, [op[w] EXCEPT !.pc = "hand", !.slips = s]) /\ UNCHANGED <<flushing, answer>>
  <2>1. op'[w] = [op[w] EXCEPT !.pc = "hand", !.slips = s] /\ Others(w)
    BY <1>1, <1>6 DEF Others, Now
  <2>2. /\ SameCall(w) /\ op'[w].given = op[w].given /\ op'[w].pc = "hand"
        /\ op'[w].which = op[w].which /\ op'[w].batch = op[w].batch
    BY <1>1, <2>1 DEF SameCall, Calls, CallRecs
  <2> QED
    BY <1>1, <1>6, <2>1, <2>2
<1> QED
  BY <1>2, <1>4, <1>5, <1>6

LEMMA HandAfter ==
  ASSUME Typed, NEW w \in Workers, Hand(w)
  PROVE  /\ Others(w) /\ SameCall(w) /\ op[w].pc = "hand"
         /\ op'[w].pc = IF Instantly(w) THEN "handed" ELSE "stamp"
         /\ op'[w].which = Nobody /\ op'[w].batch = NoBatch
         /\ op'[w].given \subseteq Given(w) /\ (~Instantly(w) => op'[w].given = Given(w))
         /\ flushing' = flushing
<1>1. op \in [Workers -> Calls]
  BY DEF Typed, CallTyped
<1>2. PICK took : HandsOver(w, took)
  BY HandTakes
<1>3. op'[w] = HandedOver(w, op'[w].given) /\ Others(w)
  BY <1>1, <1>2 DEF HandsOver, Others
<1>4. /\ SameCall(w) /\ op'[w].which = Nobody /\ op'[w].batch = NoBatch
      /\ op'[w].pc = IF Instantly(w) THEN "handed" ELSE "stamp"
  BY <1>1, <1>3, GivenOf DEF SameCall
<1>5. op'[w].given \subseteq Given(w) /\ (~Instantly(w) => op'[w].given = Given(w))
  BY <1>2 DEF HandsOver
<1> QED
  BY <1>3, <1>4, <1>5 DEF Hand

\* A stamp moves on, or is the end of the call.
LEMMA StampAfter ==
  ASSUME Typed, NEW w \in Workers,
         Stamp(w) \/ StampHanded(w) \/ StampSlips(w) \/ StampFails(w) \/ HandedFails(w)
  PROVE  /\ Others(w) /\ op[w].pc \in {"stamp", "handed", "slips"}
         /\ \/ Answered(w, op[w].given) /\ op'[w] = Idle /\ flushing' = NoWorker
            \/ /\ SameCall(w) /\ SameRows(w) /\ op'[w].pc \in {"notice", "slips"}
               /\ flushing' = flushing /\ answer' = answer
<1>1. op \in [Workers -> Calls]
  BY DEF Typed, CallTyped
<1>2. op[w].pc \in {"stamp", "handed", "slips"}
  BY DEF Stamp, StampHanded, StampSlips, StampFails, HandedFails
<1>3. \/ Answered(w, op[w].given)
      \/ /\ Now(w, [op[w] EXCEPT !.pc = "notice", !.unread = {}])
         /\ UNCHANGED <<flushing, answer>>
      \/ \E x \in {"notice", "slips"} :
           Now(w, [op[w] EXCEPT !.pc = x]) /\ UNCHANGED <<flushing, answer>>
  BY DEF Stamp, StampHanded, StampSlips, StampFails, HandedFails
<1>4. CASE Answered(w, op[w].given)
  BY <1>2, <1>4, AnsweredAfter
<1>5. CASE Now(w, [op[w] EXCEPT !.pc = "notice", !.unread = {}])
           /\ UNCHANGED <<flushing, answer>>
  <2>1. op'[w] = [op[w] EXCEPT !.pc = "notice", !.unread = {}] /\ Others(w)
    BY <1>1, <1>5 DEF Others, Now
  <2>2. SameCall(w) /\ SameRows(w) /\ op'[w].pc = "notice"
    BY <1>1, <2>1 DEF SameCall, SameRows, Calls, CallRecs
  <2> QED
    BY <1>2, <1>5, <2>1, <2>2
<1>6. ASSUME NEW x \in {"notice", "slips"},
             Now(w, [op[w] EXCEPT !.pc = x]), UNCHANGED <<flushing, answer>>
      PROVE  /\ Others(w) /\ SameCall(w) /\ SameRows(w) /\ op'[w].pc \in {"notice", "slips"}
             /\ flushing' = flushing /\ answer' = answer
  <2>1. op'[w] = [op[w] EXCEPT !.pc = x] /\ Others(w)
    BY <1>1, <1>6 DEF Others, Now
  <2>2. SameCall(w) /\ SameRows(w) /\ op'[w].pc = x
    BY <1>1, <2>1 DEF SameCall, SameRows, Calls, CallRecs
  <2> QED
    BY <1>6, <2>1, <2>2
<1> QED
  BY <1>2, <1>3, <1>4, <1>5, <1>6

LEMMA AckAfter ==
  ASSUME Typed, NEW w \in Workers,
         AckMark(w) \/ AckTold(w) \/ AckTell(w) \/ AckSlip(w) \/ AckFails(w)
  PROVE  /\ Others(w) /\ op[w].pc \in {"mark", "told", "tell", "slip"}
         /\ \/ op'[w] = Idle
            \/ /\ SameCall(w) /\ SameRows(w) /\ op'[w].pc \in {"told", "tell", "slip"}
         /\ flushing' = flushing
<1>1. op \in [Workers -> Calls]
  BY DEF Typed, CallTyped
<1>2. op[w].pc \in {"mark", "told", "tell", "slip"} /\ flushing' = flushing
  BY DEF AckMark, AckTold, AckTell, AckSlip, AckFails
<1>3. \/ Done(w)
      \/ \E x \in {"told", "tell", "slip"} : Now(w, [op[w] EXCEPT !.pc = x])
  BY DEF AckMark, AckTold, AckTell, AckSlip, AckFails
<1>4. CASE Done(w)
  BY <1>2, <1>4, DoneAfter
<1>5. ASSUME NEW x \in {"told", "tell", "slip"}, Now(w, [op[w] EXCEPT !.pc = x])
      PROVE  /\ Others(w) /\ SameCall(w) /\ SameRows(w)
             /\ op'[w].pc \in {"told", "tell", "slip"}
  <2>1. op'[w] = [op[w] EXCEPT !.pc = x] /\ Others(w)
    BY <1>1, <1>5 DEF Others, Now
  <2>2. SameCall(w) /\ SameRows(w) /\ op'[w].pc = x
    BY <1>1, <2>1 DEF SameCall, SameRows, Calls, CallRecs
  <2> QED
    BY <2>1, <2>2
<1> QED
  BY <1>2, <1>3, <1>4, <1>5

\* The steps of no call.
Aside ==
  \/ Session \/ QuarantineEnds
  \/ \E u \in Uids, m \in Msgs : InboxMarkRead(u, m)
  \/ \E m \in Msgs : Prune(m)
  \/ \E p \in Pairs : Friends(p)
  \/ DayPasses
  \/ UNCHANGED vars

LEMMA AsideAfter == ASSUME Aside PROVE op' = op /\ flushing' = flushing /\ answer' = answer
BY DEF Aside, Session, QuarantineEnds, InboxMarkRead, Prune, Friends, DayPasses, vars,
       callVars, Login, Detach, Resume, EndSession

\* A send that ends before its row.
SendEnds(w) == SendLive(w) \/ SendKnown(w) \/ SendFull(w) \/ SendFails(w)
LEMMA SendEndsAfter ==
  ASSUME Typed, NEW w \in Workers, SendEnds(w)
  PROVE  /\ Others(w) /\ op'[w] = Idle /\ op[w].pc \in {"live", "push"}
         /\ flushing' = flushing
BY DoneAfter DEF SendEnds, SendLive, SendKnown, SendFull, SendFails

Notices(w) == Notice(w) \/ NoticeFails(w)
LEMMA NoticesAfter ==
  ASSUME Typed, NEW w \in Workers, Notices(w)
  PROVE  /\ Others(w) /\ op'[w] = Idle /\ flushing' = NoWorker /\ op[w].pc = "notice"
         /\ Answered(w, op[w].given)
BY AnsweredAfter DEF Notices, Notice, NoticeFails

Stamps(w) == Stamp(w) \/ StampHanded(w) \/ StampSlips(w) \/ StampFails(w) \/ HandedFails(w)
Acks(w) == AckMark(w) \/ AckTold(w) \/ AckTell(w) \/ AckSlip(w) \/ AckFails(w)
Reading(w) == Read(w) \/ ReadFails(w)

\* Every step is one of these.
LEMMA StepCases ==
  ASSUME [Next]_vars
  PROVE  \/ Aside \/ Restart
         \/ \E w \in Workers :
              \/ \E u \in Uids, m \in Msgs, named \in Uids \cup {0} : SendStart(w, u, m, named)
              \/ \E u \in Uids : FlushStart(w, u) \/ DrainStart(w, u)
              \/ \E u \in Uids, m \in Ims, reads \in BOOLEAN : AckStart(w, u, m, reads)
              \/ SendEnds(w) \/ SendPush(w) \/ Resolve(w) \/ Reading(w) \/ Hand(w)
              \/ Stamps(w) \/ Notices(w) \/ Acks(w)
BY DEF Next, Aside, Send, Flush, Ack, SendEnds, Notices, Stamps, Acks, Reading

\* flushing is held by the call that is inside, and by no other.
LEMMA LockStep ==
  ASSUME Typed, Lock, [Next]_vars
  PROVE  Lock'
<1> USE DEF Lock, Inside
<1>0. NoWorker \notin Workers /\ Idle.pc = "idle"
  BY InboxAssumption, IdleFresh
<1>1. CASE Aside
  BY <1>1, AsideAfter
<1>2. CASE Restart
  BY <1>0, <1>2 DEF Restart
<1>3. ASSUME NEW w \in Workers, NEW u \in Uids, NEW m \in Msgs, NEW named \in Uids \cup {0},
             SendStart(w, u, m, named)
      PROVE  Lock'
  BY <1>3, SendStartAfter DEF Others
<1>4. ASSUME NEW w \in Workers, NEW u \in Uids, FlushStart(w, u) \/ DrainStart(w, u)
      PROVE  Lock'
  BY <1>4, StartsAfter DEF Others
<1>5. ASSUME NEW w \in Workers, NEW u \in Uids, NEW m \in Ims, NEW reads \in BOOLEAN,
             AckStart(w, u, m, reads)
      PROVE  Lock'
  BY <1>5, AckStartAfter DEF Others
<1>6. ASSUME NEW w \in Workers, SendEnds(w) \/ Acks(w) PROVE Lock'
  BY <1>0, <1>6, SendEndsAfter, AckAfter DEF Others, Acks
<1>7. ASSUME NEW w \in Workers, SendPush(w) \/ Resolve(w) PROVE Lock'
  BY <1>0, <1>7, SendPushAfter, ResolveAfter DEF Others
<1>8. ASSUME NEW w \in Workers, Reading(w) PROVE Lock'
  BY <1>0, <1>8, ReadAfter DEF Others, Reading
<1>9. ASSUME NEW w \in Workers, Hand(w) \/ Notices(w) PROVE Lock'
  BY <1>0, <1>9, HandAfter, NoticesAfter DEF Others
<1>10. ASSUME NEW w \in Workers, Stamps(w) PROVE Lock'
  BY <1>0, <1>10, StampAfter DEF Others, Stamps
<1> QED
  BY <1>1, <1>2, <1>3, <1>4, <1>5, <1>6, <1>7, <1>8, <1>9, <1>10, StepCases

\* What Hand does to the sessions: it adds to the hands of those still there,
\* and everything it counts as handed over was handed or dropped.
LEMMA HandUsers ==
  ASSUME Typed, NEW w \in Workers, Hand(w)
  PROVE  /\ \A u \in Uids \ There(w) : users'[u] = users[u]
         /\ \A u \in There(w) :
              /\ u \in Uids /\ Live(u)
              /\ users'[u].acct = users[u].acct /\ users'[u].sink # "none"
              /\ \E fits \in SUBSET BatchFor(w, u) :
                   /\ users'[u].got = users[u].got \cup fits
                   /\ users'[u].again = users[u].again \cup (users[u].got \cap fits)
                   /\ fits \subseteq reached'
              /\ users'[u].beside = users[u].beside
         /\ op'[w].given \subseteq reached' \cup dropped'
         /\ reached \subseteq reached' /\ dropped \subseteq dropped' /\ pulled' = pulled
<1>1. PICK took : HandsOver(w, took)
  BY HandTakes
<1>2. There(w) \subseteq Uids /\ \A u \in There(w) : Live(u)
  BY DEF There, StillThere, Holds
<1>3. \A u \in Uids \ There(w) : users'[u] = users[u]
  BY <1>1 DEF HandsOver
<1>4. ASSUME NEW u \in There(w)
      PROVE  /\ users'[u].acct = users[u].acct /\ users'[u].sink # "none"
             /\ \E fits \in SUBSET BatchFor(w, u) :
                   /\ users'[u].got = users[u].got \cup fits
                   /\ users'[u].again = users[u].again \cup (users[u].got \cap fits)
                   /\ fits \subseteq reached'
             /\ users'[u].beside = users[u].beside
  <2> DEFINE fits == took[u]
  <2>1. fits \in SUBSET BatchFor(w, u)
    BY <1>1 DEF HandsOver, Prefixes
  <2>6. fits \subseteq reached'
    BY <1>1 DEF HandsOver
  <2>2. users[u] \in Users /\ users[u].sink = "live"
    BY <1>2 DEF Typed, SessTyped, Live
  <2>3. users'[u] = Take(users[u], BatchFor(w, u), took[u])
    BY <1>1, <1>2 DEF HandsOver
  <2>4. users'[u] =
          [users[u] EXCEPT !.got = users[u].got \cup fits,
             !.again = users[u].again \cup (users[u].got \cap fits),
             !.sink = IF fits = BatchFor(w, u) THEN users[u].sink ELSE "lagged"]
    BY <2>2, <2>3 DEF Take, Users
  <2> HIDE DEF fits
  <2>5. /\ users'[u].acct = users[u].acct /\ users'[u].sink # "none"
        /\ users'[u].got = users[u].got \cup fits
        /\ users'[u].again = users[u].again \cup (users[u].got \cap fits)
        /\ users'[u].beside = users[u].beside
    BY <2>2, <2>4 DEF Users
  <2> QED
    BY <2>1, <2>5, <2>6
<1>5. op'[w].given \subseteq reached' \cup dropped'
  BY <1>1 DEF HandsOver
<1>6. reached \subseteq reached' /\ dropped \subseteq dropped' /\ pulled' = pulled
  BY <1>1 DEF HandsOver, Hand
<1> QED
  BY <1>2, <1>3, <1>4, <1>5, <1>6

\* What the history has noted stays.
Grown == /\ Seen \subseteq Seen'
         /\ unstored \subseteq unstored' /\ raced \subseteq raced'
LEMMA SeenGrows == ASSUME Typed, [Next]_vars PROVE Grown
<1>1. CASE Aside
  BY <1>1 DEF Grown, Seen, Aside, Session, QuarantineEnds, InboxMarkRead, Prune, Friends,
              DayPasses, vars, histVars, Login, Detach, Resume, EndSession
<1>2. CASE Restart
  BY <1>2 DEF Grown, Seen, Restart
<1>3. ASSUME NEW w \in Workers, NEW u \in Uids,
             \/ \E m \in Msgs, named \in Uids \cup {0} : SendStart(w, u, m, named)
             \/ FlushStart(w, u) \/ DrainStart(w, u)
             \/ \E m \in Ims, reads \in BOOLEAN : AckStart(w, u, m, reads)
      PROVE  Grown
  BY <1>3 DEF Grown, Seen, SendStart, FlushStart, DrainStart, AckStart, histVars
<1>4. ASSUME NEW w \in Workers, SendEnds(w) \/ SendPush(w) \/ Resolve(w) \/ Reading(w)
      PROVE  Grown
  BY <1>4 DEF Grown, Seen, SendEnds, SendLive, SendKnown, SendFull, SendFails, SendPush,
              Resolve, Reading, Read, ReadFails, histVars
<1>5. ASSUME NEW w \in Workers, Hand(w) PROVE Grown
  BY <1>5, HandUsers DEF Grown, Seen, Hand
<1>6. ASSUME NEW w \in Workers, Stamps(w) \/ Notices(w) \/ Acks(w) PROVE Grown
  BY <1>6 DEF Grown, Seen, Stamps, Stamp, StampHanded, StampSlips, StampFails, HandedFails,
              Notices, Notice, NoticeFails, Acks, AckMark, AckTold, AckTell, AckSlip, AckFails,
              histVars
<1> QED
  BY <1>1, <1>2, <1>3, <1>4, <1>5, <1>6, StepCases

\* Only Hand adds to a session's hands: any other step leaves them as they
\* are but for a live copy beside them, or the session is a new one or gone.
Copied(u, m) ==
  m \in users[u].got /\ \E w \in Workers : op[w].pc = "live" /\ op[w].msg = m
Kept(u) == /\ users'[u].got = users[u].got /\ users'[u].again = users[u].again
           /\ users'[u].acct = users[u].acct
           /\ \A m \in users'[u].beside : m \in users[u].beside \/ Copied(u, m)
Emptied(u) == users'[u].got = {} /\ users'[u].again = {} /\ users'[u].beside = {}
LEMMA UsersStep ==
  ASSUME Typed, [Next]_vars, \A w \in Workers : ~Hand(w), NEW u \in Uids
  PROVE  Kept(u) \/ Emptied(u)
<1> USE DEF Kept, Emptied
<1>0. users \in [Uids -> Users] /\ NoUser.got = {} /\ NoUser.again = {} /\ NoUser.beside = {}
  BY DEF Typed, SessTyped, NoUser
<1>1. CASE Aside
  <2>1. ASSUME NEW v \in Uids, NEW a \in Accounts, NEW k \in Wire[a], Login(v, a, k)
        PROVE  Kept(u) \/ Emptied(u)
    BY <1>0, <2>1 DEF Login, NoUser
  <2>2. ASSUME NEW v \in Uids, Detach(v) \/ Resume(v) \/ EndSession(v)
        PROVE  Kept(u) \/ Emptied(u)
    <3>1. CASE Detach(v)
      BY <1>0, <3>1 DEF Detach, Users
    <3>2. CASE Resume(v)
      BY <1>0, <3>2 DEF Resume, Users
    <3>3. CASE EndSession(v)
      BY <1>0, <3>3 DEF EndSession
    <3> QED
      BY <2>2, <3>1, <3>2, <3>3
  <2>3. CASE UNCHANGED users
    BY <2>3
  <2>4. Session \/ UNCHANGED users
    BY <1>1 DEF Aside, QuarantineEnds, InboxMarkRead, Prune, Friends, DayPasses, vars, sessVars
  <2> QED
    BY <2>1, <2>2, <2>3, <2>4 DEF Session
<1>2. CASE Restart
  BY <1>0, <1>2 DEF Restart
<1>3. ASSUME NEW w \in Workers, NEW v \in Uids, NEW m \in Msgs, NEW named \in Uids \cup {0},
             SendStart(w, v, m, named)
      PROVE  Kept(u) \/ Emptied(u)
  BY <1>0, <1>3 DEF SendStart, Users
<1>4. ASSUME NEW w \in Workers, NEW v \in Uids, FlushStart(w, v) \/ DrainStart(w, v)
      PROVE  Kept(u) \/ Emptied(u)
  BY <1>0, <1>4 DEF FlushStart, DrainStart, Users
<1>5. ASSUME NEW w \in Workers, NEW v \in Uids, NEW m \in Ims, NEW reads \in BOOLEAN,
             AckStart(w, v, m, reads)
      PROVE  Kept(u) \/ Emptied(u)
  BY <1>0, <1>5 DEF AckStart, Users
<1>7. ASSUME NEW w \in Workers, SendLive(w) PROVE Kept(u)
  BY <1>7, SendLiveUsers DEF Noted, Copied, SendLive
<1>6. ASSUME NEW w \in Workers, \/ SendEnds(w) \/ SendPush(w) \/ Resolve(w) \/ Reading(w)
                                \/ Stamps(w) \/ Notices(w) \/ Acks(w), ~SendLive(w)
      PROVE  users' = users
  BY <1>6 DEF SendEnds, SendKnown, SendFull, SendFails, SendPush, Resolve, Reading,
              Read, ReadFails, Stamps, Stamp, StampHanded, StampSlips, StampFails, HandedFails,
              Notices, Notice, NoticeFails, Acks, AckMark, AckTold, AckTell, AckSlip, AckFails,
              sessVars
<1> QED
  BY <1>1, <1>2, <1>3, <1>4, <1>5, <1>6, <1>7, StepCases

LEMMA SeenUsers ==
  ASSUME Typed, SeenInv, [Next]_vars
  PROVE  \A u \in Uids : users'[u].got \subseteq Seen'
<1>1. CASE \A w \in Workers : ~Hand(w)
  BY <1>1, UsersStep, SeenGrows DEF Grown, SeenInv, Kept, Emptied
<1>2. ASSUME NEW w \in Workers, Hand(w) PROVE \A u \in Uids : users'[u].got \subseteq Seen'
  BY <1>2, HandUsers, SeenGrows DEF Grown, SeenInv, Seen
<1> QED
  BY <1>1, <1>2

LEMMA SeenCalls ==
  ASSUME Typed, SeenInv, [Next]_vars, NEW v \in Workers
  PROVE  op'[v].given \subseteq Seen' /\ (op'[v].pc = "mark" => op'[v].msg \in Seen')
<1>0. op[v].given \subseteq Seen' /\ (op[v].pc = "mark" => op[v].msg \in Seen')
  BY SeenGrows DEF Grown, SeenInv
<1>1. CASE Aside
  BY <1>0, <1>1, AsideAfter
<1>2. CASE op'[v] = Idle
  BY <1>2, IdleFresh DEF Fresh
<1>3. ASSUME NEW w \in Workers, NEW u \in Uids, NEW m \in Msgs, NEW named \in Uids \cup {0},
             SendStart(w, u, m, named)
      PROVE  op'[v].given \subseteq Seen' /\ (op'[v].pc = "mark" => op'[v].msg \in Seen')
  BY <1>0, <1>3, SendStartAfter DEF Others, Fresh
<1>4. ASSUME NEW w \in Workers, NEW u \in Uids, FlushStart(w, u) \/ DrainStart(w, u)
      PROVE  op'[v].given \subseteq Seen' /\ (op'[v].pc = "mark" => op'[v].msg \in Seen')
  BY <1>0, <1>4, StartsAfter DEF Others, Fresh
<1>5. ASSUME NEW w \in Workers, NEW u \in Uids, NEW m \in Ims, NEW reads \in BOOLEAN,
             AckStart(w, u, m, reads)
      PROVE  op'[v].given \subseteq Seen' /\ (op'[v].pc = "mark" => op'[v].msg \in Seen')
  <2>1. m \in Seen'
    BY <1>5, SeenGrows DEF Grown, AckStart, SeenInv, Seen
  <2> QED
    BY <1>0, <1>5, <2>1, AckStartAfter DEF Others, Fresh
<1>6. ASSUME NEW w \in Workers, SendEnds(w) \/ SendPush(w) \/ Resolve(w) \/ Reading(w)
      PROVE  op'[v].given \subseteq Seen' /\ (op'[v].pc = "mark" => op'[v].msg \in Seen')
  BY <1>0, <1>2, <1>6, SendEndsAfter, SendPushAfter, ResolveAfter, ReadAfter
     DEF Others, SameRows, Reading
<1>7. ASSUME NEW w \in Workers, Hand(w)
      PROVE  op'[v].given \subseteq Seen' /\ (op'[v].pc = "mark" => op'[v].msg \in Seen')
  <2>1. op'[w].given \subseteq Seen'
    BY <1>7, HandUsers DEF Seen
  <2> QED
    BY <1>0, <1>7, <2>1, HandAfter DEF Others
<1>8. ASSUME NEW w \in Workers, Stamps(w) \/ Notices(w) \/ Acks(w)
      PROVE  op'[v].given \subseteq Seen' /\ (op'[v].pc = "mark" => op'[v].msg \in Seen')
  BY <1>0, <1>2, <1>8, StampAfter, NoticesAfter, AckAfter
     DEF Others, SameRows, Stamps, Acks
<1>9. CASE Restart
  BY <1>2, <1>9 DEF Restart
<1> QED
  BY <1>1, <1>3, <1>4, <1>5, <1>6, <1>7, <1>8, <1>9, StepCases

\* The steps that write to the store.
LEMMA StoreCases ==
  ASSUME [Next]_vars
  PROVE  \/ UNCHANGED storeVars
         \/ \E w \in Workers : SendPush(w) \/ Stamps(w) \/ Acks(w)
         \/ \E u \in Uids, m \in Msgs : InboxMarkRead(u, m)
         \/ \E m \in Msgs : Prune(m)
         \/ \E p \in Pairs : Friends(p)
         \/ DayPasses
<1>1. CASE Aside
  BY <1>1 DEF Aside, Session, QuarantineEnds, vars, Login, Detach, Resume, EndSession
<1>2. CASE Restart
  BY <1>2 DEF Restart
<1>3. ASSUME NEW w \in Workers, NEW u \in Uids,
             \/ \E m \in Msgs, named \in Uids \cup {0} : SendStart(w, u, m, named)
             \/ FlushStart(w, u) \/ DrainStart(w, u)
             \/ \E m \in Ims, reads \in BOOLEAN : AckStart(w, u, m, reads)
      PROVE  UNCHANGED storeVars
  BY <1>3 DEF SendStart, FlushStart, DrainStart, AckStart
<1>4. ASSUME NEW w \in Workers,
             SendEnds(w) \/ Resolve(w) \/ Reading(w) \/ Hand(w) \/ Notices(w)
      PROVE  UNCHANGED storeVars
  BY <1>4 DEF SendEnds, SendLive, SendKnown, SendFull, SendFails, Resolve, Reading, Read,
              ReadFails, Hand, Notices, Notice, NoticeFails
<1> QED
  BY <1>1, <1>2, <1>3, <1>4, StepCases

Stamped == delivered \cup handed \cup read \cup stubs

LEMMA SeenStore ==
  ASSUME Typed, SeenInv, [Next]_vars
  PROVE  Stamped' \subseteq Seen'
<1> USE DEF Stamped
<1>0. Stamped \subseteq Seen'
  BY SeenGrows DEF Grown, SeenInv
<1>1. CASE UNCHANGED storeVars
  BY <1>0, <1>1 DEF storeVars
<1>2. ASSUME NEW w \in Workers, SendPush(w) PROVE Stamped' \subseteq Seen'
  BY <1>0, <1>2 DEF SendPush, Stored, storeVars
<1>3. ASSUME NEW w \in Workers, Stamps(w) PROVE Stamped' \subseteq Seen'
  <2>1. op[w].given \subseteq Seen'
    BY SeenGrows DEF Grown, SeenInv
  <2>2. CASE Stamp(w)
    BY <1>0, <2>1, <2>2 DEF Stamp, MarkDelivered
  <2>3. CASE StampHanded(w)
    BY <1>0, <2>1, <2>3 DEF StampHanded, MarkHanded
  <2>4. CASE StampSlips(w)
    BY <1>0, <2>4 DEF StampSlips, SlipsDelivered
  <2>5. CASE StampFails(w)
    BY <1>0, <2>1, <2>5 DEF StampFails, MarkDelivered
  <2>6. CASE HandedFails(w)
    BY <1>0, <2>6 DEF HandedFails, storeVars
  <2> QED
    BY <1>3, <2>2, <2>3, <2>4, <2>5, <2>6 DEF Stamps
<1>4. ASSUME NEW w \in Workers, Acks(w) PROVE Stamped' \subseteq Seen'
  <2>1. CASE AckMark(w)
    <3>1. {op[w].msg} \subseteq Seen'
      BY <2>1, SeenGrows DEF Grown, AckMark, SeenInv
    <3>2. delivered' \subseteq delivered \cup {op[w].msg} /\ read' \subseteq read \cup {op[w].msg}
      BY <2>1 DEF AckMark, MarkDelivered, Acked
    <3>3. handed' = handed /\ stubs' = stubs
      BY <2>1 DEF AckMark, MarkDelivered
    <3> QED
      BY <1>0, <3>1, <3>2, <3>3
  <2>2. CASE AckTold(w)
    BY <1>0, <2>2 DEF AckTold, ReceiptTold, storeVars
  <2>3. CASE AckTell(w) \/ AckSlip(w) \/ AckFails(w)
    BY <1>0, <2>3 DEF AckTell, AckSlip, AckFails, StoredSlip, storeVars
  <2> QED
    BY <1>4, <2>1, <2>2, <2>3 DEF Acks
<1>5. ASSUME NEW u \in Uids, NEW m \in Msgs, InboxMarkRead(u, m) PROVE Stamped' \subseteq Seen'
  BY <1>0, <1>5 DEF InboxMarkRead, MarkRead, Seen
<1>6. ASSUME NEW m \in Msgs, Prune(m) PROVE Stamped' \subseteq Seen'
  <2>1. CASE PruneRead(m)
    BY <1>0, <2>1 DEF PruneRead, Dropped
  <2>2. CASE PruneSent(m)
    BY <1>0, <2>2 DEF PruneSent, Dropped
  <2>3. CASE PruneSlip(m)
    BY <1>0, <2>3 DEF PruneSlip, SlipsDelivered
  <2> QED
    BY <1>6, <2>1, <2>2, <2>3 DEF Prune
<1>7. ASSUME NEW p \in Pairs, Friends(p) PROVE Stamped' \subseteq Seen'
  BY <1>0, <1>7 DEF Friends, Befriend, Unfriend
<1>8. CASE DayPasses
  BY <1>0, <1>8 DEF DayPasses, Age
<1> QED
  BY <1>1, <1>2, <1>3, <1>4, <1>5, <1>6, <1>7, <1>8, StoreCases

LEMMA SeenStep ==
  ASSUME Typed, SeenInv, [Next]_vars
  PROVE  SeenInv'
BY SeenStore, SeenUsers, SeenCalls DEF SeenInv, Stamped

\* A private message stays known, and what retention forgot forgotten; it
\* comes to the store by a push alone.
Pushing(m) ==
  \E w \in Workers : SendPush(w) /\ op[w].msg = m /\ m \notin Rows
LEMMA KnownStays ==
  ASSUME Typed, [Next]_vars
  PROVE  /\ closed \subseteq closed'
         /\ \A m \in Mails : Known(m) => Known(m)'
         /\ \A m \in Mails : m \in (Rows \cup stubs)' => m \in Rows \cup stubs \/ Pushing(m)
<1> DEFINE Stays == /\ closed \subseteq closed'
                    /\ \A m \in Mails : Known(m) => Known(m)'
                    /\ \A m \in Mails :
                         m \in (Rows \cup stubs)' => m \in Rows \cup stubs \/ Pushing(m)
<1> USE DEF Rows, Known
<1>0. Mails \cap Ims = {} /\ Mails \subseteq Msgs /\ id \in [Msgs -> Nat] /\ lastId \in Nat
  BY MessageStoreAssumption DEF Msgs, Typed, StoreTypeOK
<1>1. CASE id' = id /\ closed' = closed /\ stubs' = stubs
  BY <1>1
<1>2. ASSUME NEW w \in Workers, SendPush(w) PROVE Stays
  <2>1. CASE op[w].msg \in Rows
    BY <1>1, <1>2, <2>1 DEF SendPush, storeVars
  <2>2. CASE op[w].msg \notin Rows
    <3>1. /\ id' = [id EXCEPT ![op[w].msg] = lastId + 1] /\ closed' = closed /\ stubs' = stubs
      BY <1>2, <2>2 DEF SendPush, Stored
    <3>2. \A m \in Msgs : m # op[w].msg => id'[m] = id[m]
      BY <1>0, <3>1
    <3>3. \A m \in Msgs : id[m] # 0 => id'[m] # 0
      BY <1>0, <3>1
    <3>4. \A m \in Mails : m \in (Rows \cup stubs)' => m \in Rows \cup stubs \/ m = op[w].msg
      BY <1>0, <3>1, <3>2
    <3> QED
      BY <1>0, <1>2, <2>2, <3>1, <3>3, <3>4 DEF Pushing
  <2> QED
    BY <2>1, <2>2
<1>3. ASSUME NEW w \in Workers, Stamps(w) \/ Acks(w)
      PROVE  id' = id /\ closed' = closed /\ stubs' = stubs
  BY <1>3 DEF Stamps, Stamp, StampHanded, StampSlips, StampFails, HandedFails, Acks, AckMark,
              AckTold, AckTell, AckSlip, AckFails, MarkDelivered, MarkHanded, SlipsDelivered,
              ReceiptTold, StoredSlip, storeVars
<1>4. ASSUME NEW u \in Uids, NEW k \in Msgs, InboxMarkRead(u, k)
      PROVE  id' = id /\ closed' = closed /\ stubs' = stubs
  BY <1>4 DEF InboxMarkRead, MarkRead
<1>5. ASSUME NEW k \in Msgs, Prune(k) PROVE Stays
  <2>1. CASE PruneRead(k)
    <3>1. /\ id' = [id EXCEPT ![k] = 0] /\ k \in Rows /\ closed \subseteq closed'
          /\ stubs' = IF k \in Mails THEN stubs \cup {k} ELSE stubs \ {k}
      BY <2>1 DEF PruneRead, Dropped
    <3>2. \A m \in Msgs : m # k => id'[m] = id[m]
      BY <1>0, <3>1
    <3> QED
      BY <1>0, <3>1, <3>2
  <2>2. CASE PruneSent(k)
    <3>1. /\ id' = [id EXCEPT ![k] = 0] /\ closed' = closed \cup {k} /\ stubs' = stubs \ {k}
      BY <2>2 DEF PruneSent, Dropped
    <3>2. \A m \in Msgs : m # k => id'[m] = id[m]
      BY <1>0, <3>1
    <3>3. id'[k] = 0
      BY <1>0, <3>1
    <3> QED
      BY <1>0, <3>1, <3>2, <3>3
  <2>3. CASE PruneSlip(k)
    BY <1>1, <2>3 DEF PruneSlip, SlipsDelivered
  <2> QED
    BY <1>5, <2>1, <2>2, <2>3 DEF Prune
<1>6. ASSUME NEW p \in Pairs, Friends(p) PROVE id' = id /\ closed' = closed /\ stubs' = stubs
  BY <1>6 DEF Friends, Befriend, Unfriend
<1>7. CASE DayPasses \/ UNCHANGED storeVars
  BY <1>1, <1>7 DEF DayPasses, Age, storeVars
<1> QED
  BY <1>1, <1>2, <1>3, <1>4, <1>5, <1>6, <1>7, StoreCases

\* The friendship a private message was sent on is none.
LEMMA MailOn ==
  ASSUME Typed, SendInv, [Next]_vars
  PROVE  \A m \in Mails : on'[m] = 0
<1>0. on \in [Msgs -> Nat] /\ Mails \subseteq Msgs /\ \A m \in Mails : on[m] = 0
  BY DEF Typed, StoreTypeOK, Msgs, SendInv
<1>1. CASE UNCHANGED on
  BY <1>0, <1>1
<1>2. ASSUME NEW w \in Workers, SendPush(w) PROVE \A m \in Mails : on'[m] = 0
  <2>1. op[w].pc = "push" /\ (on' = on \/ on' = [on EXCEPT ![op[w].msg] = op[w].on])
    BY <1>2 DEF SendPush, Stored, storeVars
  <2>2. op[w].do = "send" => (op[w].msg \in Mails => op[w].on = 0)
    BY <2>1 DEF SendInv, SendCall
  <2>3. op[w].do = "send"
    BY <2>1 DEF SendInv, SendCall
  <2> QED
    BY <1>0, <2>1, <2>2, <2>3
<1>3. ASSUME NEW w \in Workers, Stamps(w) \/ Acks(w) PROVE on' = on
  BY <1>3 DEF Stamps, Stamp, StampHanded, StampSlips, StampFails, HandedFails, Acks, AckMark,
              AckTold, AckTell, AckSlip, AckFails, MarkDelivered, MarkHanded, SlipsDelivered,
              ReceiptTold, StoredSlip, storeVars
<1>4. ASSUME NEW u \in Uids, NEW k \in Msgs, InboxMarkRead(u, k) PROVE on' = on
  BY <1>4 DEF InboxMarkRead, MarkRead
<1>5. ASSUME NEW k \in Msgs, Prune(k) PROVE on' = on
  BY <1>5 DEF Prune, PruneRead, PruneSent, PruneSlip, Dropped, SlipsDelivered
<1>6. ASSUME NEW p \in Pairs, Friends(p) PROVE on' = on
  BY <1>6 DEF Friends, Befriend, Unfriend
<1>7. CASE DayPasses
  BY <1>1, <1>7 DEF DayPasses, Age
<1> QED
  BY <1>1, <1>2, <1>3, <1>4, <1>5, <1>6, <1>7, StoreCases DEF storeVars

\* A step leaves a call where it is, or is one of its own, or ends it.
LEMMA CallCases ==
  ASSUME Typed, [Next]_vars, NEW v \in Workers
  PROVE  \/ op'[v] = op[v] \/ op'[v] = Idle
         \/ \E u \in Uids, m \in Msgs, named \in Uids \cup {0} : SendStart(v, u, m, named)
         \/ \E u \in Uids : FlushStart(v, u) \/ DrainStart(v, u)
         \/ \E u \in Uids, m \in Ims, reads \in BOOLEAN : AckStart(v, u, m, reads)
         \/ SendEnds(v) \/ SendPush(v) \/ Resolve(v) \/ Reading(v) \/ Hand(v)
         \/ Stamps(v) \/ Notices(v) \/ Acks(v)
<1>1. CASE Aside \/ Restart
  BY <1>1, AsideAfter DEF Restart
<1>2. ASSUME NEW w \in Workers \ {v},
         \/ \E u \in Uids, m \in Msgs, named \in Uids \cup {0} : SendStart(w, u, m, named)
         \/ \E u \in Uids : FlushStart(w, u) \/ DrainStart(w, u)
         \/ \E u \in Uids, m \in Ims, reads \in BOOLEAN : AckStart(w, u, m, reads)
         \/ SendEnds(w) \/ SendPush(w) \/ Resolve(w) \/ Reading(w) \/ Hand(w)
         \/ Stamps(w) \/ Notices(w) \/ Acks(w)
       PROVE  op'[v] = op[v]
  <2>1. Others(w)
    BY <1>2, SendStartAfter, StartsAfter, AckStartAfter, SendEndsAfter, SendPushAfter,
       ResolveAfter, ReadAfter, HandAfter, StampAfter, NoticesAfter, AckAfter
       DEF Reading, Stamps, Acks
  <2> QED
    BY <2>1 DEF Others
<1> QED
  BY <1>1, <1>2, StepCases

LEMMA SendCalls ==
  ASSUME Typed, SendInv, [Next]_vars, NEW v \in Workers
  PROVE  SendCall(v)'
<1> USE DEF SendCall
<1>0. SendCall(v)
  BY DEF SendInv
<1>1. CASE op'[v] = op[v]
  BY <1>0, <1>1, KnownStays
<1>2. CASE op'[v] = Idle
  BY <1>2, IdleFresh
<1>3. ASSUME NEW u \in Uids, NEW m \in Msgs, NEW named \in Uids \cup {0},
             SendStart(v, u, m, named)
      PROVE  SendCall(v)'
  <2>1. /\ op'[v].pc \in {"push", "live"} /\ op'[v].do = "send" /\ op'[v].msg = m
        /\ op'[v].box = To[m] /\ (m \in Mails => op'[v].on = 0)
    BY <1>3, SendStartAfter
  <2> QED
    BY <2>1 DEF Inside
<1>4. ASSUME NEW u \in Uids, FlushStart(v, u) \/ DrainStart(v, u) PROVE SendCall(v)'
  BY <1>4, StartsAfter
<1>5. ASSUME NEW u \in Uids, NEW m \in Ims, NEW reads \in BOOLEAN, AckStart(v, u, m, reads)
      PROVE  SendCall(v)'
  BY <1>5, AckStartAfter
<1>6. CASE SendPush(v)
  <2>1. op[v].msg \in Msgs
    BY <1>0, <1>6, SendPushAfter
  <2>2. op[v].msg \in Rows'
    BY <1>6, <2>1 DEF SendPush, Stored, storeVars, Rows, Typed, StoreTypeOK
  <2> QED
    BY <1>0, <1>6, <2>2, SendPushAfter DEF SameCall, Known
<1>7. CASE Resolve(v) \/ Reading(v) \/ Hand(v) \/ Stamps(v)
  <2>1. SameCall(v) \/ op'[v] = Idle
    BY <1>7, ResolveAfter, ReadAfter, HandAfter, StampAfter DEF Reading, Stamps
  <2>2. op[v].do = "send" => op[v].pc \in Inside
    BY <1>0, <1>7, ResolveAfter, ReadAfter, HandAfter, StampAfter
       DEF Reading, Stamps, Inside
  <2>3. op'[v].pc \notin {"push", "lock", "resolve"}
    BY <1>7, ResolveAfter, ReadAfter, HandAfter, StampAfter, IdleFresh DEF Reading, Stamps
  <2> QED
    BY <1>0, <1>2, <2>1, <2>2, <2>3, KnownStays DEF SameCall
<1>8. CASE SendEnds(v) \/ Notices(v)
  BY <1>2, <1>8, SendEndsAfter, NoticesAfter
<1>9. CASE Acks(v)
  BY <1>0, <1>2, <1>9, AckAfter DEF Acks, SameCall, Inside
<1> QED
  BY <1>1, <1>2, <1>3, <1>4, <1>5, <1>6, <1>7, <1>8, <1>9, CallCases

LEMMA SendStep ==
  ASSUME Typed, SendInv, [Next]_vars
  PROVE  SendInv'
BY MailOn, SendCalls DEF SendInv

LEMMA TargetsApart ==
  ASSUME NEW w \in Workers, NEW u \in Uids, NEW v \in Uids, Targets(w)[u] = "instant"
  PROVE  Targets(w)[v] \in {"none", "instant"}
BY DEF Targets, WhichOf

\* What pending_of reads are rows of the mailbox.
LEMMA PendingRows ==
  ASSUME NEW w \in Workers, NEW k \in Lots, NEW m \in Pending(op[w], k)
  PROVE  /\ m \in Rows /\ To[m] = op[w].box /\ m \notin delivered
         /\ k = "instant" => m \in Ims
         /\ k # "instant" => m \in Waiting(op[w].box)
<1>1. \A S, n, key : Oldest(S, n, key) \subseteq S
  BY DEF Oldest
<1>2. \/ k # "instant" /\ m \in Waiting(op[w].box)
      \/ k = "instant" /\ m \in Instant(op[w].box, op[w].do = "drain")
  BY <1>1 DEF Pending, WaitingMail, Lots
<1> QED
  BY <1>2 DEF Waiting, Instant

LEMMA NoBatchEmpty == \A k \in Lots : NoBatch[k] = {}
BY DEF NoBatch, Lots

LEMMA BatchStep ==
  ASSUME Typed, BatchInv, [Next]_vars
  PROVE  BatchInv'
<1> SUFFICES ASSUME NEW v \in Workers PROVE BatchCall(v)'
  BY DEF BatchInv
<1> USE DEF BatchCall
<1>0. BatchCall(v)
  BY DEF BatchInv
<1>00. "instant" \in Lots
  BY DEF Lots
<1>1. CASE op'[v] = op[v]
  <2>1. \A k \in Lots : \A m \in op[v].batch[k] : m \in Mails => Known(m)'
    BY <1>0, KnownStays
  <2> QED
    BY <1>0, <1>1, <2>1
<1>2. CASE Fresh(op'[v]) /\ op'[v].pc \notin {"read", "hand"}
  BY <1>2, <1>00, NoBatchEmpty DEF Fresh
<1>3. CASE SameRows(v) /\ op[v].pc # "hand" /\ op'[v].pc \notin {"read", "hand"}
  <2>1. \A k \in Lots : op'[v].batch[k] = {}
    BY <1>0, <1>3 DEF SameRows
  <2> QED
    BY <1>3, <1>00, <2>1
<1>4. ASSUME NEW u \in Uids,
         \/ \E m \in Msgs, named \in Uids \cup {0} : SendStart(v, u, m, named)
         \/ FlushStart(v, u) \/ DrainStart(v, u)
         \/ \E m \in Ims, reads \in BOOLEAN : AckStart(v, u, m, reads)
      PROVE  BatchCall(v)'
  BY <1>2, <1>4, SendStartAfter, StartsAfter, AckStartAfter
<1>5. CASE SendPush(v) \/ Stamps(v) \/ Acks(v) \/ SendEnds(v) \/ Notices(v) \/ op'[v] = Idle
  BY <1>2, <1>3, <1>5, SendPushAfter, StampAfter, AckAfter, SendEndsAfter, NoticesAfter,
     IdleFresh DEF Stamps, Acks
<1>6. CASE Resolve(v)
  <2>1. op'[v].pc = "read" /\ op'[v].which = Targets(v) /\ op[v].pc # "hand" /\ SameRows(v)
    BY <1>6, ResolveAfter
  <2>2. \A k \in Lots : op'[v].batch[k] = {}
    BY <1>0, <2>1 DEF SameRows
  <2> QED
    BY <1>00, <2>1, <2>2, TargetsApart
<1>7. CASE Reading(v)
  <2>1. op[v].pc = "read" /\ \A k \in Lots : op[v].batch[k] = {}
    BY <1>0, <1>7, ReadAfter DEF Reading
  <2>2. CASE op'[v] = Idle
    BY <2>2, <1>5
  <2>3. CASE op'[v] # Idle
    <3>1. /\ SameCall(v) /\ op'[v].pc = "hand" /\ op'[v].which = op[v].which
          /\ \A k \in Lots : op'[v].batch[k] \in {op[v].batch[k], Pending(op[v], k)}
      BY <1>7, <2>3, ReadAfter DEF Reading
    <3>2. \A k \in Lots : op'[v].batch[k] \subseteq Pending(op[v], k)
      BY <2>1, <3>1
    <3>3. \A k \in Lots : \A m \in op'[v].batch[k] :
            /\ m \in Msgs /\ To[m] = op[v].box /\ (k = "instant" => m \in Ims)
            /\ m \in Mails => Known(m)'
      <4>1. \A k \in Lots : \A m \in op'[v].batch[k] :
              m \in Rows /\ To[m] = op[v].box /\ (k = "instant" => m \in Ims)
        BY <3>2, PendingRows
      <4> QED
        BY <4>1, KnownStays DEF Known, Rows
    <3> QED
      BY <1>0, <1>00, <2>1, <3>1, <3>3 DEF SameCall
  <2> QED
    BY <2>2, <2>3
<1>8. CASE Hand(v)
  BY <1>8, <1>00, HandAfter, NoBatchEmpty
<1> QED
  BY <1>1, <1>4, <1>5, <1>6, <1>7, <1>8, CallCases

LEMMA QuarantineSteps ==
  ASSUME Typed, NEW u \in Uids
  PROVE  /\ \A v \in Uids : freed' = Append(freed, v) =>
                 (InQuarantine(u)' <=> InQuarantine(u) \/ u = v)
         /\ freed # <<>> /\ freed' = Tail(freed) =>
                 /\ InQuarantine(u)' => InQuarantine(u)
                 /\ InQuarantine(u) => InQuarantine(u)' \/ u = Head(freed)
<1> USE DEF InQuarantine
<1>0. freed \in Seq(Uids)
  BY DEF Typed, SessTyped
<1>1. ASSUME NEW v \in Uids, freed' = Append(freed, v)
      PROVE  InQuarantine(u)' <=> InQuarantine(u) \/ u = v
  <2>1. /\ Len(freed') = Len(freed) + 1 /\ freed' \in Seq(Uids)
        /\ \A i \in 1..Len(freed) : freed'[i] = freed[i]
        /\ freed'[Len(freed) + 1] = v
    BY <1>0, <1>1, AppendProperties
  <2>2. DOMAIN freed = 1..Len(freed) /\ DOMAIN freed' = 1..Len(freed') /\ Len(freed) \in Nat
    BY <1>0, <2>1, LenProperties
  <2> QED
    BY <2>1, <2>2
<1>2. ASSUME freed # <<>>, freed' = Tail(freed)
      PROVE  /\ InQuarantine(u)' => InQuarantine(u)
             /\ InQuarantine(u) => InQuarantine(u)' \/ u = Head(freed)
  <2>1. /\ Len(freed') = Len(freed) - 1 /\ freed' \in Seq(Uids)
        /\ \A i \in 1..Len(freed') : freed'[i] = freed[i + 1]
        /\ Head(freed) = freed[1] /\ Len(freed) \in Nat
    BY <1>0, <1>2, HeadTailProperties, LenProperties
  <2>2. DOMAIN freed = 1..Len(freed) /\ DOMAIN freed' = 1..Len(freed')
    BY <1>0, <2>1, LenProperties
  <2>3. InQuarantine(u)' => InQuarantine(u)
    BY <2>1, <2>2
  <2>4. ASSUME NEW i \in DOMAIN freed, freed[i] = u PROVE InQuarantine(u)' \/ u = Head(freed)
    <3>1. CASE i = 1
      BY <2>1, <2>4, <3>1
    <3>2. CASE i # 1
      <4>1. i - 1 \in DOMAIN freed' /\ freed'[i - 1] = freed[(i - 1) + 1]
        BY <2>1, <2>2, <3>2
      <4>2. (i - 1) + 1 = i
        BY <2>2
      <4> QED
        BY <2>4, <4>1, <4>2
    <3> QED
      BY <3>1, <3>2
  <2> QED
    BY <2>3, <2>4
<1> QED
  BY <1>1, <1>2

\* The steps that start, end or release a session or its uid.
Turnover ==
  \/ \E u \in Uids, a \in Accounts : \E k \in Wire[a] : Login(u, a, k)
  \/ \E u \in Uids : EndSession(u)
  \/ QuarantineEnds \/ Restart

\* Every other step leaves the quarantine, and a session it changes is there
\* and stays its account's.
LEMMA UidsStay ==
  ASSUME Typed, [Next]_vars, ~Turnover
  PROVE  /\ freed' = freed /\ early' = early
         /\ \A u \in Uids :
              \/ users'[u] = users[u]
              \/ /\ users[u] # NoUser /\ users'[u].acct = users[u].acct
                 /\ users[u].sink # "none" => users'[u].sink # "none"
<1>0. users \in [Uids -> Users] /\ NoUser.sink = "none" /\ NoUser.due = FALSE
  BY DEF Typed, SessTyped, NoUser
<1> DEFINE Stay == /\ freed' = freed /\ early' = early
                   /\ \A u \in Uids :
                        \/ users'[u] = users[u]
                        \/ /\ users[u] # NoUser /\ users'[u].acct = users[u].acct
                           /\ users[u].sink # "none" => users'[u].sink # "none"
<1>1. ASSUME NEW v \in Uids, Detach(v) PROVE Stay
  BY <1>0, <1>1 DEF Detach, histVars, Users
<1>2. ASSUME NEW v \in Uids, Resume(v) PROVE Stay
  BY <1>0, <1>2 DEF Resume, histVars, Users
<1>3. ASSUME NEW w \in Workers, NEW v \in Uids, NEW m \in Msgs, NEW named \in Uids \cup {0},
             SendStart(w, v, m, named)
      PROVE  Stay
  BY <1>0, <1>3 DEF SendStart, Holds, Live, histVars, Users
<1>4. ASSUME NEW w \in Workers, NEW v \in Uids, FlushStart(w, v) PROVE Stay
  BY <1>0, <1>4 DEF FlushStart, histVars, Users
<1>5. ASSUME NEW w \in Workers, NEW v \in Uids, DrainStart(w, v) PROVE Stay
  BY <1>0, <1>5 DEF DrainStart, Live, histVars, Users
<1>6. ASSUME NEW w \in Workers, NEW v \in Uids, NEW m \in Ims, NEW reads \in BOOLEAN,
             AckStart(w, v, m, reads)
      PROVE  Stay
  BY <1>0, <1>6 DEF AckStart, Holds, Live, histVars, Users
<1>7. ASSUME NEW w \in Workers, Hand(w) PROVE Stay
  <2>1. freed' = freed /\ early' = early
    BY <1>7 DEF Hand
  <2>2. \A u \in There(w) : users[u] # NoUser
    BY <1>0, <1>7, HandUsers DEF Live
  <2> QED
    BY <1>7, <2>1, <2>2, HandUsers
<1>11. ASSUME NEW w \in Workers, SendLive(w) PROVE Stay
  <2>1. freed' = freed /\ early' = early
    BY <1>11 DEF SendLive
  <2>2. \A u \in Uids : Live(u) => users[u] # NoUser
    BY <1>0 DEF Live
  <2>3. \A u \in Uids : Noted(u, op[w].msg) /\ (users'[u] = users[u] \/ Live(u))
    BY <1>11, SendLiveUsers
  <2>4. \A u \in Uids : /\ users'[u].acct = users[u].acct
                        /\ users[u].sink # "none" => users'[u].sink # "none"
    BY <2>3 DEF Noted
  <2> QED
    BY <2>1, <2>2, <2>3, <2>4
<1>8. ASSUME NEW w \in Workers, \/ SendEnds(w) \/ SendPush(w) \/ Resolve(w) \/ Reading(w)
                                \/ Stamps(w) \/ Notices(w) \/ Acks(w), ~SendLive(w)
      PROVE  users' = users /\ freed' = freed /\ early' = early
  BY <1>8 DEF SendEnds, SendKnown, SendFull, SendFails, SendPush, Resolve, Reading,
              Read, ReadFails, Stamps, Stamp, StampHanded, StampSlips, StampFails, HandedFails,
              Notices, Notice, NoticeFails, Acks, AckMark, AckTold, AckTell, AckSlip, AckFails,
              sessVars, histVars
<1>9. ASSUME \/ \E u \in Uids, m \in Msgs : InboxMarkRead(u, m)
             \/ \E m \in Msgs : Prune(m)
             \/ \E p \in Pairs : Friends(p)
             \/ DayPasses
             \/ UNCHANGED vars
      PROVE  users' = users /\ freed' = freed /\ early' = early
  BY <1>9 DEF InboxMarkRead, Prune, Friends, DayPasses, vars, sessVars, histVars
<1>10. CASE Aside
  BY <1>1, <1>2, <1>9, <1>10 DEF Aside, Session, Turnover
<1> QED
  BY <1>3, <1>4, <1>5, <1>6, <1>7, <1>8, <1>10, <1>11, StepCases DEF Turnover

\* A call that names u after a step of its own: it named u before, or u is
\* its mailbox's session.
LEMMA NamesStep ==
  ASSUME Typed, SendInv, [Next]_vars, ~Turnover, NEW w \in Workers, NEW u \in Uids, Names(w, u)'
  PROVE  \/ Names(w, u) /\ op'[w].box = op[w].box
         \/ users[u].acct = op'[w].box /\ users[u].sink # "none"
<1> USE DEF Names
<1>1. CASE op'[w] = op[w]
  BY <1>1
<1>2. CASE op'[w] = Idle
  BY <1>2, IdleFresh
<1>3. ASSUME NEW v \in Uids,
         \/ \E m \in Msgs, named \in Uids \cup {0} : SendStart(w, v, m, named)
         \/ \E m \in Ims, reads \in BOOLEAN : AckStart(w, v, m, reads)
      PROVE  FALSE
  BY <1>3, SendStartAfter, AckStartAfter
<1>4. ASSUME NEW v \in Uids, FlushStart(w, v) \/ DrainStart(w, v)
      PROVE  users[u].acct = op'[w].box /\ users[u].sink # "none"
  BY <1>4, StartsAfter DEF Live
<1>5. CASE SendPush(w) \/ Stamps(w) \/ Acks(w) \/ SendEnds(w) \/ Notices(w) \/ Hand(w)
  BY <1>2, <1>5, SendPushAfter, StampAfter, AckAfter, SendEndsAfter, NoticesAfter, HandAfter
     DEF Stamps, Acks
<1>6. CASE Reading(w)
  BY <1>2, <1>6, ReadAfter DEF Reading, SameCall
<1>7. CASE Resolve(w)
  <2>1. Targets(w)[u] = "instant" /\ op'[w].box = op[w].box
    BY <1>7, ResolveAfter DEF SameCall
  <2>2. CASE op[w].do = "drain"
    <3>1. op[w].by = u
      BY <2>1, <2>2 DEF Targets
    <3>2. op[w].pc = "lock"
      BY <1>7, <2>2, ResolveAfter DEF SendInv, SendCall
    <3> QED
      BY <2>1, <2>2, <3>1, <3>2
  <2>3. CASE op[w].do # "drain"
    <3>1. u \in AttachedOf(op[w].box, op[w].by)
      BY <2>1, <2>3 DEF Targets, WhichOf
    <3> QED
      BY <2>1, <3>1 DEF AttachedOf, SessionsOf, Live
  <2> QED
    BY <2>2, <2>3
<1> QED
  BY <1>1, <1>2, <1>3, <1>4, <1>5, <1>6, <1>7, CallCases

\* What the quarantine is for: a uid a call has named by number is still its
\* mailbox's, or nobody's.
LEMMA UidStep ==
  ASSUME Typed, SendInv, UidInv, [Next]_vars
  PROVE  UidInv'
<1>0. NoUser.sink = "none" /\ users \in [Uids -> Users]
  BY DEF NoUser, Typed, SessTyped
<1>00. CASE early
  <2>1. early'
    <3>1. CASE Turnover
      BY <1>00, <3>1 DEF Turnover, Login, EndSession, QuarantineEnds, Restart, histVars
    <3> QED
      BY <1>00, <3>1, UidsStay
  <2> QED
    BY <2>1 DEF UidInv
<1> SUFFICES ASSUME ~early PROVE UidInv'
  BY <1>00
<1>01. /\ \A u \in Uids : InQuarantine(u) => users[u] = NoUser
       /\ \A w \in Workers, u \in Uids :
            Names(w, u) => \/ users[u].acct = op[w].box /\ users[u].sink # "none"
                           \/ InQuarantine(u)
  BY DEF UidInv
<1>1. ASSUME NEW u \in Uids, NEW a \in Accounts, NEW k \in Wire[a], Login(u, a, k)
      PROVE  UidInv'
  <2>1. CASE Unused = {}
    BY <1>1, <2>1 DEF Login, UidInv
  <2>2. CASE Unused # {}
    <3>1. u \in Unused /\ freed' = freed /\ op' = op
      BY <1>1, <2>2 DEF Login, NextUids, Lowest, After, callVars
    <3>2. users[u] = NoUser /\ ~InQuarantine(u)
      BY <3>1 DEF Unused, InQuarantine
    <3>3. \A v \in Uids \ {u} : users'[v] = users[v]
      BY <1>0, <1>1 DEF Login
    <3>4. \A w \in Workers : ~Names(w, u)
      BY <1>0, <1>01, <3>2
    <3>5. \A v \in Uids : InQuarantine(v)' <=> InQuarantine(v)
      BY <3>1 DEF InQuarantine
    <3>6. \A w \in Workers, v \in Uids : Names(w, v)' <=> Names(w, v)
      BY <3>1 DEF Names
    <3>7. \A v \in Uids : InQuarantine(v)' => users'[v] = NoUser
      BY <1>01, <3>2, <3>3, <3>5
    <3>8. \A w \in Workers, v \in Uids : Names(w, v)' =>
             \/ users'[v].acct = op'[w].box /\ users'[v].sink # "none"
             \/ InQuarantine(v)'
      BY <1>01, <3>1, <3>3, <3>4, <3>5, <3>6
    <3> QED
      BY <3>7, <3>8 DEF UidInv
  <2> QED
    BY <2>1, <2>2
<1>2. ASSUME NEW u \in Uids, EndSession(u) PROVE UidInv'
  <2>1. freed' = Append(freed, u) /\ op' = op
    BY <1>2 DEF EndSession, callVars
  <2>2. users'[u] = NoUser /\ \A v \in Uids \ {u} : users'[v] = users[v]
    BY <1>0, <1>2 DEF EndSession
  <2>3. \A v \in Uids : InQuarantine(v)' <=> InQuarantine(v) \/ v = u
    BY <2>1, QuarantineSteps
  <2>4. \A w \in Workers, v \in Uids : Names(w, v)' <=> Names(w, v)
    BY <2>1 DEF Names
  <2>5. \A v \in Uids : InQuarantine(v)' => users'[v] = NoUser
    BY <1>01, <2>2, <2>3
  <2>6. \A w \in Workers, v \in Uids : Names(w, v)' =>
           \/ users'[v].acct = op'[w].box /\ users'[v].sink # "none"
           \/ InQuarantine(v)'
    BY <1>01, <2>1, <2>2, <2>3, <2>4
  <2> QED
    BY <2>5, <2>6 DEF UidInv
<1>3. CASE QuarantineEnds
  <2>1. freed # <<>> /\ freed' = Tail(freed) /\ op' = op /\ users' = users
    BY <1>3 DEF QuarantineEnds, callVars
  <2>2. \A w \in Workers : ~Names(w, Head(freed))
    BY <1>3 DEF QuarantineEnds, Uses, Names
  <2>3. \A v \in Uids : /\ InQuarantine(v)' => InQuarantine(v)
                        /\ InQuarantine(v) => InQuarantine(v)' \/ v = Head(freed)
    BY <2>1, QuarantineSteps
  <2>4. \A w \in Workers, v \in Uids : Names(w, v)' <=> Names(w, v)
    BY <2>1 DEF Names
  <2>5. \A v \in Uids : InQuarantine(v)' => users'[v] = NoUser
    BY <1>01, <2>1, <2>3
  <2>6. \A w \in Workers, v \in Uids : Names(w, v)' =>
           \/ users'[v].acct = op'[w].box /\ users'[v].sink # "none"
           \/ InQuarantine(v)'
    BY <1>01, <2>1, <2>2, <2>3, <2>4
  <2> QED
    BY <2>5, <2>6 DEF UidInv
<1>4. CASE Restart
  <2>1. \A v \in Uids : users'[v] = NoUser
    BY <1>4 DEF Restart
  <2>2. \A w \in Workers, v \in Uids : ~Names(w, v)'
    BY <1>4, IdleFresh DEF Restart, Names
  <2> QED
    BY <2>1, <2>2 DEF UidInv
<1>5. CASE ~Turnover
  <2>1. /\ freed' = freed
        /\ \A u \in Uids :
             \/ users'[u] = users[u]
             \/ /\ users[u] # NoUser /\ users'[u].acct = users[u].acct
                /\ users[u].sink # "none" => users'[u].sink # "none"
    BY <1>5, UidsStay
  <2>2. \A v \in Uids : InQuarantine(v)' <=> InQuarantine(v)
    BY <2>1 DEF InQuarantine
  <2>3. \A v \in Uids : InQuarantine(v)' => users'[v] = NoUser
    BY <1>01, <2>1, <2>2
  <2>4. ASSUME NEW w \in Workers, NEW v \in Uids, Names(w, v)'
        PROVE  \/ users'[v].acct = op'[w].box /\ users'[v].sink # "none"
               \/ InQuarantine(v)'
    BY <1>01, <1>5, <2>1, <2>2, <2>4, NamesStep
  <2> QED
    BY <2>3, <2>4 DEF UidInv
<1> QED
  BY <1>1, <1>2, <1>3, <1>4, <1>5 DEF Turnover

LEMMA MailboxStep ==
  ASSUME Typed, BatchInv, UidInv, RightMailbox, [Next]_vars
  PROVE  RightMailbox'
<1>1. early => early'
  <2>1. CASE Turnover
    BY <2>1 DEF Turnover, Login, EndSession, QuarantineEnds, Restart, histVars
  <2> QED
    BY <2>1, UidsStay
<1>2. CASE \A w \in Workers : ~Hand(w)
  BY <1>1, <1>2, UsersStep DEF RightMailbox, Kept, Emptied
<1>3. ASSUME NEW w \in Workers, Hand(w), NEW u \in Uids, NEW m \in users'[u].got
      PROVE  To[m] = users'[u].acct \/ (m \in Ims /\ early')
  <2>1. CASE m \in users[u].got
    <3>1. users'[u].acct = users[u].acct
      BY <1>3, HandUsers
    <3> QED
      BY <1>1, <2>1, <3>1 DEF RightMailbox
  <2>2. CASE m \notin users[u].got
    <3>1. u \in There(w) /\ m \in BatchFor(w, u) /\ users'[u].acct = users[u].acct /\ Live(u)
      BY <1>3, <2>2, HandUsers
    <3>2. BatchCall(w) /\ op[w].pc = "hand" /\ op[w].which[u] \in Kinds
      BY <1>3, HandAfter DEF BatchInv, Typed, CallTyped, Calls, CallRecs, Reads
    <3>3. op[w].which[u] \in Lots /\ m \in op[w].batch[op[w].which[u]]
      BY <3>1, <3>2 DEF BatchFor, Kinds, Lots
    <3>4. To[m] = op[w].box
      BY <3>2, <3>3 DEF BatchCall
    <3>5. CASE op[w].which[u] # "instant"
      BY <3>1, <3>3, <3>4, <3>5 DEF There, StillThere, Holds, Lots
    <3>6. CASE op[w].which[u] = "instant"
      <4>1. m \in Ims /\ Names(w, u)
        BY <3>2, <3>3, <3>6 DEF BatchCall, Names
      <4>2. early \/ users[u].acct = op[w].box \/ users[u] = NoUser
        BY <4>1 DEF UidInv
      <4> QED
        BY <1>1, <3>1, <3>4, <4>1, <4>2 DEF Live, NoUser
    <3> QED
      BY <3>5, <3>6
  <2> QED
    BY <2>1, <2>2
<1> QED
  BY <1>2, <1>3 DEF RightMailbox

\* The answer at the end of a flush: what it handed over was seen, and so was
\* a row that a retry finds waiting no more.
Backed == Seen \cup unstored
LEMMA AnsweredSeen ==
  ASSUME Typed, SeenInv, SendInv, AnsweredTruly, NEW w \in Workers, op[w].pc \in Inside,
         NEW g, g \subseteq Seen, Answered(w, g), NEW m \in Msgs \ closed,
         answer'[m] = "delivered"
  PROVE  m \in Backed
<1> USE DEF Backed
<1>1. CASE answer'[m] = answer[m]
  BY <1>1 DEF AnsweredTruly, Seen
<1>2. CASE answer'[m] # answer[m]
  <2>1. op[w].do = "send" /\ m = op[w].msg /\ Arrived(op[w], g)
    BY <1>2 DEF Answered, Typed, CallTyped
  <2>2. To[m] = op[w].box /\ (m \in Mails => m \in Rows \cup stubs)
    BY <2>1 DEF SendInv, SendCall, Known
  <2>3. CASE m \in Mails /\ m \notin Waiting(op[w].box)
    <3>1. on[m] = 0
      BY <2>3 DEF SendInv
    <3>2. m \in delivered \cup handed \cup stubs
      BY <2>2, <2>3, <3>1 DEF Waiting, LiveRow
    <3> QED
      BY <3>2 DEF SeenInv
  <2> QED
    BY <2>1, <2>3 DEF Arrived
<1> QED
  BY <1>1, <1>2

LEMMA AnswerStep ==
  ASSUME Typed, SeenInv, SendInv, AnsweredTruly, [Next]_vars
  PROVE  AnsweredTruly'
<1> USE DEF Backed
<1> SUFFICES ASSUME NEW m \in Msgs \ closed', answer'[m] = "delivered" PROVE m \in Backed'
  BY DEF AnsweredTruly, Seen
<1>0. m \notin closed /\ Backed \subseteq Backed'
  BY KnownStays, SeenGrows DEF Grown
<1>1. CASE answer' = answer
  BY <1>0, <1>1 DEF AnsweredTruly, Seen
<1>2. ASSUME NEW w \in Workers, SendEnds(w) PROVE m \in Backed'
  <2>1. CASE answer'[m] = answer[m]
    BY <1>0, <2>1 DEF AnsweredTruly, Seen
  <2>2. CASE answer'[m] # answer[m]
    <3>0. answer \in [Msgs -> Answers]
      BY DEF Typed, CallTyped
    <3>1. CASE SendLive(w)
      BY <2>2, <3>0, <3>1 DEF SendLive, Seen
    <3>2. CASE SendKnown(w)
      <4>1. m \in stubs \cup delivered
        BY <2>2, <3>0, <3>2 DEF SendKnown
      <4> QED
        BY <1>0, <4>1 DEF SeenInv
    <3>3. CASE SendFull(w) \/ SendFails(w)
      BY <2>2, <3>0, <3>3 DEF SendFull, SendFails
    <3> QED
      BY <1>2, <3>1, <3>2, <3>3 DEF SendEnds
  <2> QED
    BY <2>1, <2>2
<1>3. ASSUME NEW w \in Workers, op[w].pc \in Inside, NEW g, g \subseteq Seen, Answered(w, g)
      PROVE  m \in Backed'
  BY <1>0, <1>3, AnsweredSeen
<1>4. ASSUME NEW w \in Workers, Reading(w) \/ Stamps(w) \/ Notices(w) PROVE m \in Backed'
  <2>1. op[w].pc \in Inside /\ op[w].given \subseteq Seen /\ {} \subseteq Seen
    BY <1>4, ReadAfter, StampAfter, NoticesAfter DEF Reading, Stamps, Inside, SeenInv
  <2>2. answer' = answer \/ Answered(w, {}) \/ Answered(w, op[w].given)
    BY <1>4, ReadAfter, StampAfter, NoticesAfter DEF Reading, Stamps
  <2> QED
    BY <1>1, <1>3, <2>1, <2>2
<1>5. ASSUME NEW w \in Workers,
             \/ \E u \in Uids, k \in Msgs, named \in Uids \cup {0} : SendStart(w, u, k, named)
             \/ \E u \in Uids : FlushStart(w, u) \/ DrainStart(w, u)
             \/ \E u \in Uids, k \in Ims, reads \in BOOLEAN : AckStart(w, u, k, reads)
             \/ SendPush(w) \/ Resolve(w) \/ Hand(w) \/ Acks(w)
      PROVE  answer' = answer
  BY <1>5 DEF SendStart, FlushStart, DrainStart, AckStart, SendPush, Resolve, Hand, Acks,
              AckMark, AckTold, AckTell, AckSlip, AckFails
<1>6. CASE Aside \/ Restart
  BY <1>1, <1>6, AsideAfter DEF Restart
<1> QED
  BY <1>1, <1>2, <1>4, <1>5, <1>6, StepCases

(***************************************************************************)
(* Once.                                                                   *)
(***************************************************************************)
LEMMA FailedGrows == ASSUME [Next]_vars PROVE failed \subseteq failed'
<1>1. CASE Aside
  BY <1>1 DEF Aside, Session, QuarantineEnds, InboxMarkRead, Prune, Friends, DayPasses, vars,
              histVars, Login, Detach, Resume, EndSession
<1>2. CASE Restart
  BY <1>2 DEF Restart
<1>3. ASSUME NEW w \in Workers, NEW u \in Uids,
             \/ \E m \in Msgs, named \in Uids \cup {0} : SendStart(w, u, m, named)
             \/ FlushStart(w, u) \/ DrainStart(w, u)
             \/ \E m \in Ims, reads \in BOOLEAN : AckStart(w, u, m, reads)
      PROVE  failed \subseteq failed'
  BY <1>3 DEF SendStart, FlushStart, DrainStart, AckStart, histVars
<1>4. ASSUME NEW w \in Workers, SendEnds(w) \/ SendPush(w) \/ Resolve(w) \/ Reading(w) \/ Hand(w)
      PROVE  failed \subseteq failed'
  BY <1>4 DEF SendEnds, SendLive, SendKnown, SendFull, SendFails, SendPush, Resolve,
              Reading, Read, ReadFails, Hand, histVars
<1>5. ASSUME NEW w \in Workers, Stamps(w) \/ Notices(w) \/ Acks(w) PROVE failed \subseteq failed'
  BY <1>5 DEF Stamps, Stamp, StampHanded, StampSlips, StampFails, HandedFails, Notices, Notice,
              NoticeFails, Acks, AckMark, AckTold, AckTell, AckSlip, AckFails, histVars
<1> QED
  BY <1>1, <1>2, <1>3, <1>4, <1>5, StepCases

\* A stamp, or the end of a row, is for good.
Settles(m) == m \in delivered \/ Gone(m)
LEMMA SettledStays ==
  ASSUME Typed, [Next]_vars, NEW m \in Mails, Settles(m), m \notin closed'
  PROVE  Settles(m)'
<1> USE DEF Settles, Gone, Rows
<1>0. m \in Msgs /\ m \notin Ims
  BY MessageStoreAssumption DEF Msgs
<1>1. CASE UNCHANGED storeVars
  BY <1>1 DEF storeVars
<1>2. ASSUME NEW w \in Workers, SendPush(w) PROVE Settles(m)'
  <2>1. CASE op[w].msg \in Rows
    BY <1>2, <2>1 DEF SendPush, storeVars
  <2>2. CASE op[w].msg \notin Rows
    <3>1. Stored(op[w].msg, op[w].on) /\ op[w].msg \notin stubs /\ op[w].pc = "push"
          /\ op[w].msg \notin delivered
      BY <1>2, <2>2 DEF SendPush
    <3> QED
      BY <3>1 DEF Stored, Typed, StoreTypeOK
  <2> QED
    BY <2>1, <2>2
<1>3. ASSUME NEW w \in Workers, Stamps(w) \/ Acks(w) PROVE Settles(m)'
  BY <1>3 DEF Stamps, Stamp, StampHanded, StampSlips, StampFails, HandedFails, Acks, AckMark,
              AckTold, AckTell, AckSlip, AckFails, MarkDelivered, MarkHanded, SlipsDelivered,
              ReceiptTold, StoredSlip, storeVars
<1>4. ASSUME NEW u \in Uids, NEW k \in Msgs, InboxMarkRead(u, k) PROVE Settles(m)'
  BY <1>4 DEF InboxMarkRead, MarkRead
<1>5. ASSUME NEW k \in Msgs, Prune(k) PROVE Settles(m)'
  <2>1. CASE PruneRead(k)
    BY <1>0, <2>1 DEF PruneRead, Dropped, Typed, StoreTypeOK
  <2>2. CASE PruneSent(k)
    BY <1>0, <2>2 DEF PruneSent, Dropped, Typed, StoreTypeOK
  <2>3. CASE PruneSlip(k)
    BY <2>3 DEF PruneSlip, SlipsDelivered
  <2> QED
    BY <1>5, <2>1, <2>2, <2>3 DEF Prune
<1>6. ASSUME NEW p \in Pairs, Friends(p) PROVE Settles(m)'
  BY <1>6 DEF Friends, Befriend, Unfriend
<1>7. CASE DayPasses
  BY <1>7 DEF DayPasses, Age
<1> QED
  BY <1>1, <1>2, <1>3, <1>4, <1>5, <1>6, <1>7, StoreCases

LEMMA StampRows ==
  ASSUME Typed, BatchInv, OnceInv, [Next]_vars, NEW v \in Workers, op'[v].pc = "stamp",
         NEW m \in op'[v].given \cap Mails
  PROVE  Known(m)'
<1>1. CASE op'[v] = op[v]
  BY <1>1, KnownStays DEF OnceInv
<1>2. CASE Hand(v)
  <2>1. op'[v].given \subseteq Given(v)
    BY <1>2, HandAfter
  <2>2. ASSUME NEW u \in There(v), m \in BatchFor(v, u) PROVE Known(m)
    <3>1. BatchCall(v) /\ op[v].which[u] \in Kinds
      BY DEF BatchInv, Typed, CallTyped, Calls, CallRecs, Reads, There
    <3> QED
      BY <2>2, <3>1 DEF BatchFor, BatchCall, Kinds, Lots
  <2> QED
    BY <2>1, <2>2, KnownStays DEF Given
<1>3. op'[v] = op[v] \/ Hand(v)
  BY SendStartAfter, StartsAfter, AckStartAfter, SendEndsAfter, SendPushAfter, ResolveAfter,
     ReadAfter, StampAfter, NoticesAfter, AckAfter, IdleFresh, CallCases
     DEF Reading, Stamps, Acks
<1> QED
  BY <1>1, <1>2, <1>3

\* What stays of a private message a session already had.
LEMMA HeldStays ==
  ASSUME Typed, OnceInv, [Next]_vars, ~Restart, NEW m \in Mails, m \notin closed',
         m \in failed \/ Settles(m) \/ AtStamp(m)
  PROVE  m \in failed' \/ Settles(m)' \/ AtStamp(m)'
<1>1. CASE m \in failed \/ Settles(m)
  BY <1>1, FailedGrows, SettledStays
<1>2. CASE AtStamp(m)
  <2>1. PICK w \in Workers : op[w].pc = "stamp" /\ m \in op[w].given
    BY <1>2 DEF AtStamp
  <2>2. CASE op'[w] = op[w]
    BY <2>1, <2>2 DEF AtStamp
  <2>3. CASE Stamps(w)
    <3>1. Stamp(w) \/ StampFails(w)
      BY <2>1, <2>3 DEF Stamps, StampHanded, StampSlips, HandedFails
    <3>2. CASE Stamp(w)
      <4>1. m \in Rows \/ Gone(m)
        BY <2>1, KnownStays DEF OnceInv, Known, Gone
      <4>2. id' = id /\ stubs' = stubs /\ delivered' = delivered \cup (op[w].given \cap Rows)
        BY <3>2 DEF Stamp, MarkDelivered
      <4> QED
        BY <2>1, <4>1, <4>2 DEF Settles, Gone, Rows
    <3>3. CASE StampFails(w)
      <4>1. PICK lost : /\ delivered' = delivered \cup ((op[w].given \ lost) \cap Rows)
                        /\ failed' = failed \cup lost /\ id' = id /\ stubs' = stubs
        BY <3>3 DEF StampFails, MarkDelivered
      <4>2. CASE m \in lost
        BY <4>1, <4>2
      <4>3. CASE m \notin lost
        <5>1. m \in Rows \/ Gone(m)
          BY <2>1, KnownStays DEF OnceInv, Known, Gone
        <5> QED
          BY <2>1, <4>1, <4>3, <5>1 DEF Settles, Gone, Rows
      <4> QED
        BY <4>2, <4>3
    <3> QED
      BY <3>1, <3>2, <3>3
  <2>4. op'[w] = op[w] \/ Stamps(w)
    <3>1. CASE Aside
      BY <3>1, AsideAfter
    <3>2. ASSUME NEW v \in Workers \ {w},
             \/ \E u \in Uids, k \in Msgs, named \in Uids \cup {0} : SendStart(v, u, k, named)
             \/ \E u \in Uids : FlushStart(v, u) \/ DrainStart(v, u)
             \/ \E u \in Uids, k \in Ims, reads \in BOOLEAN : AckStart(v, u, k, reads)
             \/ SendEnds(v) \/ SendPush(v) \/ Resolve(v) \/ Reading(v) \/ Hand(v)
             \/ Stamps(v) \/ Notices(v) \/ Acks(v)
          PROVE  Others(v)
      BY <3>2, SendStartAfter, StartsAfter, AckStartAfter, SendEndsAfter, SendPushAfter,
         ResolveAfter, ReadAfter, HandAfter, StampAfter, NoticesAfter, AckAfter
         DEF Reading, Stamps, Acks
    <3>3. ASSUME
             \/ \E u \in Uids, k \in Msgs, named \in Uids \cup {0} : SendStart(w, u, k, named)
             \/ \E u \in Uids : FlushStart(w, u) \/ DrainStart(w, u)
             \/ \E u \in Uids, k \in Ims, reads \in BOOLEAN : AckStart(w, u, k, reads)
             \/ SendEnds(w) \/ SendPush(w) \/ Resolve(w) \/ Reading(w) \/ Hand(w)
             \/ Notices(w) \/ Acks(w)
          PROVE  FALSE
      BY <2>1, <3>3, SendStartAfter, StartsAfter, AckStartAfter, SendEndsAfter, SendPushAfter,
         ResolveAfter, ReadAfter, HandAfter, NoticesAfter, AckAfter DEF Reading, Acks
    <3> QED
      BY <3>1, <3>2, <3>3, StepCases DEF Others
  <2> QED
    BY <2>2, <2>3, <2>4
<1> QED
  BY <1>1, <1>2

\* What Hand adds to a session's hands, of private messages: none of an
\* instant flush, and what the flush stamps next.
LEMMA HandMails ==
  ASSUME Typed, BatchInv, NEW w \in Workers, Hand(w), NEW u \in There(w),
         NEW m \in BatchFor(w, u), m \in Mails
  PROVE  /\ m \in op[w].batch["all"] \cup op[w].batch["mail"]
         /\ op'[w].pc = "stamp" /\ m \in op'[w].given
<1>1. u \in Uids /\ op[w].which[u] \in Kinds /\ BatchCall(w) /\ op[w].pc = "hand"
  BY HandAfter DEF There, BatchInv, Typed, CallTyped, Calls, CallRecs, Reads
<1>2. op[w].which[u] \in Lots /\ m \in op[w].batch[op[w].which[u]]
  BY <1>1 DEF BatchFor, Kinds, Lots
<1>3. op[w].which[u] # "instant"
  BY <1>1, <1>2, MessageStoreAssumption DEF BatchCall
<1>4. ~Instantly(w)
  <2>1. ASSUME NEW v \in Uids, op[w].which[v] = "instant" PROVE FALSE
    <3>1. op[w].which[u] \in {"none", "instant"}
      BY <1>1, <2>1 DEF BatchCall
    <3> QED
      BY <1>2, <1>3, <3>1 DEF Lots
  <2> QED
    BY <2>1 DEF Instantly
<1> QED
  BY <1>2, <1>3, <1>4, HandAfter DEF Lots, Given

LEMMA OnceStep ==
  ASSUME Typed, Lock, BatchInv, BatchInv', OnceInv, [Next]_vars
  PROVE  OnceInv'
<1>1. \A v \in Workers : op'[v].pc = "stamp" => \A m \in op'[v].given \cap Mails : Known(m)'
  BY StampRows
<1>4. ASSUME NEW u \in Uids, NEW m \in users'[u].got \cap Mails PROVE Known(m)'
  <2>1. CASE m \in users[u].got
    BY <2>1, KnownStays DEF OnceInv
  <2>2. CASE m \notin users[u].got
    <3>1. PICK w \in Workers : Hand(w)
      BY <1>4, <2>2, UsersStep DEF Kept, Emptied
    <3>2. u \in There(w) /\ m \in BatchFor(w, u)
      BY <1>4, <2>2, <3>1, HandUsers
    <3> QED
      BY <1>1, <3>1, <3>2, HandMails
  <2> QED
    BY <2>1, <2>2
<1>2. ASSUME NEW u \in Uids, NEW m \in users'[u].got \cap Mails, m \notin closed'
      PROVE  m \in failed' \/ m \in delivered' \/ Gone(m)' \/ AtStamp(m)'
  <2>1. CASE Restart
    <3>1. users'[u].got = {}
      BY <2>1 DEF Restart, NoUser
    <3> QED
      BY <1>2, <3>1
  <2>2. CASE m \in users[u].got /\ ~Restart
    BY <1>2, <2>2, HeldStays, KnownStays DEF OnceInv, Settles
  <2>3. CASE m \notin users[u].got
    <3>1. PICK w \in Workers : Hand(w)
      BY <1>2, <2>3, UsersStep DEF Kept, Emptied
    <3>2. u \in There(w) /\ m \in BatchFor(w, u)
      BY <1>2, <2>3, <3>1, HandUsers
    <3> QED
      BY <3>1, <3>2, HandMails DEF AtStamp
  <2> QED
    BY <2>1, <2>2, <2>3
<1>3. ASSUME NEW u \in Uids, NEW m \in users'[u].got \cap Mails, NEW v \in Workers,
             m \in op'[v].batch["all"] \cup op'[v].batch["mail"], m \notin closed'
      PROVE  m \in failed'
  <2>0. m \notin closed
    BY <1>3, KnownStays
  <2>1. op'[v].pc = "hand"
    BY <1>3 DEF BatchInv, BatchCall, Lots
  <2>2. op'[v] = op[v] \/ Reading(v)
    BY <2>1, SendStartAfter, StartsAfter, AckStartAfter, SendEndsAfter, SendPushAfter,
       ResolveAfter, HandAfter, StampAfter, NoticesAfter, AckAfter, IdleFresh, CallCases
       DEF Stamps, Acks
  <2>3. flushing = v
    <3>1. op[v].pc \in {"read", "hand"}
      BY <2>1, <2>2, ReadAfter DEF Reading
    <3> QED
      BY <3>1 DEF Lock, Inside
  <2>4. \A w \in Workers : ~Hand(w)
    <3>1. ASSUME NEW w \in Workers, Hand(w) PROVE FALSE
      <4>1. op[w].pc = "hand" /\ op'[w].pc # "hand"
        BY <3>1, HandAfter
      <4>2. w = v
        BY <2>3, <4>1 DEF Lock, Inside
      <4> QED
        BY <2>1, <4>1, <4>2
    <3> QED
      BY <3>1
  <2>5. m \in users[u].got
    BY <1>3, <2>4, UsersStep DEF Kept, Emptied
  <2>6. CASE op'[v] = op[v]
    BY <1>3, <2>0, <2>5, <2>6, FailedGrows DEF OnceInv
  <2>7. CASE Reading(v)
    <3>1. op[v].pc = "read" /\ op'[v] # Idle
      BY <2>1, <2>7, ReadAfter, IdleFresh DEF Reading
    <3>2. \A k \in Lots : op'[v].batch[k] \in {op[v].batch[k], Pending(op[v], k)}
      BY <2>7, <3>1, ReadAfter DEF Reading
    <3>3. \A k \in Lots : op[v].batch[k] = {}
      BY <3>1 DEF BatchInv, BatchCall
    <3>4. \E k \in Lots : m \in Pending(op[v], k)
      BY <1>3, <3>2, <3>3 DEF Lots
    <3>5. m \in Rows /\ m \notin delivered
      BY <3>4, PendingRows
    <3>6. ~AtStamp(m)
      <4>1. ASSUME NEW w \in Workers, op[w].pc = "stamp" PROVE FALSE
        BY <2>3, <3>1, <4>1 DEF Lock, Inside
      <4> QED
        BY <4>1 DEF AtStamp
    <3> QED
      BY <1>3, <2>0, <2>5, <3>5, <3>6, FailedGrows DEF OnceInv, Gone
  <2> QED
    BY <2>2, <2>6, <2>7
<1> QED
  BY <1>1, <1>2, <1>3, <1>4 DEF OnceInv

\* A live send looked before: only a push since can have put its message in
\* the store, and notes that they raced.
LEMMA LiveStep ==
  ASSUME Typed, LiveInv, [Next]_vars
  PROVE  LiveInv'
<1> SUFFICES ASSUME NEW v \in Workers, op'[v].pc = "live", op'[v].msg \in Mails,
                    op'[v].msg \in (Rows \cup stubs)'
             PROVE  op'[v].msg \in (raced \cup closed)'
  BY DEF LiveInv, LiveCall
<1>1. CASE op'[v] = op[v]
  <2> DEFINE m == op[v].msg
  <2>1. m \in Rows \cup stubs \/ Pushing(m)
    BY <1>1, KnownStays
  <2>2. CASE m \in Rows \cup stubs
    BY <1>1, <2>2, KnownStays, SeenGrows DEF LiveInv, LiveCall, Grown
  <2>3. CASE Pushing(m)
    BY <1>1, <2>3 DEF Pushing, SendPush
  <2> QED
    BY <1>1, <2>1, <2>2, <2>3
<1>2. ASSUME NEW u \in Uids, NEW m \in Msgs, NEW named \in Uids \cup {0},
             SendStart(v, u, m, named)
      PROVE  FALSE
  <2>1. op'[v].msg = m /\ ~FindGuid(m)
    BY <1>2, SendStartAfter
  <2>2. (Rows \cup stubs)' = Rows \cup stubs
    BY <1>2 DEF SendStart, storeVars, Rows
  <2> QED
    BY <2>1, <2>2 DEF FindGuid
<1>3. op'[v] = op[v] \/ \E u \in Uids, m \in Msgs, named \in Uids \cup {0} :
                          SendStart(v, u, m, named)
  BY StartsAfter, AckStartAfter, SendEndsAfter, SendPushAfter, ResolveAfter,
     ReadAfter, HandAfter, StampAfter, NoticesAfter, AckAfter, IdleFresh, CallCases
     DEF Reading, Stamps, Acks
<1> QED
  BY <1>1, <1>2, <1>3

LEMMA HandedStep ==
  ASSUME Typed, BatchInv, OnceInv, LiveInv, HandedOnce, [Next]_vars
  PROVE  HandedOnce'
<1>0. failed \subseteq failed' /\ closed \subseteq closed' /\ raced \subseteq raced'
  BY FailedGrows, KnownStays, SeenGrows DEF Grown
<1>1. ASSUME NEW u \in Uids, NEW m \in users'[u].again \cap Mails, m \notin closed'
      PROVE  m \in failed'
  <2>1. CASE m \in users[u].again
    BY <1>0, <1>1, <2>1 DEF HandedOnce
  <2>2. CASE m \notin users[u].again
    <3>1. PICK w \in Workers : Hand(w)
      BY <1>1, <2>2, UsersStep DEF Kept, Emptied
    <3>2. u \in There(w) /\ m \in BatchFor(w, u) /\ m \in users[u].got
      BY <1>1, <2>2, <3>1, HandUsers
    <3>3. m \in op[w].batch["all"] \cup op[w].batch["mail"]
      BY <1>1, <3>1, <3>2, HandMails
    <3> QED
      BY <1>0, <1>1, <3>2, <3>3 DEF OnceInv
  <2> QED
    BY <2>1, <2>2
<1>2. ASSUME NEW u \in Uids, NEW m \in users'[u].beside \cap Mails
      PROVE  m \in (raced \cup closed)'
  <2>1. CASE m \in users[u].beside
    BY <1>0, <1>2, <2>1 DEF HandedOnce
  <2>2. CASE m \notin users[u].beside
    <3>1. \A w \in Workers : ~Hand(w)
      BY <1>2, <2>2, HandUsers
    <3>2. Copied(u, m)
      BY <1>2, <2>2, <3>1, UsersStep DEF Kept, Emptied
    <3>3. Known(m)
      BY <1>2, <3>2 DEF Copied, OnceInv
    <3> QED
      BY <1>0, <1>2, <3>2, <3>3 DEF Copied, Known, LiveInv, LiveCall
  <2> QED
    BY <2>1, <2>2
<1> QED
  BY <1>1, <1>2 DEF HandedOnce

(***************************************************************************)
(* The theorems.                                                           *)
(***************************************************************************)
LEMMA InitIInv == ASSUME Init PROVE IInv
<1>1. /\ op = [w \in Workers |-> Idle] /\ users = [u \in Uids |-> NoUser]
      /\ flushing = NoWorker /\ NoWorker \notin Workers
      /\ reached = {} /\ dropped = {} /\ pulled = {}
      /\ delivered = {} /\ handed = {} /\ read = {} /\ stubs = {}
      /\ on = [m \in Msgs |-> 0] /\ answer = [m \in Msgs |-> "none"]
  BY InboxAssumption DEF Init, StoreInit
<1>2. /\ Idle.pc = "idle" /\ Idle.do = "none" /\ Idle.given = {} /\ Idle.batch = NoBatch
      /\ NoUser.got = {} /\ NoUser.again = {} /\ NoUser.beside = {}
  BY DEF Idle, NoUser
<1>3. "instant" \in Lots /\ "all" \in Lots /\ "mail" \in Lots
  BY DEF Lots
<1>4. Lock /\ SeenInv
  BY <1>1, <1>2 DEF Lock, Inside, SeenInv, Seen
<1>5. BatchInv
  BY <1>1, <1>2, <1>3, NoBatchEmpty DEF BatchInv, BatchCall
<1>6. UidInv
  BY <1>1, <1>2 DEF UidInv, Names
<1>7. SendInv
  BY <1>1, <1>2 DEF SendInv, SendCall, Msgs
<1>8. OnceInv /\ LiveInv
  BY <1>1, <1>2 DEF OnceInv, LiveInv, LiveCall
<1>9. RightMailbox /\ HandedOnce
  BY <1>1, <1>2 DEF RightMailbox, HandedOnce
<1>10. AnsweredTruly
  BY <1>1 DEF AnsweredTruly
<1> QED
  BY <1>4, <1>5, <1>6, <1>7, <1>8, <1>9, <1>10 DEF IInv

LEMMA IInvStep == ASSUME Typed, IInv, [Next]_vars PROVE IInv'
BY LockStep, SeenStep, BatchStep, UidStep, SendStep, OnceStep, LiveStep, MailboxStep,
   HandedStep, AnswerStep DEF IInv

\* The types and the invariant hold always, whatever the calls, the logins,
\* the faults and the restarts in between (chat.rs, messaging/im.rs).
THEOREM InboxInvariant == Spec => [](Typed /\ IInv)
<1>1. Init => Typed /\ IInv
  BY InitTyped, InitIInv
<1>2. Typed /\ IInv /\ [Next]_vars => Typed' /\ IInv'
  BY TypedStep, IInvStep
<1> QED
  BY <1>1, <1>2, PTL DEF Spec

\* Every variable has its type, and the flushing mutex has the holder it says.
THEOREM InboxTypeCorrect == Spec => []TypeOK
<1>1. Typed /\ IInv => TypeOK
  <2> SUFFICES ASSUME Typed, IInv PROVE TypeOK
    OBVIOUS
  <2>1. StoreTypeOK /\ flushing \in Workers \cup {NoWorker}
    BY DEF Typed, CallTyped
  <2>2. \A u \in Uids : /\ users[u].acct \in Accounts \cup {NoAccount}
                        /\ users[u].got \cup users[u].again \subseteq Msgs
    BY DEF Typed, SessTyped, Users, Boxes, SomeMsgs
  <2>3. \A w \in Workers : /\ op[w].pc \in PCs
                           /\ op[w].given \cup op[w].slips \subseteq Msgs
    BY DEF Typed, CallTyped, Calls, CallRecs, SomeMsgs
  <2>4. Lock
    BY DEF IInv
  <2> QED
    BY <2>1, <2>2, <2>3, <2>4 DEF TypeOK, Lock, Inside
<1> QED
  BY <1>1, InboxInvariant, PTL

\* Private mail is handed to its own mailbox's sessions alone: flush_held looks
\* at the account again.  Instant messages are too, while no uid is reissued
\* inside its quarantine (next_uid_at, im_deliver_held, im_drain).
THEOREM MailToItsOwner == Spec => []RightMailbox
<1>1. IInv => RightMailbox
  BY DEF IInv
<1> QED
  BY <1>1, InboxInvariant, PTL

\* No session is handed a private message twice as a row unless its stamp
\* failed, since flushing is held from the read to the stamp (flush_held); nor
\* as a row and then live past the quota, unless the row was stored between
\* the live send's look and its handover (send_quota_spent, retry).
THEOREM NoDoubleDelivery == Spec => []HandedOnce
<1>1. IInv => HandedOnce
  BY DEF IInv
<1> QED
  BY <1>1, InboxInvariant, PTL

\* A row is stamped delivered or handed over only after it was put on a live
\* queue, dropped by full ones, or pulled (flush_held, im_ack, mark_read); one
\* that a notice only counted is not.
THEOREM StampsAreBacked == Spec => []DeliveredWasHanded
<1>1. IInv => DeliveredWasHanded
  BY DEF IInv, SeenInv, Seen, DeliveredWasHanded
<1> QED
  BY <1>1, InboxInvariant, PTL

\* A send is answered delivered only of a message that was put on a live queue,
\* dropped by full ones, pulled or sent live past the quota (deliver, im_store),
\* a retry that finds its row stamped included; unless retention took the row.
THEOREM AnswersAreBacked == Spec => []AnsweredTruly
<1>1. IInv => AnsweredTruly
  BY DEF IInv
<1> QED
  BY <1>1, InboxInvariant, PTL

=============================================================================
