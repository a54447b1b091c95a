--------------------------- MODULE Delivery_proofs ---------------------------
(***************************************************************************)
(* Further proofs about Inbox, on top of the invariant of Inbox_proofs:    *)
(* a read receipt is told once and not lost, no private message waits in   *)
(* silence, and private messages are handed over in order.                 *)
(*                                                                         *)
(*   SlipInv   what a drain remembers of the receipts it tells;            *)
(*   TellInv   one call at most is about to tell a read, the first time;   *)
(*   QuietInv  before its row is noted as told nothing was told of it;     *)
(*   OwedInv   what ReceiptKept says, of the calls that will tell;         *)
(*   WaitInv   which call will hand a waiting message over or give notice; *)
(*   NamedInv  a send names a session by its uid, or the account;          *)
(*   IdInv     ids are rows' own and grow;                                 *)
(*   ReadInv   a batch took the oldest rows that waited;                   *)
(*   OrderInv  what a session may still be handed is younger than what it  *)
(*             has.                                                        *)
(* Of a message whose guid retention forgot, and which may have been sent  *)
(* anew under it, they say nothing.                                        *)
(***************************************************************************)
EXTENDS Inbox_proofs, FiniteSetTheorems, NaturalsInduction, WellFoundedInduction

USE DEF seenVars

(***************************************************************************)
(* Receipts: the invariant.                                                *)
(***************************************************************************)
\* The call of w will tell of the read of m, or keep a receipt for it.
Tells(w, m) == op[w].msg = m /\ op[w].reads /\ op[w].pc \in {"tell", "slip"}

\* A drain alone has receipts: before it hands over their reads were noted and
\* no other call tells them, after it they were told.
Telling(c) ==
  /\ c.pc \in {"mark", "told", "tell", "slip"} => c.msg \in Ims
  /\ c.pc \in {"told", "slip"} => c.reads
  /\ c.slips # {} => c.do = "drain" /\ c.pc \in {"hand", "handed", "slips"}
  /\ c.do = "drain" /\ c.pc \in {"read", "hand"} =>
       \A u \in Uids : c.which[u] \in {"none", "instant"}
SlipCall(w) ==
  /\ Telling(op[w])
  /\ \A m \in op[w].slips :
       /\ op[w].pc # "hand" => told[m] > 0
       /\ op[w].pc = "hand" /\ m \notin closed =>
            /\ m \in receipted \ Mails /\ \A v \in Workers : ~Tells(v, m)
            /\ m \notin failed => told[m] = 0
SlipInv == \A w \in Workers : SlipCall(w)

TellInv ==
  \A w \in Workers, m \in Msgs \ closed : Tells(w, m) =>
    /\ m \in receipted /\ slip[m] = 0 /\ told[m] = 0
    /\ \A v \in Workers : Tells(v, m) => v = w

\* Nothing was told of m yet: a private message has no receipt.
Untold(m) == m \in Mails \/ m \notin receipted
QuietInv == \A m \in Msgs \ closed : Untold(m) => told[m] = 0 /\ slip[m] = 0

Owed(m) == told[m] > 0 \/ slip[m] # 0 \/ \E w \in Workers : Tells(w, m)
OwedInv == \A m \in receipted \ (unslipped \cup failed) : Owed(m)

ReceiptInv == SlipInv /\ TellInv /\ QuietInv /\ OwedInv /\ ReceiptOnce

(***************************************************************************)
(* Receipts: what each step does.                                          *)
(***************************************************************************)
\* What a call knows of receipts stays.
SameSlips(w) ==
  /\ op'[w].msg = op[w].msg /\ op'[w].reads = op[w].reads /\ op'[w].slips = op[w].slips
  /\ op'[w].do = op[w].do

\* No receipt is known to a call that starts, nor to one that is over.
LEMMA IdleSlips == /\ Idle.slips = {} /\ Idle.reads = FALSE /\ Idle.pc = "idle"
                   /\ Idle.do = "none" /\ Idle.msg = NoMsg
BY DEF Idle

\* The steps of w's own call.
Own(w) ==
  \/ \E u \in Uids, m \in Msgs, named \in Uids \cup {0} : SendStart(w, u, m, named)
  \/ \E u \in Uids : FlushStart(w, u) \/ DrainStart(w, u)
  \/ \E u \in Uids, m \in Ims, reads \in BOOLEAN : AckStart(w, u, m, reads)
  \/ SendEnds(w) \/ SendPush(w) \/ Resolve(w) \/ Reading(w) \/ Hand(w)
  \/ Stamps(w) \/ Notices(w) \/ Acks(w)

\* Between restarts a call moves by its own steps alone.
LEMMA OwnStep ==
  ASSUME Typed, [Next]_vars, ~Restart, NEW w \in Workers
  PROVE  op'[w] = op[w] \/ Own(w)
<1>1. ASSUME NEW v \in Workers, Own(v) PROVE Others(v)
  BY <1>1, SendStartAfter, StartsAfter, AckStartAfter, SendEndsAfter, SendPushAfter,
     ResolveAfter, ReadAfter, HandAfter, StampAfter, NoticesAfter, AckAfter
     DEF Own, Reading, Stamps, Acks
<1>2. Aside \/ \E v \in Workers : Own(v)
  BY StepCases DEF Own
<1> QED
  BY <1>1, <1>2, AsideAfter DEF Others

\* Where an acknowledgement is after a step of its own.
LEMMA AckDetails ==
  ASSUME Typed, NEW w \in Workers
  PROVE  /\ AckMark(w) => /\ op[w].pc = "mark" /\ SameSlips(w)
                          /\ op'[w].pc = IF op[w].reads THEN "told" ELSE "tell"
         /\ AckTold(w) => /\ op[w].pc = "told"
                          /\ IF ToldFirst(op[w].msg) /\ op[w].msg \in Acked(op[w])
                             THEN SameSlips(w) /\ op'[w].pc = "tell"
                             ELSE op'[w] = Idle
         /\ AckTell(w) => /\ op[w].pc = "tell"
                          /\ IF op[w].reads /\ Messengers(From[op[w].msg]) = {}
                             THEN SameSlips(w) /\ op'[w].pc = "slip"
                             ELSE op'[w] = Idle
         /\ AckSlip(w) => op[w].pc = "slip" /\ op'[w] = Idle
         /\ AckFails(w) => op[w].pc \in {"mark", "told", "slip"} /\ op'[w] = Idle
<1>1. op \in [Workers -> Calls]
  BY DEF Typed, CallTyped
<1>2. ASSUME NEW x \in {"told", "tell", "slip"}, Now(w, [op[w] EXCEPT !.pc = x])
      PROVE  SameSlips(w) /\ op'[w].pc = x
  <2>1. op'[w] = [op[w] EXCEPT !.pc = x]
    BY <1>1, <1>2 DEF Now
  <2> QED
    BY <1>1, <2>1 DEF SameSlips, Calls, CallRecs
<1>3. AckMark(w) => /\ op[w].pc = "mark" /\ SameSlips(w)
                    /\ op'[w].pc = IF op[w].reads THEN "told" ELSE "tell"
  BY <1>2 DEF AckMark
<1>4. AckTold(w) => /\ op[w].pc = "told"
                    /\ IF ToldFirst(op[w].msg) /\ op[w].msg \in Acked(op[w])
                       THEN SameSlips(w) /\ op'[w].pc = "tell"
                       ELSE op'[w] = Idle
  BY <1>2, DoneAfter DEF AckTold
<1>5. AckTell(w) => /\ op[w].pc = "tell"
                    /\ IF op[w].reads /\ Messengers(From[op[w].msg]) = {}
                       THEN SameSlips(w) /\ op'[w].pc = "slip"
                       ELSE op'[w] = Idle
  BY <1>2, DoneAfter DEF AckTell
<1>6. AckSlip(w) => op[w].pc = "slip" /\ op'[w] = Idle
  BY DoneAfter DEF AckSlip
<1>7. AckFails(w) => op[w].pc \in {"mark", "told", "slip"} /\ op'[w] = Idle
  BY DoneAfter DEF AckFails
<1> QED
  BY <1>3, <1>4, <1>5, <1>6, <1>7

\* Where a call starts.
LEMMA StartSlips ==
  ASSUME Typed, NEW w \in Workers,
         \/ \E u \in Uids, m \in Msgs, named \in Uids \cup {0} : SendStart(w, u, m, named)
         \/ \E u \in Uids : FlushStart(w, u) \/ DrainStart(w, u)
         \/ \E u \in Uids, m \in Ims, reads \in BOOLEAN : AckStart(w, u, m, reads)
  PROVE  op'[w].slips = {} /\ op'[w].pc \in {"push", "live", "lock", "mark"}
         /\ (op'[w].pc = "mark" => op'[w].msg \in Ims)
<1>1. op \in [Workers -> Calls]
  BY DEF Typed, CallTyped
<1>2. ASSUME NEW u \in Uids, NEW m \in Msgs, NEW named \in Uids \cup {0},
             SendStart(w, u, m, named)
      PROVE  op'[w].slips = {}
  <2>1. PICK pc \in {"push", "live"} :
        op'[w] = [Idle EXCEPT !.pc = pc, !.do = "send", !.msg = m, !.box = To[m], !.by = u,
             !.named = named, !.on = IF m \in Ims THEN rel[Pair(m)] ELSE 0]
    BY <1>1, <1>2 DEF SendStart, Now
  <2> QED
    BY <2>1, IdleSlips DEF Idle
<1>3. ASSUME NEW u \in Uids, FlushStart(w, u) \/ DrainStart(w, u)
      PROVE  op'[w].slips = {}
  <2>1. PICK d \in {"flush", "drain"} :
        op'[w] = [Idle EXCEPT !.pc = "lock", !.do = d, !.box = users[u].acct, !.by = u]
    BY <1>1, <1>3 DEF FlushStart, DrainStart, Now
  <2> QED
    BY <2>1, IdleSlips DEF Idle
<1>4. ASSUME NEW u \in Uids, NEW m \in Ims, NEW reads \in BOOLEAN, AckStart(w, u, m, reads)
      PROVE  op'[w].slips = {}
  <2>1. op'[w] = [Idle EXCEPT !.pc = "mark", !.do = "ack", !.msg = m,
                    !.box = To[m], !.by = u, !.on = id[m], !.reads = reads]
    BY <1>1, <1>4 DEF AckStart, Now
  <2> QED
    BY <2>1, IdleSlips DEF Idle
<1> QED
  BY <1>2, <1>3, <1>4, SendStartAfter, StartsAfter, AckStartAfter

\* Where a flush is after a step of its own.
LEMMA FlushSlips ==
  ASSUME Typed, NEW w \in Workers
  PROVE  /\ SendPush(w) \/ Resolve(w) => SameSlips(w)
         /\ Reading(w) => \/ op'[w] = Idle
                          \/ /\ op'[w].slips = PendingSlips(op[w]) /\ op'[w].pc = "hand"
                             /\ op'[w].do = op[w].do /\ op'[w].which = op[w].which
         /\ Hand(w) => /\ op'[w].slips = IF There(w) # {} THEN op[w].slips ELSE {}
                       /\ op'[w].do = op[w].do
         /\ Stamp(w) => SameSlips(w) /\ op[w].pc = "stamp" /\ op'[w].pc = "notice"
         /\ StampHanded(w) =>
              /\ op[w].pc = "handed"
              /\ IF op[w].slips = {} THEN op'[w] = Idle
                 ELSE SameSlips(w) /\ op'[w].pc = "slips"
         /\ StampSlips(w) => op[w].pc = "slips" /\ op'[w] = Idle
         /\ StampFails(w) => SameSlips(w) /\ op[w].pc = "stamp" /\ op'[w].pc = "notice"
         /\ HandedFails(w) =>
              \/ op[w].pc = "handed" /\ SameSlips(w) /\ op'[w].pc = "slips"
              \/ op[w].pc = "handed" /\ op[w].slips = {} /\ op'[w] = Idle
              \/ op[w].pc = "slips" /\ op'[w] = Idle /\ op[w].slips \subseteq failed'
<1>1. op \in [Workers -> Calls]
  BY DEF Typed, CallTyped
<1>2. SendPush(w) => SameSlips(w)
  <2> DEFINE f == op[w].msg \notin Rows
  <2>1. SendPush(w) => op'[w] = [op[w] EXCEPT !.pc = "resolve", !.fresh = f]
    BY <1>1 DEF SendPush, Now
  <2> HIDE DEF f
  <2> QED
    BY <1>1, <2>1 DEF SameSlips, Calls, CallRecs
<1>3. Resolve(w) => SameSlips(w)
  <2> DEFINE t == Targets(w)
  <2>1. Resolve(w) => op'[w] = [op[w] EXCEPT !.pc = "read", !.which = t, !.by = 0,
                                             !.named = 0, !.on = 0]
    BY <1>1 DEF Resolve, Now
  <2> HIDE DEF t
  <2> QED
    BY <1>1, <2>1 DEF SameSlips, Calls, CallRecs
<1>4. Reading(w) => \/ op'[w] = Idle
                    \/ /\ op'[w].slips = PendingSlips(op[w]) /\ op'[w].pc = "hand"
                       /\ op'[w].do = op[w].do /\ op'[w].which = op[w].which
  <2> DEFINE b == [k \in DOMAIN NoBatch |-> Pending(op[w], k)]
             s == PendingSlips(op[w])
  <2>1. Reading(w) => \/ op'[w] = Idle
                      \/ op'[w] = [op[w] EXCEPT !.pc = "hand", !.batch = b, !.slips = s]
                      \/ op'[w] = [op[w] EXCEPT !.pc = "hand", !.slips = s]
    <3>1. \A g : Answered(w, g) => op'[w] = Idle
      BY AnsweredAfter
    <3>2. \A c : Now(w, c) => op'[w] = c
      BY <1>1 DEF Now
    <3> HIDE DEF b, s
    <3>3. Reading(w) => \/ Answered(w, {})
                        \/ Now(w, [op[w] EXCEPT !.pc = "hand", !.batch = b, !.slips = s])
                        \/ Now(w, [op[w] EXCEPT !.pc = "hand", !.slips = s])
      BY DEF Reading, Read, ReadFails, b, s
    <3> QED
      BY <3>1, <3>2, <3>3
  <2> HIDE DEF b, s
  <2>2. Reading(w) => op'[w] = Idle \/ (/\ op'[w].slips = s /\ op'[w].pc = "hand"
                                        /\ op'[w].do = op[w].do /\ op'[w].which = op[w].which)
    BY <1>1, <2>1 DEF Calls, CallRecs
  <2> QED
    BY <2>2 DEF s
<1>5. Hand(w) => op'[w].slips = IF There(w) # {} THEN op[w].slips ELSE {}
  <2>1. ASSUME Hand(w) PROVE \E g : op'[w] = HandedOver(w, g)
    BY <1>1, <2>1 DEF Hand, Now
  <2> QED
    BY <1>1, <2>1, GivenOf
<1>6. Hand(w) => op'[w].do = op[w].do
  BY HandAfter DEF SameCall
<1>7. Stamp(w) \/ StampFails(w) =>
         SameSlips(w) /\ op[w].pc = "stamp" /\ op'[w].pc = "notice"
  <2>1. Stamp(w) \/ StampFails(w) => op'[w] = [op[w] EXCEPT !.pc = "notice", !.unread = {}]
    BY <1>1 DEF Stamp, StampFails, Now
  <2> QED
    BY <1>1, <2>1 DEF Stamp, StampFails, SameSlips, Calls, CallRecs
<1>8. ASSUME NEW x \in {"notice", "slips"}, Now(w, [op[w] EXCEPT !.pc = x])
      PROVE  SameSlips(w) /\ op'[w].pc = x
  <2>1. op'[w] = [op[w] EXCEPT !.pc = x]
    BY <1>1, <1>8 DEF Now
  <2> QED
    BY <1>1, <2>1 DEF SameSlips, Calls, CallRecs
<1>9. StampHanded(w) => /\ op[w].pc = "handed"
                        /\ IF op[w].slips = {} THEN op'[w] = Idle
                           ELSE SameSlips(w) /\ op'[w].pc = "slips"
  BY <1>8, AnsweredAfter DEF StampHanded
<1>10. StampSlips(w) => op[w].pc = "slips" /\ op'[w] = Idle
  BY AnsweredAfter DEF StampSlips
<1>11. HandedFails(w) =>
              \/ op[w].pc = "handed" /\ SameSlips(w) /\ op'[w].pc = "slips"
              \/ op[w].pc = "handed" /\ op[w].slips = {} /\ op'[w] = Idle
              \/ op[w].pc = "slips" /\ op'[w] = Idle /\ op[w].slips \subseteq failed'
  BY <1>8, AnsweredAfter DEF HandedFails
<1> QED
  BY <1>2, <1>3, <1>4, <1>5, <1>6, <1>7, <1>9, <1>10, <1>11

\* A read is told by a drain that hands its receipt over, or by the call that
\* acknowledged it.
LEMMA ToldStep ==
  ASSUME Typed, [Next]_vars, NEW m \in Msgs
  PROVE  /\ told'[m] \in {told[m], told[m] + 1}
         /\ \/ told'[m] = told[m]
            \/ \E w \in Workers : Hand(w) /\ There(w) # {} /\ m \in op[w].slips
            \/ \E w \in Workers : /\ AckTell(w) /\ op[w].msg = m /\ op[w].reads
                                  /\ op'[w] = Idle
<1>0. told \in [Msgs -> Nat]
  BY DEF Typed, HistTyped
<1>1. CASE told' = told
  BY <1>1
<1>2. ASSUME NEW w \in Workers, Hand(w)
      PROVE  told'[m] = IF There(w) # {} /\ m \in op[w].slips THEN told[m] + 1 ELSE told[m]
  BY <1>2 DEF Hand
<1>3. ASSUME NEW w \in Workers, AckTell(w), told' # told
      PROVE  /\ told' = [told EXCEPT ![op[w].msg] = @ + 1] /\ op[w].reads
             /\ op'[w] = Idle
  BY <1>3, AckDetails DEF AckTell
<1>4. \/ told' = told
      \/ \E w \in Workers : Hand(w) \/ AckTell(w)
  <2>1. CASE Aside \/ Restart
    BY <2>1 DEF Aside, Session, QuarantineEnds, InboxMarkRead, Prune, Friends, DayPasses,
                Restart, vars, histVars, Login, Detach, Resume, EndSession
  <2>2. ASSUME NEW w \in Workers, NEW u \in Uids,
               \/ \E k \in Msgs, named \in Uids \cup {0} : SendStart(w, u, k, named)
               \/ FlushStart(w, u) \/ DrainStart(w, u)
               \/ \E k \in Ims, reads \in BOOLEAN : AckStart(w, u, k, reads)
        PROVE  told' = told
    BY <2>2 DEF SendStart, FlushStart, DrainStart, AckStart, histVars
  <2>3. ASSUME NEW w \in Workers, \/ SendEnds(w) \/ SendPush(w) \/ Resolve(w) \/ Reading(w)
                                  \/ Stamps(w) \/ Notices(w)
        PROVE  told' = told
    BY <2>3 DEF SendEnds, SendLive, SendKnown, SendFull, SendFails, SendPush, Resolve, Reading,
                Read, ReadFails, Stamps, Stamp, StampHanded, StampSlips, StampFails,
                HandedFails, Notices, Notice, NoticeFails, histVars
  <2>4. ASSUME NEW w \in Workers, Acks(w), ~AckTell(w) PROVE told' = told
    BY <2>4 DEF Acks, AckMark, AckTold, AckSlip, AckFails, histVars
  <2> QED
    BY <2>1, <2>2, <2>3, <2>4, StepCases
<1>5. CASE \E w \in Workers : AckTell(w) /\ told' # told
  <2>1. PICK w \in Workers : AckTell(w) /\ told' # told
    BY <1>5
  <2>2. told' = [told EXCEPT ![op[w].msg] = @ + 1] /\ op[w].reads /\ op'[w] = Idle
    BY <1>3, <2>1
  <2> QED
    BY <1>0, <2>1, <2>2
<1> QED
  BY <1>1, <1>2, <1>4, <1>5

\* A receipt waits once an acknowledgement kept it, until a drain marks it or
\* retention takes it.
LEMMA SlipStep ==
  ASSUME Typed, [Next]_vars, NEW m \in Msgs
  PROVE  \/ slip'[m] = slip[m]
         \/ \E w \in Workers : AckSlip(w) /\ op[w].msg = m /\ slip'[m] # 0 /\ op'[w] = Idle
         \/ \E w \in Workers : StampSlips(w) /\ m \in op[w].slips /\ slip'[m] = 0
         \/ m \in unslipped' /\ slip'[m] = 0
<1>0. slip \in [Msgs -> Nat] /\ lastId \in Nat
  BY DEF Typed, StoreTypeOK
<1>1. CASE UNCHANGED storeVars
  BY <1>1 DEF storeVars
<1>2. ASSUME NEW w \in Workers, SendPush(w) PROVE slip' = slip
  BY <1>2 DEF SendPush, Stored, storeVars
<1>3. ASSUME NEW w \in Workers, Stamps(w), ~StampSlips(w) PROVE slip' = slip
  BY <1>3 DEF Stamps, Stamp, StampHanded, StampFails, HandedFails, MarkDelivered, MarkHanded,
              storeVars
<1>4. ASSUME NEW w \in Workers, StampSlips(w)
      PROVE  slip'[m] = slip[m] \/ (m \in op[w].slips /\ slip'[m] = 0)
  BY <1>4 DEF StampSlips, SlipsDelivered
<1>5. ASSUME NEW w \in Workers, Acks(w), ~AckSlip(w) PROVE slip' = slip
  BY <1>5 DEF Acks, AckMark, AckTold, AckTell, AckFails, MarkDelivered, ReceiptTold,
              storeVars
<1>6. ASSUME NEW w \in Workers, AckSlip(w)
      PROVE  slip'[m] = slip[m] \/ (op[w].msg = m /\ slip'[m] # 0 /\ op'[w] = Idle)
  <2>1. slip' = [slip EXCEPT ![op[w].msg] = lastId + 1] /\ op'[w] = Idle
    BY <1>6, AckDetails DEF AckSlip, StoredSlip
  <2> QED
    BY <1>0, <2>1
<1>7. ASSUME NEW u \in Uids, NEW k \in Msgs, InboxMarkRead(u, k) PROVE slip' = slip
  BY <1>7 DEF InboxMarkRead, MarkRead
<1>8. ASSUME NEW k \in Msgs, Prune(k)
      PROVE  slip'[m] = slip[m] \/ (m \in unslipped' /\ slip'[m] = 0)
  <2>1. CASE PruneRead(k) \/ PruneSent(k)
    BY <2>1 DEF PruneRead, PruneSent, Dropped
  <2>2. CASE PruneSlip(k) /\ k \in unslipped'
    BY <1>0, <1>8, <2>2 DEF PruneSlip, SlipsDelivered, Prune
  <2> QED
    BY <1>8, <2>1, <2>2 DEF Prune
<1>9. ASSUME NEW p \in Pairs, Friends(p) PROVE slip' = slip
  BY <1>9 DEF Friends, Befriend, Unfriend
<1>10. CASE DayPasses
  BY <1>10 DEF DayPasses, Age
<1> QED
  BY <1>1, <1>2, <1>3, <1>4, <1>5, <1>6, <1>7, <1>8, <1>9, <1>10, StoreCases

\* A row is noted as told by the first read of it, and forgotten with the row.
LEMMA ReceiptedStep ==
  ASSUME Typed, [Next]_vars, NEW m \in Msgs
  PROVE  /\ m \in receipted' /\ m \notin receipted =>
              \E w \in Workers : /\ AckTold(w) /\ op[w].msg = m /\ ToldFirst(m)
                                 /\ m \in Acked(op[w])
         /\ m \in receipted /\ m \notin receipted' => m \in Mails \/ m \in closed'
         /\ closed \subseteq closed'
<1> DEFINE Goal ==
      /\ m \in receipted' /\ m \notin receipted =>
              \E w \in Workers : /\ AckTold(w) /\ op[w].msg = m /\ ToldFirst(m)
                                 /\ m \in Acked(op[w])
      /\ m \in receipted /\ m \notin receipted' => m \in Mails \/ m \in closed'
      /\ closed \subseteq closed'
<1>0. m \in Mails \cup Ims
  BY DEF Msgs
<1>1. CASE UNCHANGED <<receipted, closed>>
  BY <1>1
<1>2. ASSUME NEW w \in Workers, SendPush(w) PROVE UNCHANGED <<receipted, closed>>
  BY <1>2 DEF SendPush, Stored, storeVars
<1>3. ASSUME NEW w \in Workers, Stamps(w) PROVE UNCHANGED <<receipted, closed>>
  BY <1>3 DEF Stamps, Stamp, StampHanded, StampSlips, StampFails, HandedFails, MarkDelivered,
              MarkHanded, SlipsDelivered, storeVars
<1>4. ASSUME NEW w \in Workers, Acks(w), ~AckTold(w) PROVE UNCHANGED <<receipted, closed>>
  BY <1>4 DEF Acks, AckMark, AckTell, AckSlip, AckFails, MarkDelivered, StoredSlip,
              storeVars
<1>5. ASSUME NEW w \in Workers, AckTold(w) PROVE Goal
  BY <1>5 DEF AckTold, ReceiptTold, storeVars
<1>6. ASSUME NEW u \in Uids, NEW k \in Msgs, InboxMarkRead(u, k)
      PROVE  UNCHANGED <<receipted, closed>>
  BY <1>6 DEF InboxMarkRead, MarkRead
<1>7. ASSUME NEW k \in Msgs, Prune(k) PROVE Goal
  <2>1. CASE PruneRead(k)
    BY <1>0, <1>7, <2>1 DEF PruneRead, Dropped
  <2>2. CASE PruneSent(k)
    BY <1>0, <1>7, <2>2 DEF PruneSent, Dropped
  <2>3. CASE PruneSlip(k)
    BY <2>3 DEF PruneSlip, SlipsDelivered
  <2> QED
    BY <1>7, <2>1, <2>2, <2>3 DEF Prune
<1>8. ASSUME NEW p \in Pairs, Friends(p) PROVE UNCHANGED <<receipted, closed>>
  BY <1>8 DEF Friends, Befriend, Unfriend
<1>9. CASE DayPasses \/ UNCHANGED storeVars
  BY <1>1, <1>9 DEF DayPasses, Age, storeVars
<1> QED
  BY <1>1, <1>2, <1>3, <1>4, <1>5, <1>6, <1>7, <1>8, <1>9, StoreCases

\* Who is about to tell a read was before, or is the first to have noted it.
LEMMA TellsBefore ==
  ASSUME Typed, SlipInv, [Next]_vars, NEW w \in Workers, NEW m \in Msgs, Tells(w, m)'
  PROVE  \/ op'[w] = op[w] /\ Tells(w, m)
         \/ AckTell(w) /\ Tells(w, m) /\ op'[w] # Idle /\ op[w].reads
         \/ AckTold(w) /\ op[w].msg = m /\ ToldFirst(m) /\ m \in Acked(op[w])
<1>0. op'[w].msg = m /\ op'[w].reads /\ op'[w].pc \in {"tell", "slip"}
  BY DEF Tells
<1>1. op'[w] # Idle
  BY <1>0, IdleSlips
<1>2. CASE op'[w] = op[w]
  BY <1>0, <1>2 DEF Tells
<1>3. CASE Acks(w)
  <2>1. ~AckSlip(w) /\ ~AckFails(w)
    BY <1>1, AckDetails
  <2>2. ~AckMark(w)
    BY <1>0, AckDetails DEF SameSlips
  <2>3. CASE AckTold(w)
    BY <1>0, <1>1, <2>3, AckDetails DEF SameSlips
  <2>4. CASE AckTell(w)
    BY <1>0, <1>1, <2>4, AckDetails DEF SameSlips, Tells
  <2> QED
    BY <1>3, <2>1, <2>2, <2>3, <2>4 DEF Acks
<1>4. op'[w] = op[w] \/ Acks(w)
  BY <1>0, <1>1, StartSlips, SendEndsAfter, SendPushAfter, ResolveAfter, ReadAfter, HandAfter,
     StampAfter, NoticesAfter, CallCases DEF Reading, Stamps
<1> QED
  BY <1>2, <1>3, <1>4

\* One call tells: it noted the row first, and nothing was told before.
LEMMA TellStep ==
  ASSUME Typed, SlipInv, TellInv, QuietInv, [Next]_vars
  PROVE  TellInv'
<1>0. ASSUME NEW w \in Workers, NEW m \in Msgs \ closed, AckTold(w), op[w].msg = m, ToldFirst(m),
             m \in Acked(op[w])
      PROVE  /\ m \in receipted' /\ slip'[m] = 0 /\ told'[m] = 0
             /\ \A v \in Workers : ~Tells(v, m)
  <2>1. told[m] = 0 /\ slip[m] = 0
    BY <1>0 DEF QuietInv, Untold, ToldFirst
  <2>2. told' = told /\ slip' = slip /\ m \in receipted'
    BY <1>0 DEF AckTold, ReceiptTold, histVars
  <2> QED
    BY <1>0, <2>1, <2>2 DEF TellInv, ToldFirst
<1>1. ASSUME NEW w \in Workers, NEW m \in Msgs \ closed', Tells(w, m)', Tells(w, m)
      PROVE  m \in receipted' /\ slip'[m] = 0 /\ told'[m] = 0
  <2>0. m \notin closed
    BY ReceiptedStep
  <2>1. m \in receipted /\ slip[m] = 0 /\ told[m] = 0
    BY <1>1, <2>0 DEF TellInv
  <2>2. m \in Ims /\ op'[w] # Idle
    BY <1>1, IdleSlips DEF Tells, SlipInv, SlipCall, Telling
  <2>3. m \in receipted'
    BY <2>1, <2>2, ReceiptedStep, MessageStoreAssumption
  <2>4. ASSUME NEW v \in Workers, op[v].msg = m, op[v].reads, op[v].pc \in {"tell", "slip"},
               op'[v] = Idle
        PROVE  FALSE
    BY <1>1, <2>0, <2>2, <2>4 DEF TellInv, Tells
  <2>5. slip'[m] = 0
    <3>1. ~\E v \in Workers : AckSlip(v) /\ op[v].msg = m /\ op'[v] = Idle
      BY <2>4 DEF AckSlip, SlipInv, SlipCall, Telling
    <3> QED
      BY <2>1, <3>1, SlipStep
  <2>6. told'[m] = 0
    <3>1. ~\E v \in Workers : AckTell(v) /\ op[v].msg = m /\ op[v].reads /\ op'[v] = Idle
      BY <2>4 DEF AckTell
    <3>2. ~\E v \in Workers : Hand(v) /\ m \in op[v].slips
      BY <1>1, <2>0 DEF Hand, SlipInv, SlipCall
    <3> QED
      BY <2>1, <3>1, <3>2, ToldStep
  <2> QED
    BY <2>3, <2>5, <2>6
<1>2. ASSUME NEW w \in Workers, NEW m \in Msgs \ closed', Tells(w, m)'
      PROVE  /\ m \in receipted' /\ slip'[m] = 0 /\ told'[m] = 0
  <2>1. m \notin closed
    BY ReceiptedStep
  <2> QED
    BY <1>0, <1>1, <1>2, <2>1, TellsBefore
<1>3. ASSUME NEW w \in Workers, NEW v \in Workers, NEW m \in Msgs \ closed', Tells(w, m)',
             Tells(v, m)'
      PROVE  v = w
  <2>0. m \in Msgs \ closed
    BY ReceiptedStep
  <2>1. CASE Tells(w, m) /\ Tells(v, m)
    BY <2>0, <2>1 DEF TellInv
  <2>2. ASSUME NEW x \in Workers, NEW y \in Workers, AckTold(x), op[x].msg = m, ToldFirst(m),
               m \in Acked(op[x]), Tells(y, m)'
        PROVE  y = x
    <3>1. ~Tells(y, m)
      BY <1>0, <2>0, <2>2
    <3>2. AckTold(y)
      BY <2>2, <3>1, TellsBefore
    <3>3. op[y] # op'[y] /\ Others(x)
      BY <3>2, AckDetails, <2>2, IdleSlips, AckAfter DEF SameSlips
    <3> QED
      BY <3>3 DEF Others
  <2> QED
    BY <1>3, <2>1, <2>2, TellsBefore
<1>4. ASSUME NEW w \in Workers, NEW m \in Msgs \ closed', Tells(w, m)'
      PROVE  /\ (m \in receipted /\ slip[m] = 0 /\ told[m] = 0)'
             /\ \A v \in Workers : Tells(v, m)' => v = w
  BY <1>2, <1>3, <1>4
<1> QED
  BY <1>4 DEF TellInv

\* Nothing is told of a message that has not been noted.
LEMMA QuietStep ==
  ASSUME Typed, SlipInv, TellInv, QuietInv, [Next]_vars
  PROVE  QuietInv'
<1> SUFFICES ASSUME NEW m \in Msgs \ closed', Untold(m)' PROVE told'[m] = 0 /\ slip'[m] = 0
  BY DEF QuietInv
<1>1. Untold(m) /\ m \in Msgs \ closed
  BY ReceiptedStep DEF Untold
<1>2. told[m] = 0 /\ slip[m] = 0
  BY <1>1 DEF QuietInv
<1>3. ASSUME NEW w \in Workers, op[w].msg = m, op[w].reads, op[w].pc \in {"tell", "slip"}
      PROVE  FALSE
  <2>1. Tells(w, m) /\ m \in Ims
    BY <1>3 DEF Tells, SlipInv, SlipCall, Telling
  <2>2. m \in receipted /\ m \notin Mails
    BY <1>1, <2>1, MessageStoreAssumption DEF TellInv
  <2> QED
    BY <1>1, <2>2 DEF Untold
<1>4. slip'[m] = 0
  <2>1. ~\E v \in Workers : AckSlip(v) /\ op[v].msg = m
    BY <1>3 DEF AckSlip, SlipInv, SlipCall, Telling
  <2> QED
    BY <1>2, <2>1, SlipStep
<1>5. told'[m] = 0
  <2>1. ~\E v \in Workers : AckTell(v) /\ op[v].msg = m /\ op[v].reads
    BY <1>3 DEF AckTell
  <2>2. ~\E v \in Workers : Hand(v) /\ m \in op[v].slips
    BY <1>1 DEF Hand, SlipInv, SlipCall, Untold
  <2> QED
    BY <1>2, <2>1, <2>2, ToldStep
<1> QED
  BY <1>4, <1>5

\* What a drain reads of receipts are receipts that wait.
LEMMA SlipsRead ==
  ASSUME NEW w \in Workers
  PROVE  /\ PendingSlips(op[w]) # {} => op[w].do = "drain"
         /\ \A m \in PendingSlips(op[w]) : m \in Msgs /\ slip[m] # 0
BY DEF PendingSlips, Oldest, Receipts

\* A drain that finds its session there hands over as instant messages are.
LEMMA DrainHands ==
  ASSUME Typed, SlipInv, NEW w \in Workers, Hand(w), There(w) # {}, op[w].slips # {}
  PROVE  Instantly(w)
<1>1. PICK u \in Uids : u \in There(w)
  BY DEF There
<1>2. op[w].which[u] \in {"none", "instant"}
  BY DEF SlipInv, SlipCall, Telling, Hand
<1>3. op[w].which[u] # "none"
  BY <1>1 DEF There, StillThere
<1> QED
  BY <1>2, <1>3 DEF Instantly

\* What a call knows of receipts, whatever step is taken.
LEMMA TellingStep ==
  ASSUME Typed, SlipInv, [Next]_vars, NEW v \in Workers
  PROVE  Telling(op'[v])
<1>0. Telling(op[v]) /\ Telling(Idle)
  BY IdleSlips DEF SlipInv, SlipCall, Telling
<1>1. CASE \/ \E u \in Uids, m \in Msgs, named \in Uids \cup {0} : SendStart(v, u, m, named)
           \/ \E u \in Uids : FlushStart(v, u) \/ DrainStart(v, u)
           \/ \E u \in Uids, m \in Ims, reads \in BOOLEAN : AckStart(v, u, m, reads)
  BY <1>1, StartSlips DEF Telling
<1>2. CASE SendPush(v)
  BY <1>0, <1>2, SendPushAfter, FlushSlips DEF Telling, SameSlips
<1>3. CASE Resolve(v)
  <2>1. op[v].do = "drain" => \A u \in Uids : Targets(v)[u] \in {"none", "instant"}
    BY DEF Targets
  <2> QED
    BY <1>0, <1>3, <2>1, ResolveAfter, FlushSlips DEF Telling, SameSlips
<1>4. CASE Reading(v)
  BY <1>0, <1>4, FlushSlips, ReadAfter, SlipsRead DEF Telling, Reading
<1>5. CASE Hand(v)
  <2>1. op'[v].slips # {} => op[v].slips # {} /\ There(v) # {}
    BY <1>5, FlushSlips
  <2>2. op'[v].slips # {} => op'[v].pc = "handed"
    BY <1>5, <2>1, DrainHands, HandAfter
  <2> QED
    BY <1>0, <1>5, <2>1, <2>2, HandAfter, FlushSlips DEF Telling
<1>6. CASE Stamps(v)
  BY <1>0, <1>6, FlushSlips DEF Telling, Stamps, SameSlips
<1>7. CASE Acks(v)
  BY <1>0, <1>7, AckDetails DEF Telling, Acks, SameSlips
<1> QED
  BY <1>0, <1>1, <1>2, <1>3, <1>4, <1>5, <1>6, <1>7, CallCases, SendEndsAfter, NoticesAfter

\* A receipt a drain is about to tell was noted, and is told by no one else.
Waits(m) ==
  /\ m \in receipted \ Mails /\ \A v \in Workers : ~Tells(v, m)
  /\ m \notin failed => told[m] = 0

\* So it stays while the drain holds flushing.
LEMMA WaitsStay ==
  ASSUME Typed, Lock, SlipInv, [Next]_vars, NEW v \in Workers, op[v].pc = "hand", op'[v] = op[v],
         NEW m \in Msgs \ closed', Waits(m)
  PROVE  Waits(m)'
<1>1. m \in receipted' /\ m \notin Mails
  BY ReceiptedStep DEF Waits
<1>2. ASSUME NEW x \in Workers PROVE ~Tells(x, m)'
  BY TellsBefore DEF Waits, ToldFirst
<1>3. ASSUME m \notin failed' PROVE told'[m] = 0
  <2>1. told[m] = 0
    BY <1>3, FailedGrows DEF Waits
  <2>2. ~\E x \in Workers : Hand(x) /\ m \in op[x].slips
    <3> SUFFICES ASSUME NEW x \in Workers, Hand(x) PROVE FALSE
      OBVIOUS
    <3>1. op[x].pc = "hand" /\ op'[x].pc # "hand"
      BY HandAfter
    <3> QED
      BY <3>1 DEF Lock, Inside
  <2>3. ~\E x \in Workers : AckTell(x) /\ op[x].msg = m /\ op[x].reads
    BY DEF Waits, Tells, AckTell
  <2> QED
    BY <2>1, <2>2, <2>3, ToldStep
<1> QED
  BY <1>1, <1>2, <1>3 DEF Waits

LEMMA SlipInvStep ==
  ASSUME Typed, Lock, SlipInv, TellInv, QuietInv, ReceiptOnce, [Next]_vars
  PROVE  SlipInv'
<1> SUFFICES ASSUME NEW v \in Workers, NEW m \in op'[v].slips
             PROVE  /\ op'[v].pc # "hand" => told'[m] > 0
                    /\ op'[v].pc = "hand" /\ m \notin closed' => Waits(m)'
  BY TellingStep DEF SlipInv, SlipCall, Waits
<1>0. /\ Telling(op'[v]) /\ op'[v].slips \subseteq Msgs /\ m \in Msgs
      /\ told \in [Msgs -> Nat] /\ told' \in [Msgs -> Nat]
      /\ closed \subseteq closed' /\ failed \subseteq failed'
  <2>1. Typed'
    BY TypedStep
  <2>2. op'[v] \in Calls
    BY <2>1 DEF Typed, CallTyped
  <2>3. op'[v].slips \subseteq Msgs
    BY <2>2 DEF Calls, CallRecs, SomeMsgs
  <2>4. closed \subseteq closed'
    BY <2>3, ReceiptedStep
  <2> QED
    BY <2>1, <2>3, <2>4, TellingStep, FailedGrows DEF Typed, HistTyped
<1>1. told[m] > 0 => told'[m] > 0
  BY <1>0, ToldStep
<1>2. CASE op'[v] = op[v]
  <2>1. CASE op[v].pc = "hand"
    <3>1. m \notin closed' => Waits(m)
      BY <1>0, <1>2, <2>1 DEF SlipInv, SlipCall, Waits
    <3> QED
      BY <1>0, <1>2, <2>1, <3>1, WaitsStay
  <2>2. CASE op[v].pc # "hand"
    BY <1>1, <1>2, <2>2 DEF SlipInv, SlipCall
  <2> QED
    BY <2>1, <2>2
<1>3. CASE Reading(v)
  <2>1. UNCHANGED <<storeVars, told, failed>> /\ op[v].pc = "read"
    BY <1>3 DEF Reading, Read, ReadFails, histVars
  <2>2. op'[v].pc = "hand" /\ m \in PendingSlips(op[v])
    BY <1>3, FlushSlips, IdleSlips
  <2>3. slip[m] # 0
    BY <2>2, SlipsRead
  <2>4. ~Marking(m)
    BY <2>1 DEF Marking, Lock, Inside
  <2>5. ASSUME m \notin closed' PROVE Waits(m)'
    <3>1. m \in receipted /\ m \notin Mails
      BY <1>0, <2>3, <2>5 DEF QuietInv, Untold
    <3>2. \A x \in Workers : ~Tells(x, m)
      BY <1>0, <2>3, <2>5 DEF TellInv
    <3>3. m \notin failed => told[m] = 0
      BY <1>0, <2>3, <2>4, <2>5 DEF ReceiptOnce
    <3>4. \A x \in Workers : ~Tells(x, m)'
      BY <3>1, <3>2, TellsBefore, <1>0 DEF ToldFirst
    <3> QED
      BY <2>1, <3>1, <3>3, <3>4 DEF Waits, storeVars
  <2> QED
    BY <2>2, <2>5
<1>4. CASE Hand(v)
  <2>1. There(v) # {} /\ m \in op[v].slips
    BY <1>4, FlushSlips
  <2>2. told'[m] = told[m] + 1
    BY <1>0, <1>4, <2>1 DEF Hand
  <2>3. op'[v].pc # "hand"
    BY <1>4, HandAfter
  <2> QED
    BY <1>0, <2>2, <2>3
<1>5. CASE Stamps(v)
  <2>1. op'[v].slips = op[v].slips /\ op[v].pc # "hand" /\ op'[v].pc # "hand"
    BY <1>5, FlushSlips, IdleSlips, StampAfter DEF Stamps, SameSlips
  <2> QED
    BY <1>1, <2>1 DEF SlipInv, SlipCall
<1>6. op'[v] = op[v] \/ Reading(v) \/ Hand(v) \/ Stamps(v)
  <2>1. op'[v].pc \in {"hand", "handed", "slips"} /\ op'[v] # Idle
    BY <1>0, IdleSlips DEF Telling
  <2> QED
    BY <2>1, StartSlips, SendEndsAfter, SendPushAfter, ResolveAfter, NoticesAfter, AckAfter,
       CallCases DEF Acks
<1> QED
  BY <1>2, <1>3, <1>4, <1>5, <1>6

LEMMA ReceiptOnceStep ==
  ASSUME Typed, Lock, SlipInv, TellInv, ReceiptOnce, [Next]_vars
  PROVE  ReceiptOnce'
<1> SUFFICES ASSUME NEW m \in Msgs, m \notin failed', m \notin closed'
             PROVE  told'[m] + (IF slip'[m] # 0 /\ ~Marking(m)' THEN 1 ELSE 0) <= 1
  BY DEF ReceiptOnce
<1>0. m \notin failed /\ m \notin closed /\ told[m] \in Nat /\ told'[m] \in Nat
  <2>1. Typed'
    BY TypedStep
  <2> QED
    BY <2>1, FailedGrows, ReceiptedStep DEF Typed, HistTyped
<1>1. told[m] + (IF slip[m] # 0 /\ ~Marking(m) THEN 1 ELSE 0) <= 1
  BY <1>0 DEF ReceiptOnce
<1>2. ASSUME NEW w \in Workers, Hand(w), There(w) # {}, m \in op[w].slips
      PROVE  told'[m] = 1 /\ Marking(m)'
  <2>1. told[m] = 0
    BY <1>0, <1>2 DEF Hand, SlipInv, SlipCall
  <2>3. told[m] = 0 /\ told'[m] = told[m] + 1
    BY <1>0, <1>2, <2>1 DEF Hand
  <2>4. op'[w].pc = "handed" /\ m \in op'[w].slips
    BY <1>2, DrainHands, HandAfter, FlushSlips
  <2> QED
    BY <2>3, <2>4 DEF Marking
<1>3. ASSUME NEW w \in Workers, AckTell(w), op[w].msg = m, op[w].reads
      PROVE  told[m] = 0 /\ slip'[m] = 0
  <2>1. Tells(w, m)
    BY <1>3 DEF AckTell, Tells
  <2>2. slip' = slip
    BY <1>3 DEF AckTell, storeVars
  <2> QED
    BY <1>0, <2>1, <2>2 DEF TellInv
<1>4. CASE told'[m] # told[m]
  BY <1>0, <1>2, <1>3, <1>4, ToldStep
<1>5. ASSUME told'[m] = told[m], slip'[m] # 0, ~Marking(m)' PROVE told[m] = 0
  <2>1. ASSUME NEW w \in Workers, AckSlip(w), op[w].msg = m PROVE told[m] = 0
    BY <1>0, <2>1 DEF AckSlip, SlipInv, SlipCall, Telling, TellInv, Tells
  <2>2. CASE slip[m] # 0 /\ ~Marking(m)
    BY <1>0, <1>1, <2>2
  <2>3. CASE slip'[m] = slip[m] /\ Marking(m)
    <3>1. PICK w \in Workers : op[w].pc \in {"handed", "slips"} /\ m \in op[w].slips
      BY <2>3 DEF Marking
    <3>2. op'[w] # op[w]
      BY <1>5, <3>1 DEF Marking
    <3>3. ~Restart
      BY <3>1 DEF Restart
    <3>4. Stamps(w)
      BY <3>1, <3>2, <3>3, OwnStep, SendStartAfter, StartsAfter, AckStartAfter,
         SendEndsAfter, SendPushAfter, ResolveAfter, ReadAfter, HandAfter, NoticesAfter,
         AckAfter DEF Own, Reading, Acks
    <3>5. ~StampSlips(w)
      BY <1>5, <3>1 DEF StampSlips, SlipsDelivered
    <3>6. op'[w].pc = "slips" /\ op'[w].slips = op[w].slips
      BY <3>1, <3>4, <3>5, FlushSlips DEF Stamps, SameSlips
    <3> QED
      BY <1>5, <3>1, <3>6 DEF Marking
  <2> QED
    BY <1>5, <2>1, <2>2, <2>3, SlipStep
<1> QED
  BY <1>0, <1>1, <1>4, <1>5

LEMMA OwedStep ==
  ASSUME Typed, SlipInv, OwedInv, [Next]_vars
  PROVE  OwedInv'
<1> SUFFICES ASSUME NEW m \in receipted', m \notin unslipped', m \notin failed'
             PROVE  Owed(m)'
  BY DEF OwedInv
<1>0. /\ m \in Msgs /\ m \notin failed /\ told \in [Msgs -> Nat]
      /\ unslipped \subseteq unslipped'
  <2>1. Typed'
    BY TypedStep
  <2>2. unslipped \subseteq unslipped'
    <3>1. CASE Aside \/ Restart
      BY <3>1 DEF Aside, Session, QuarantineEnds, InboxMarkRead, Prune, Friends, DayPasses,
                  Restart, vars, histVars, Login, Detach, Resume, EndSession
    <3>2. ASSUME NEW w \in Workers, NEW u \in Uids,
               \/ \E k \in Msgs, named \in Uids \cup {0} : SendStart(w, u, k, named)
               \/ FlushStart(w, u) \/ DrainStart(w, u)
               \/ \E k \in Ims, reads \in BOOLEAN : AckStart(w, u, k, reads)
          PROVE  unslipped' = unslipped
      BY <3>2 DEF SendStart, FlushStart, DrainStart, AckStart, histVars
    <3>3. ASSUME NEW w \in Workers, \/ SendEnds(w) \/ SendPush(w) \/ Resolve(w) \/ Reading(w)
                                    \/ Hand(w) \/ Stamps(w) \/ Notices(w)
          PROVE  unslipped' = unslipped
      BY <3>3 DEF SendEnds, SendLive, SendKnown, SendFull, SendFails, SendPush, Resolve,
                  Reading, Read, ReadFails, Hand, Stamps, Stamp, StampHanded, StampSlips,
                  StampFails, HandedFails, Notices, Notice, NoticeFails, histVars
    <3>4. ASSUME NEW w \in Workers, Acks(w) PROVE unslipped \subseteq unslipped'
      BY <3>4 DEF Acks, AckMark, AckTold, AckTell, AckSlip, AckFails, histVars
    <3> QED
      BY <3>1, <3>2, <3>3, <3>4, StepCases
  <2> QED
    BY <2>1, <2>2, FailedGrows DEF Typed, StoreTypeOK, HistTyped
<1>1. CASE m \notin receipted
  <2>1. PICK w \in Workers :
          AckTold(w) /\ op[w].msg = m /\ ToldFirst(m) /\ m \in Acked(op[w])
    BY <1>0, <1>1, ReceiptedStep
  <2>2. Tells(w, m)'
    BY <2>1, AckDetails DEF SameSlips, SlipInv, SlipCall, Telling, Tells
  <2> QED
    BY <2>2 DEF Owed
<1>2. CASE m \in receipted
  <2>1. Owed(m)
    BY <1>0, <1>2 DEF OwedInv
  <2>2. told[m] > 0 => told'[m] > 0
    BY <1>0, ToldStep
  <2>3. CASE slip[m] # 0
    <3>1. ASSUME NEW w \in Workers, StampSlips(w), m \in op[w].slips PROVE told[m] > 0
      BY <3>1 DEF StampSlips, SlipInv, SlipCall
    <3> QED
      BY <1>0, <2>2, <2>3, <3>1, SlipStep DEF Owed
  <2>4. ASSUME NEW w \in Workers, Tells(w, m) PROVE Owed(m)'
    <3>1. CASE op'[w] = op[w]
      BY <2>4, <3>1 DEF Owed, Tells
    <3>2. CASE Acks(w)
      <4>1. ~AckMark(w) /\ ~AckTold(w)
        BY <2>4, AckDetails DEF Tells
      <4>2. CASE AckTell(w)
        <5>1. CASE Messengers(From[m]) = {}
          BY <2>4, <4>2, <5>1, AckDetails DEF Owed, Tells, SameSlips
        <5>2. CASE Messengers(From[m]) # {}
          <6>1. told'[m] = told[m] + 1
            BY <1>0, <2>4, <4>2, <5>2 DEF AckTell, Tells
          <6>2. told'[m] > 0
            BY <1>0, <6>1
          <6> QED
            BY <6>2 DEF Owed
        <5> QED
          BY <5>1, <5>2
      <4>3. CASE AckSlip(w)
        <5>1. slip'[m] = lastId + 1 /\ lastId \in Nat
          BY <1>0, <2>4, <4>3 DEF AckSlip, StoredSlip, Tells, Typed, StoreTypeOK
        <5>2. slip'[m] # 0
          BY <5>1
        <5> QED
          BY <5>2 DEF Owed
      <4>4. ~AckFails(w)
        BY <2>4 DEF AckFails, Tells
      <4> QED
        BY <3>2, <4>1, <4>2, <4>3, <4>4 DEF Acks
    <3>3. ~Restart
      BY <1>0, <2>4 DEF Restart, Tells
    <3>4. op'[w] = op[w] \/ Acks(w)
      <4>1. op[w].pc \in {"tell", "slip"}
        BY <2>4 DEF Tells
      <4> QED
        BY <3>3, <4>1, OwnStep, SendStartAfter, StartsAfter, AckStartAfter, SendEndsAfter,
           SendPushAfter, ResolveAfter, ReadAfter, HandAfter, StampAfter, NoticesAfter
           DEF Own, Reading, Stamps
    <3> QED
      BY <3>1, <3>2, <3>4
  <2> QED
    BY <2>1, <2>2, <2>3, <2>4 DEF Owed
<1> QED
  BY <1>1, <1>2

LEMMA ReceiptInit == ASSUME Init PROVE ReceiptInv
<1>1. /\ op = [w \in Workers |-> Idle] /\ told = [m \in Msgs |-> 0]
      /\ slip = [m \in Msgs |-> 0] /\ receipted = {}
  BY DEF Init, StoreInit
<1>2. SlipInv
  BY <1>1, IdleSlips DEF SlipInv, SlipCall, Telling
<1>3. TellInv
  BY <1>1, IdleSlips DEF TellInv, Tells
<1>4. QuietInv /\ OwedInv
  BY <1>1 DEF QuietInv, OwedInv
<1>5. ReceiptOnce
  BY <1>1 DEF ReceiptOnce
<1> QED
  BY <1>2, <1>3, <1>4, <1>5 DEF ReceiptInv

\* What the calls, the store and the history say of a read agree, whatever the
\* devices that acknowledge it, the drains, the faults and the restarts.
THEOREM ReceiptInvariant == Spec => []ReceiptInv
<1>1. Init => ReceiptInv
  BY ReceiptInit
<1>2. Typed /\ IInv /\ ReceiptInv /\ [Next]_vars => ReceiptInv'
  BY SlipInvStep, TellStep, QuietStep, OwedStep, ReceiptOnceStep DEF ReceiptInv, IInv
<1> QED
  BY <1>1, <1>2, InboxInvariant, PTL DEF Spec

\* A read is told once at most, however many devices acknowledge it at once
\* and whether its sender hears it or drains it (im_ack, im_drain).
THEOREM ReadsToldOnce == Spec => []ReceiptOnce
<1>1. ReceiptInv => ReceiptOnce
  BY DEF ReceiptInv
<1> QED
  BY <1>1, ReceiptInvariant, PTL

\* A read noted as told was told, waits for its sender, or is being told, but
\* for what a fault, a restart or retention took (im_ack, receipt_told).
THEOREM ReadsNotLost == Spec => []ReceiptKept
<1>1. ReceiptInv => ReceiptKept
  BY DEF ReceiptInv, OwedInv, Owed, Tells, ReceiptKept
<1> QED
  BY <1>1, ReceiptInvariant, PTL

(***************************************************************************)
(* A private message does not wait in silence.                             *)
(***************************************************************************)
\* Somebody was handed the row or told of it, or what kept it back is known.
Heard == reached \cup dropped \cup counted \cup excused

\* The call of w will not end before m is heard of: it has m's row to
\* deliver, it is the flush u's login or resume called for, or it has targets.
Commits(c, m, u) ==
  \/ c.pc = "resolve" /\ c.msg = m
  \/ c.pc = "lock" /\ c.do = "flush" /\ c.box = To[m] /\ c.by = u
  \/ /\ c.do = "flush" \/ (c.do = "send" /\ c.msg = m)
     /\ c.box = To[m] /\ c.pc \in {"read", "hand", "stamp", "notice"}
     /\ c.pc \in {"read", "hand"} => \E v \in Uids : c.which[v] \in {"all", "mail"}

WaitInv ==
  \A m \in Mails \ Heard, u \in Uids :
    m \in Waiting(To[m]) /\ Settled(u, To[m]) => \E w \in Workers : Commits(op[w], m, u)

\* A send names a session by its uid, or the account.
NamedInv == \A w \in Workers : op[w].named \in Uids \cup {0}

\* A set of numbers that is not empty has a least.
LEMMA Least ==
  ASSUME NEW T \in SUBSET Nat, T # {}
  PROVE  \E x \in T : \A y \in T : x <= y
<1> DEFINE less == {p \in Nat \X Nat : p[1] < p[2]}
<1>1. IsWellFoundedOn(less, Nat)
  BY NatLessThanWellFounded, Zenon DEF OpToRel
<1>2. PICK x \in T : \A y \in T : ~ (<<y, x>> \in less)
  <2> HIDE DEF less
  <2> QED
    BY <1>1, WFMin
<1>3. \A y \in T : ~ (y < x)
  BY <1>2
<1> QED
  BY <1>3

LEMMA HeardGrows == ASSUME Typed, [Next]_vars PROVE Heard \subseteq Heard'
<1> USE DEF Heard
<1>1. CASE Aside \/ Restart
  BY <1>1 DEF Aside, Session, QuarantineEnds, InboxMarkRead, Prune, Friends, DayPasses,
              Restart, vars, histVars, Login, Detach, Resume, EndSession
<1>2. ASSUME NEW w \in Workers, NEW u \in Uids,
             \/ \E k \in Msgs, named \in Uids \cup {0} : SendStart(w, u, k, named)
             \/ FlushStart(w, u) \/ DrainStart(w, u)
             \/ \E k \in Ims, reads \in BOOLEAN : AckStart(w, u, k, reads)
      PROVE  Heard \subseteq Heard'
  BY <1>2 DEF SendStart, FlushStart, DrainStart, AckStart, histVars
<1>3. ASSUME NEW w \in Workers, \/ SendEnds(w) \/ SendPush(w) \/ Resolve(w) \/ Reading(w)
                                \/ Stamps(w) \/ Notices(w) \/ Acks(w)
      PROVE  Heard \subseteq Heard'
  BY <1>3 DEF SendEnds, SendLive, SendKnown, SendFull, SendFails, SendPush, Resolve, Reading,
              Read, ReadFails, Stamps, Stamp, StampHanded, StampSlips, StampFails, HandedFails,
              Notices, Notice, NoticeFails, Acks, AckMark, AckTold, AckTell, AckSlip, AckFails,
              histVars
<1>4. ASSUME NEW w \in Workers, Hand(w) PROVE Heard \subseteq Heard'
  <2>1. excused \subseteq excused' /\ counted' = counted
    BY <1>4 DEF Hand
  <2> QED
    BY <1>4, <2>1, HandUsers
<1> QED
  BY <1>1, <1>2, <1>3, <1>4, StepCases

\* A private message waits while its row has no stamp.
LEMMA MailWaits ==
  ASSUME Typed, SendInv, NEW m \in Mails
  PROVE  m \in Waiting(To[m]) <=> m \in Rows \ (delivered \cup handed)
<1>1. on[m] = 0 /\ m \in Msgs
  BY DEF SendInv, Msgs
<1> QED
  BY <1>1 DEF Waiting, LiveRow

\* It starts to wait when it is stored.
LEMMA WaitingStep ==
  ASSUME Typed, SendInv, SendInv', [Next]_vars, NEW m \in Mails, m \in Waiting(To[m])'
  PROVE  \/ m \in Waiting(To[m])
         \/ m \notin Rows /\ \E w \in Workers : SendPush(w) /\ op[w].msg = m
<1>0. Typed' /\ id \in [Msgs -> Nat] /\ m \in Msgs
  BY TypedStep DEF Typed, StoreTypeOK, Msgs
<1>1. m \in Rows' \ (delivered' \cup handed')
  <2>1. on'[m] = 0
    BY DEF SendInv
  <2> QED
    BY <1>0, <2>1 DEF Waiting, Rows
<1> SUFFICES ASSUME ~(m \notin Rows /\ \E w \in Workers : SendPush(w) /\ op[w].msg = m)
             PROVE  m \in Rows \ (delivered \cup handed)
  BY MailWaits
<1> DEFINE Goal == m \in Rows \ (delivered \cup handed)
<1>2. CASE UNCHANGED storeVars
  BY <1>1, <1>2 DEF storeVars, Rows
<1>3. ASSUME NEW w \in Workers, SendPush(w) PROVE Goal
  BY <1>0, <1>1, <1>3 DEF SendPush, Stored, storeVars, Rows
<1>4. ASSUME NEW w \in Workers, Stamps(w) PROVE Goal
  BY <1>1, <1>4 DEF Stamps, Stamp, StampHanded, StampSlips, StampFails, HandedFails,
                    MarkDelivered, MarkHanded, SlipsDelivered, storeVars, Rows
<1>5. ASSUME NEW w \in Workers, Acks(w) PROVE Goal
  BY <1>1, <1>5 DEF Acks, AckMark, AckTold, AckTell, AckSlip, AckFails, MarkDelivered,
                    ReceiptTold, StoredSlip, storeVars, Rows
<1>6. ASSUME NEW u \in Uids, NEW k \in Msgs, InboxMarkRead(u, k) PROVE Goal
  BY <1>1, <1>6 DEF InboxMarkRead, MarkRead, Rows
<1>7. ASSUME NEW k \in Msgs, Prune(k) PROVE Goal
  <2>1. CASE PruneRead(k)
    BY <1>0, <1>1, <2>1 DEF PruneRead, Dropped, Rows
  <2>2. CASE PruneSent(k)
    BY <1>0, <1>1, <2>2 DEF PruneSent, Dropped, Rows
  <2>3. CASE PruneSlip(k)
    BY <1>1, <2>3 DEF PruneSlip, SlipsDelivered, Rows
  <2> QED
    BY <1>7, <2>1, <2>2, <2>3 DEF Prune
<1>8. ASSUME NEW p \in Pairs, Friends(p) PROVE Goal
  BY <1>1, <1>8 DEF Friends, Befriend, Unfriend, Rows
<1>9. CASE DayPasses
  BY <1>1, <1>9 DEF DayPasses, Age, Rows
<1> QED
  BY <1>2, <1>3, <1>4, <1>5, <1>6, <1>7, <1>8, <1>9, StoreCases

\* A session settles when its flush is started, and only then.
LEMMA SettledStep ==
  ASSUME Typed, [Next]_vars, NEW u \in Uids, NEW m \in Msgs, Settled(u, To[m])'
  PROVE  Settled(u, To[m]) \/ \E w \in Workers : FlushStart(w, u) /\ users[u].acct = To[m]
<1> DEFINE Same == /\ users'[u].acct = users[u].acct
                   /\ users'[u].sink = "live" => users[u].sink = "live"
                   /\ users'[u].due = users[u].due
<1>0. /\ users \in [Uids -> Users] /\ GetsMail(To[m])
      /\ users'[u].acct = To[m] /\ users'[u].sink = "live" /\ ~users'[u].due
  BY DEF Typed, SessTyped, GetsMail, Settled, Holds, Live
<1>1. Same => Settled(u, To[m])
  BY <1>0 DEF Settled, Holds, Live
<1>2. CASE Aside
  <2>1. ASSUME NEW v \in Uids, NEW a \in Accounts, NEW k \in Wire[a], Login(v, a, k)
        PROVE  Same
    <3>1. v # u
      <4> SUFFICES ASSUME v = u PROVE FALSE
        OBVIOUS
      <4>0. PICK g : g = GetsMail(a)
        OBVIOUS
      <4>1. users'[u] = [NoUser EXCEPT !.acct = a, !.wire = k, !.sink = "live",
                           !.due = g, !.serial = serial + 1]
        BY <1>0, <2>1, <4>0 DEF Login
      <4>2. users'[u].acct = a /\ users'[u].due = g
        BY <4>1 DEF NoUser
      <4> QED
        BY <1>0, <4>0, <4>2
    <3> QED
      BY <1>0, <2>1, <3>1 DEF Login
  <2>2. ASSUME NEW v \in Uids, Detach(v) \/ Resume(v) \/ EndSession(v)
        PROVE  Same
    <3>1. CASE v # u
      BY <1>0, <2>2, <3>1 DEF Detach, Resume, EndSession
    <3>2. CASE Detach(u)
      BY <1>0, <3>2 DEF Detach, Users
    <3>3. CASE Resume(u)
      <4>0. PICK g : g = GetsMail(users[u].acct)
        OBVIOUS
      <4>1. users'[u] = [users[u] EXCEPT !.sink = "live", !.due = g]
        BY <1>0, <3>3, <4>0 DEF Resume
      <4>2. users'[u].acct = users[u].acct /\ users'[u].due = g
        BY <1>0, <4>1 DEF Users
      <4> QED
        BY <1>0, <4>0, <4>2
    <3>4. CASE EndSession(u)
      BY <1>0, <3>4 DEF EndSession, NoUser
    <3> QED
      BY <2>2, <3>1, <3>2, <3>3, <3>4
  <2>3. Session \/ UNCHANGED users
    BY <1>2 DEF Aside, QuarantineEnds, InboxMarkRead, Prune, Friends, DayPasses, vars, sessVars
  <2> QED
    BY <1>1, <2>1, <2>2, <2>3 DEF Session
<1>3. CASE Restart
  BY <1>0, <1>3 DEF Restart, NoUser
<1>4. ASSUME NEW w \in Workers, NEW v \in Uids, NEW k \in Msgs, NEW named \in Uids \cup {0},
             SendStart(w, v, k, named)
      PROVE  Same
  BY <1>0, <1>4 DEF SendStart, Users
<1>5. ASSUME NEW w \in Workers, NEW v \in Uids, FlushStart(w, v)
      PROVE  Same \/ (v = u /\ users[u].acct = To[m])
  BY <1>0, <1>5 DEF FlushStart, Users
<1>6. ASSUME NEW w \in Workers, NEW v \in Uids, DrainStart(w, v) PROVE Same
  BY <1>0, <1>6 DEF DrainStart, Users
<1>7. ASSUME NEW w \in Workers, NEW v \in Uids, NEW k \in Ims, NEW reads \in BOOLEAN,
             AckStart(w, v, k, reads)
      PROVE  Same
  BY <1>0, <1>7 DEF AckStart, Users
<1>8. ASSUME NEW w \in Workers, Hand(w) PROVE Same
  <2>1. PICK took :
          users'[u] = IF u \in There(w) THEN Take(users[u], BatchFor(w, u), took[u])
                      ELSE users[u]
    BY <1>8, HandTakes DEF HandsOver
  <2>2. CASE u \in There(w)
    <3>0. PICK b, f : b = BatchFor(w, u) /\ f = took[u]
      OBVIOUS
    <3>1. users'[u] = Take(users[u], b, f)
      BY <2>1, <2>2, <3>0
    <3>3. users'[u] = [users[u] EXCEPT !.got = @ \cup f, !.again = @ \cup (users[u].got \cap f),
                         !.sink = IF f = b THEN @ ELSE "lagged"]
      BY <3>1 DEF Take
    <3> QED
      BY <1>0, <3>3 DEF Users
  <2> QED
    BY <2>1, <2>2
<1>9. ASSUME NEW w \in Workers, ~SendLive(w),
             \/ SendEnds(w) \/ SendPush(w) \/ Resolve(w) \/ Reading(w)
             \/ Stamps(w) \/ Notices(w) \/ Acks(w)
      PROVE  Same
  <2>1. users' = users
    BY <1>9 DEF SendEnds, SendKnown, SendFull, SendFails, SendPush, Resolve, Reading,
                Read, ReadFails, Stamps, Stamp, StampHanded, StampSlips, StampFails,
                HandedFails, Notices, Notice, NoticeFails, Acks, AckMark, AckTold, AckTell,
                AckSlip, AckFails, sessVars
  <2> QED
    BY <2>1
<1>10. ASSUME NEW w \in Workers, SendLive(w) PROVE Same
  BY <1>10, SendLiveUsers DEF Noted
<1> QED
  BY <1>1, <1>2, <1>3, <1>4, <1>5, <1>6, <1>7, <1>8, <1>9, <1>10, StepCases

LEMMA NamedStep == ASSUME Typed, NamedInv, [Next]_vars PROVE NamedInv'
<1>0. op \in [Workers -> Calls] /\ Idle.named = 0
  BY DEF Typed, CallTyped, Idle
<1> SUFFICES ASSUME NEW w \in Workers PROVE op'[w].named \in Uids \cup {0}
  BY DEF NamedInv
<1>1. CASE op'[w] = op[w] \/ op'[w] = Idle
  BY <1>0, <1>1 DEF NamedInv
<1>2. ASSUME NEW u \in Uids, NEW m \in Msgs, NEW named \in Uids \cup {0},
             SendStart(w, u, m, named)
      PROVE  op'[w].named \in Uids \cup {0}
  <2>1. PICK pc \in {"push", "live"} :
        op'[w] = [Idle EXCEPT !.pc = pc, !.do = "send", !.msg = m, !.box = To[m], !.by = u,
             !.named = named, !.on = IF m \in Ims THEN rel[Pair(m)] ELSE 0]
    BY ZenonT(60), <1>0, <1>2 DEF SendStart, Now
  <2> QED
    BY <2>1 DEF Idle
<1>3. ASSUME NEW u \in Uids, FlushStart(w, u) \/ DrainStart(w, u)
      PROVE  op'[w].named = 0
  <2>1. PICK d \in {"flush", "drain"} :
        op'[w] = [Idle EXCEPT !.pc = "lock", !.do = d, !.box = users[u].acct, !.by = u]
    BY <1>0, <1>3 DEF FlushStart, DrainStart, Now
  <2> QED
    BY <2>1 DEF Idle
<1>4. ASSUME NEW u \in Uids, NEW m \in Ims, NEW reads \in BOOLEAN, AckStart(w, u, m, reads)
      PROVE  op'[w].named = 0
  <2>1. op'[w] = [Idle EXCEPT !.pc = "mark", !.do = "ack", !.msg = m,
                    !.box = To[m], !.by = u, !.on = id[m], !.reads = reads]
    BY <1>0, <1>4 DEF AckStart, Now
  <2> QED
    BY <2>1 DEF Idle
<1>5. CASE SendPush(w)
  <2> DEFINE f == op[w].msg \notin Rows
  <2>1. op'[w] = [op[w] EXCEPT !.pc = "resolve", !.fresh = f]
    BY <1>0, <1>5 DEF SendPush, Now
  <2> HIDE DEF f
  <2>2. op'[w].named = op[w].named
    BY <1>0, <2>1 DEF Calls, CallRecs
  <2> QED
    BY <2>2 DEF NamedInv
<1>6. CASE Resolve(w)
  <2> DEFINE t == Targets(w)
  <2>1. op'[w] = [op[w] EXCEPT !.pc = "read", !.which = t, !.by = 0, !.named = 0, !.on = 0]
    BY <1>0, <1>6 DEF Resolve, Now
  <2> HIDE DEF t
  <2> QED
    BY <1>0, <2>1 DEF Calls, CallRecs
<1>7. ASSUME NEW x \in PCs, op'[w] = [op[w] EXCEPT !.pc = x]
      PROVE  op'[w].named = op[w].named
  BY <1>0, <1>7 DEF Calls, CallRecs
<1>8. CASE Reading(w)
  <2> DEFINE b == [k \in DOMAIN NoBatch |-> Pending(op[w], k)]
             s == PendingSlips(op[w])
  <2>1. \/ op'[w] = Idle
        \/ op'[w] = [op[w] EXCEPT !.pc = "hand", !.batch = b, !.slips = s]
        \/ op'[w] = [op[w] EXCEPT !.pc = "hand", !.slips = s]
    <3>1. \A g : Answered(w, g) => op'[w] = Idle
      BY AnsweredAfter
    <3>2. \A c : Now(w, c) => op'[w] = c
      BY <1>0 DEF Now
    <3> HIDE DEF b, s
    <3>3. \/ Answered(w, {})
          \/ Now(w, [op[w] EXCEPT !.pc = "hand", !.batch = b, !.slips = s])
          \/ Now(w, [op[w] EXCEPT !.pc = "hand", !.slips = s])
      BY <1>8 DEF Reading, Read, ReadFails, b, s
    <3> QED
      BY <3>1, <3>2, <3>3
  <2> HIDE DEF b, s
  <2>2. op'[w] = Idle \/ op'[w].named = op[w].named
    BY <1>0, <2>1 DEF Calls, CallRecs
  <2> QED
    BY <1>1, <2>2 DEF NamedInv
<1>9. CASE Hand(w)
  <2>1. PICK g : op'[w] = HandedOver(w, g)
    BY <1>0, <1>9 DEF Hand, Now
  <2>2. op'[w].named = op[w].named
    BY <1>0, <2>1, GivenOf
  <2> QED
    BY <2>2 DEF NamedInv
<1>10. CASE Stamps(w)
  <2>0. op' = [op EXCEPT ![w] = [op[w] EXCEPT !.pc = "notice", !.unread = {}]]
        => op'[w].named = op[w].named
    BY <1>0 DEF Calls, CallRecs
  <2>1. \/ op'[w] = Idle \/ \E x \in PCs : op'[w] = [op[w] EXCEPT !.pc = x]
        \/ op'[w].named = op[w].named
    <3>1. "notice" \in PCs /\ "slips" \in PCs
      BY DEF PCs
    <3>2. \A g : Answered(w, g) => op'[w] = Idle
      BY AnsweredAfter
    <3> QED
      BY <1>0, <1>10, <2>0, <3>1, <3>2
         DEF Stamps, Stamp, StampHanded, StampSlips, StampFails, HandedFails, Now
  <2> QED
    BY <1>1, <1>7, <2>1 DEF NamedInv
<1>11. CASE Acks(w)
  <2>1. op'[w] = Idle \/ \E x \in PCs : op'[w] = [op[w] EXCEPT !.pc = x]
    <3>1. "told" \in PCs /\ "tell" \in PCs /\ "slip" \in PCs
      BY DEF PCs
    <3>2. Done(w) => op'[w] = Idle
      BY DoneAfter
    <3> QED
      BY <1>0, <1>11, <3>1, <3>2
         DEF Acks, AckMark, AckTold, AckTell, AckSlip, AckFails, Now
  <2> QED
    BY <1>1, <1>7, <2>1 DEF NamedInv
<1> QED
  BY <1>1, <1>2, <1>3, <1>4, <1>5, <1>6, <1>8, <1>9, <1>10, <1>11, CallCases, SendEndsAfter,
     NoticesAfter

\* The oldest of the rows that wait is read by any flush that reads some.
LEMMA OldestThere ==
  ASSUME NEW S, NEW key, \A x \in S : key[x] \in Nat, S # {}, NEW n \in Nat \ {0}
  PROVE  Oldest(S, n, key) # {}
<1>1. PICK x \in S : \A y \in S : key[x] <= key[y]
  <2> DEFINE T == {key[y] : y \in S}
  <2>1. T \in SUBSET Nat /\ T # {}
    OBVIOUS
  <2>2. PICK t \in T : \A z \in T : t <= z
    <3> HIDE DEF T
    <3> QED
      BY <2>1, Least
  <2> QED
    BY <2>2
<1>2. {k \in S : key[k] < key[x]} = {}
  BY <1>1
<1>3. Cardinality({k \in S : key[k] < key[x]}) = 0
  BY <1>2, FS_EmptySet
<1>4. x \in Oldest(S, n, key)
  BY <1>3 DEF Oldest
<1> QED
  BY <1>4

\* A send that finds a session of its mailbox settled has a target.
LEMMA SendTargets ==
  ASSUME Typed, NamedInv, NEW w \in Workers, op[w].do = "send", op[w].msg \in Mails,
         NEW u \in Uids, Holds(op[w].box, u), op[w].by # u
  PROVE  \E v \in Uids : Targets(w)[v] \in {"all", "mail"}
<1> DEFINE a == op[w].box
           S == AttachedOf(a, op[w].by)
           N == NamedSessions(a, op[w].named, op[w].by)
<1>1. u \in S /\ S \subseteq Uids /\ S \subseteq Nat
  BY InboxAssumption DEF AttachedOf, SessionsOf, Holds
<1>2. PICK v \in Uids : v \in N
  <2>1. CASE op[w].named = 0
    BY <1>1, <2>1 DEF NamedSessions
  <2>2. CASE op[w].named # 0 /\ Holds(a, op[w].named)
    BY <2>2 DEF NamedSessions, NamedInv
  <2>3. CASE op[w].named # 0 /\ ~Holds(a, op[w].named)
    <3>1. PICK x \in S : \A y \in S : x <= y
      <4> HIDE DEF S
      <4> QED
        BY <1>1, Least
    <3> QED
      BY <1>1, <2>3, <3>1 DEF NamedSessions, Lowest
  <2> QED
    BY <2>1, <2>2, <2>3
<1>3. op[w].msg \notin Ims
  BY MessageStoreAssumption
<1>4. Targets(w) = [x \in Uids |-> IF x \in N THEN WhichOf(x) ELSE "none"]
  BY <1>3 DEF Targets
<1>5. Targets(w)[v] = WhichOf(v)
  <2> HIDE DEF N
  <2> QED
    BY <1>2, <1>4
<1> QED
  BY <1>5 DEF WhichOf

\* A call that has committed itself ends with the row heard of.
LEMMA CommitsStay ==
  ASSUME Typed, Lock, BatchInv, SendInv, NamedInv, [Next]_vars, ~Restart,
         NEW m \in Mails, m \notin Heard', m \in Waiting(To[m]),
         NEW u \in Uids, Settled(u, To[m]), NEW w \in Workers, Commits(op[w], m, u), Own(w)
  PROVE  Commits(op'[w], m, u)
<1>0. m \in Msgs /\ Holds(To[m], u)
  BY DEF Msgs, Settled
<1>1. CASE op[w].pc = "resolve"
  <2>1. op[w].msg = m /\ op[w].do = "send" /\ op[w].box = To[m]
    BY <1>1 DEF Commits, SendInv, SendCall
  <2>2. Resolve(w)
    BY <1>1, SendStartAfter, StartsAfter, AckStartAfter, SendEndsAfter, SendPushAfter,
       ReadAfter, HandAfter, StampAfter, NoticesAfter, AckAfter DEF Own, Reading, Stamps, Acks
  <2>3. users[op[w].by].acct # op[w].box
    BY <2>1, <2>2 DEF Resolve, Heard
  <2>4. op[w].by # u
    BY <1>0, <2>1, <2>3 DEF Holds
  <2>5. \E v \in Uids : Targets(w)[v] \in {"all", "mail"}
    BY <1>0, <2>1, <2>4, SendTargets
  <2> QED
    BY <2>1, <2>2, <2>5, ResolveAfter DEF Commits, SameCall
<1>2. CASE op[w].pc = "lock"
  <2>1. op[w].do = "flush" /\ op[w].box = To[m] /\ op[w].by = u
    BY <1>2 DEF Commits
  <2>2. Resolve(w)
    BY <1>2, SendStartAfter, StartsAfter, AckStartAfter, SendEndsAfter, SendPushAfter,
       ReadAfter, HandAfter, StampAfter, NoticesAfter, AckAfter DEF Own, Reading, Stamps, Acks
  <2>3. Targets(w)[u] = WhichOf(u)
    BY <1>0, <2>1 DEF Targets
  <2> QED
    BY <2>1, <2>2, <2>3, ResolveAfter DEF Commits, SameCall, WhichOf
<1>3. CASE op[w].pc = "read"
  <2>1. Reading(w) /\ op[w].box = To[m]
    BY <1>3, SendStartAfter, StartsAfter, AckStartAfter, SendEndsAfter, SendPushAfter,
       ResolveAfter, HandAfter, StampAfter, NoticesAfter, AckAfter DEF Own, Stamps, Acks,
                                                                       Commits
  <2>2. ~ReadFails(w)
    BY <2>1 DEF ReadFails, Heard
  <2>3. PICK v \in Uids : op[w].which[v] \in {"all", "mail"}
    BY <1>3 DEF Commits
  <2>4. Pending(op[w], op[w].which[v]) # {}
    <3>1. m \in WaitingMail(op[w].box) /\ m \in Waiting(op[w].box)
      BY <2>1 DEF WaitingMail
    <3>2. id \in [Msgs -> Nat] /\ Waiting(op[w].box) \subseteq Msgs
          /\ WaitingMail(op[w].box) \subseteq Msgs /\ Limit \in Nat \ {0}
      BY InboxAssumption DEF Typed, StoreTypeOK, Waiting, WaitingMail, Rows
    <3>3. \A S \in SUBSET Msgs : m \in S => Oldest(S, Limit, id) # {}
      BY <3>2, OldestThere
    <3> QED
      BY <2>3, <3>1, <3>2, <3>3 DEF Pending
  <2>5. op'[w] # Idle
    <3>1. [k \in DOMAIN NoBatch |-> Pending(op[w], k)] # NoBatch
      <4> DEFINE b == [k \in DOMAIN NoBatch |-> Pending(op[w], k)]
      <4>1. b[op[w].which[v]] = Pending(op[w], op[w].which[v])
        BY <2>3 DEF NoBatch
      <4>2. NoBatch[op[w].which[v]] = {}
        BY <2>3 DEF NoBatch
      <4> QED
        BY <2>4, <4>1, <4>2
    <3> DEFINE b == [k \in DOMAIN NoBatch |-> Pending(op[w], k)]
               s == PendingSlips(op[w])
    <3>2. Now(w, [op[w] EXCEPT !.pc = "hand", !.batch = b, !.slips = s])
      BY <2>1, <2>2, <3>1 DEF Read, Reading
    <3> HIDE DEF b, s
    <3>3. op'[w].pc = "hand"
      BY <3>2 DEF Now, Typed, CallTyped, Calls, CallRecs
    <3> QED
      BY <3>3, IdleSlips
  <2> QED
    BY <1>3, <2>1, <2>3, <2>5, ReadAfter DEF Commits, Reading, SameCall
<1>4. CASE op[w].pc = "hand"
  <2>1. Hand(w) /\ op[w].box = To[m]
    BY <1>4, SendStartAfter, StartsAfter, AckStartAfter, SendEndsAfter, SendPushAfter,
       ResolveAfter, ReadAfter, StampAfter, NoticesAfter, AckAfter
       DEF Own, Reading, Stamps, Acks, Commits
  <2>2. PICK v \in Uids : op[w].which[v] \in {"all", "mail"}
    BY <1>4 DEF Commits
  <2>3. ~Instantly(w)
    BY <1>4, <2>2 DEF Instantly, BatchInv, BatchCall
  <2> QED
    BY <1>4, <2>1, <2>3, HandAfter DEF Commits, SameCall
<1>5. CASE op[w].pc = "stamp"
  <2>1. Stamps(w) /\ op[w].box = To[m]
    BY <1>5, SendStartAfter, StartsAfter, AckStartAfter, SendEndsAfter, SendPushAfter,
       ResolveAfter, ReadAfter, HandAfter, NoticesAfter, AckAfter DEF Own, Reading, Acks,
                                                                      Commits
  <2>2. op'[w].pc = "notice"
    BY <1>5, <2>1, FlushSlips DEF Stamps
  <2> QED
    BY <1>5, <2>1, <2>2, StampAfter, IdleSlips DEF Commits, SameCall, Stamps
<1>6. CASE op[w].pc = "notice"
  <2>1. Notices(w) /\ op[w].box = To[m]
    BY <1>6, SendStartAfter, StartsAfter, AckStartAfter, SendEndsAfter, SendPushAfter,
       ResolveAfter, ReadAfter, HandAfter, StampAfter, AckAfter
       DEF Own, Reading, Stamps, Acks, Commits
  <2>2. CASE NoticeFails(w)
    BY <2>1, <2>2 DEF NoticeFails, Heard
  <2>3. CASE Notice(w)
    BY <2>1, <2>3 DEF Notice, Heard, WaitingMail
  <2> QED
    BY <2>1, <2>2, <2>3 DEF Notices
<1> QED
  BY <1>1, <1>2, <1>3, <1>4, <1>5, <1>6 DEF Commits

LEMMA WaitStep ==
  ASSUME Typed, Lock, BatchInv, SendInv, SendInv', NamedInv, WaitInv, [Next]_vars
  PROVE  WaitInv'
<1> SUFFICES ASSUME NEW m \in Mails, m \notin Heard', NEW u \in Uids,
                    m \in Waiting(To[m])', Settled(u, To[m])'
             PROVE  \E w \in Workers : Commits(op'[w], m, u)
  BY DEF WaitInv
<1>0. m \in Msgs /\ m \notin Heard /\ op \in [Workers -> Calls]
  BY HeardGrows DEF Msgs, Typed, CallTyped
<1>1. ASSUME NEW w \in Workers, SendPush(w), op[w].msg = m PROVE Commits(op'[w], m, u)
  BY <1>1, SendPushAfter DEF Commits, SameCall
<1>2. ASSUME NEW w \in Workers, FlushStart(w, u), users[u].acct = To[m]
      PROVE  Commits(op'[w], m, u)
  <2>1. op'[w] = [Idle EXCEPT !.pc = "lock", !.do = "flush", !.box = users[u].acct, !.by = u]
    BY <1>0, <1>2 DEF FlushStart, Now
  <2>2. op'[w].pc = "lock" /\ op'[w].do = "flush" /\ op'[w].box = To[m] /\ op'[w].by = u
    BY <1>2, <2>1 DEF Idle
  <2> QED
    BY <2>2 DEF Commits
<1>3. CASE m \in Waiting(To[m]) /\ Settled(u, To[m])
  <2>1. PICK w \in Workers : Commits(op[w], m, u)
    BY <1>0, <1>3 DEF WaitInv
  <2>2. ~Restart
    BY DEF Restart, NoUser, Settled, Holds, Live
  <2> QED
    BY <1>3, <2>1, <2>2, OwnStep, CommitsStay
<1> QED
  BY <1>0, <1>1, <1>2, <1>3, WaitingStep, SettledStep

\* Store, then resolve: a private message that waits beside a session whose own
\* flush is done is in the care of a call that ends with the row handed over,
\* announced, or kept back by something known (deliver, flush_held, flush_inbox).
THEOREM NothingWaitsInSilence == Spec => []NoSilentWait
<1>1. Init => NamedInv /\ WaitInv
  BY DEF Init, StoreInit, NamedInv, WaitInv, Idle, Waiting, Rows, Msgs
<1>2. /\ Typed /\ IInv /\ NamedInv /\ WaitInv /\ [Next]_vars /\ IInv' => NamedInv' /\ WaitInv'
  BY NamedStep, WaitStep DEF IInv
<1>3. Typed /\ IInv /\ WaitInv => NoSilentWait
  <2> SUFFICES ASSUME Typed, IInv, WaitInv,
                      NEW m \in Mails, m \notin Heard, NEW u \in Uids,
                      m \in Waiting(To[m]), Settled(u, To[m])
               PROVE  Coming(m)
    BY DEF NoSilentWait, Heard
  <2>1. PICK w \in Workers : Commits(op[w], m, u)
    BY DEF WaitInv
  <2>2. Lock
    BY DEF IInv
  <2> QED
    BY <2>1, <2>2 DEF Coming, Commits, Lock, Inside
<1> QED
  BY <1>1, <1>2, <1>3, InboxInvariant, PTL DEF Spec

(***************************************************************************)
(* The order of private messages.                                          *)
(***************************************************************************)
\* Rows have ids of their own, none past the last handed out.
IdInv ==
  /\ \A m \in Msgs : id[m] <= lastId
  /\ \A m, k \in Rows : id[m] = id[k] => m = k

\* What a flush has read is older than what it left.
MailLots == {"all", "mail"}
InBatch(w, m) == \E k \in MailLots : m \in op[w].batch[k]
ReadCall(w) ==
  op[w].pc = "hand" =>
    \A l \in MailLots :
      \A k \in op[w].batch[l] \cap Mails \cap Rows, m \in (Mails \cap Rows) \ op[w].batch[l] :
        m \in Waiting(op[w].box) \/ InBatch(w, m) => id[k] < id[m]
ReadInv == \A w \in Workers : ReadCall(w)

\* What a session may still be handed is younger than what it has.
Pends(m) == m \in Waiting(To[m]) \/ \E w \in Workers : InBatch(w, m)
OrderInv ==
  \A u \in Uids : \A k \in (users[u].got \cap Mails \cap Rows) \ closed :
    \A m \in (Mails \cap Rows) \ users[u].got :
      To[m] = users[u].acct /\ Pends(m) => id[k] < id[m]

\* What becomes of a row's id.
LEMMA IdStep ==
  ASSUME Typed, [Next]_vars
  PROVE  \/ /\ \A m \in Msgs : id'[m] \in {id[m], 0}
            /\ lastId' \in {lastId, lastId + 1}
         \/ \E w \in Workers :
              /\ SendPush(w) /\ op[w].msg \in Msgs \ (Rows \cup stubs)
              /\ id' = [id EXCEPT ![op[w].msg] = lastId + 1] /\ lastId' = lastId + 1
<1> DEFINE Goal == /\ \A m \in Msgs : id'[m] \in {id[m], 0}
                   /\ lastId' \in {lastId, lastId + 1}
<1>0. id \in [Msgs -> Nat]
  BY DEF Typed, StoreTypeOK
<1>1. CASE UNCHANGED storeVars
  BY <1>1 DEF storeVars
<1>2. ASSUME NEW w \in Workers, SendPush(w), ~Goal
      PROVE  /\ op[w].msg \in Msgs \ (Rows \cup stubs)
             /\ id' = [id EXCEPT ![op[w].msg] = lastId + 1] /\ lastId' = lastId + 1
  <2>1. op[w].msg \in Msgs
    BY <1>2 DEF SendPush, Typed, CallTyped, Calls, Bearing
  <2>2. op[w].msg \notin Rows
    BY <1>2 DEF SendPush, storeVars
  <2> QED
    BY <1>2, <2>1, <2>2 DEF SendPush, Stored
<1>3. ASSUME NEW w \in Workers, Stamps(w) \/ Acks(w) PROVE Goal
  BY <1>3 DEF Stamps, Stamp, StampHanded, StampSlips, StampFails, HandedFails, MarkDelivered,
              MarkHanded, SlipsDelivered, Acks, AckMark, AckTold, AckTell, AckSlip, AckFails,
              ReceiptTold, StoredSlip, storeVars
<1>4. ASSUME NEW u \in Uids, NEW k \in Msgs, InboxMarkRead(u, k) PROVE Goal
  BY <1>4 DEF InboxMarkRead, MarkRead
<1>5. ASSUME NEW k \in Msgs, Prune(k) PROVE Goal
  <2>1. CASE PruneRead(k)
    BY <1>0, <2>1 DEF PruneRead, Dropped
  <2>2. CASE PruneSent(k)
    BY <1>0, <2>2 DEF PruneSent, Dropped
  <2>3. CASE PruneSlip(k)
    BY <2>3 DEF PruneSlip, SlipsDelivered
  <2> QED
    BY <1>5, <2>1, <2>2, <2>3 DEF Prune
<1>6. ASSUME NEW p \in Pairs, Friends(p) PROVE Goal
  BY <1>6 DEF Friends, Befriend, Unfriend
<1>7. CASE DayPasses
  BY <1>7 DEF DayPasses, Age
<1> QED
  BY <1>1, <1>2, <1>3, <1>4, <1>5, <1>6, <1>7, StoreCases

LEMMA IdInvStep == ASSUME Typed, IdInv, [Next]_vars PROVE IdInv'
<1>0. id \in [Msgs -> Nat] /\ lastId \in Nat
  BY DEF Typed, StoreTypeOK
<1>1. CASE /\ \A m \in Msgs : id'[m] \in {id[m], 0}
           /\ lastId' \in {lastId, lastId + 1}
  BY <1>0, <1>1 DEF IdInv, Rows
<1>2. ASSUME NEW x \in Msgs \ Rows, id' = [id EXCEPT ![x] = lastId + 1], lastId' = lastId + 1
      PROVE  IdInv'
  BY <1>0, <1>2 DEF IdInv, Rows
<1> QED
  BY <1>1, <1>2, IdStep

\* The mailbox is finite, and a flush reads its oldest rows: none it leaves
\* is older than one it takes.
LEMMA RowsFinite == ASSUME Typed, IdInv PROVE IsFiniteSet(Rows)
<1> DEFINE f == [m \in Rows |-> id[m]]
<1>1. \A m \in Rows : id[m] \in 1..lastId
  BY DEF Typed, StoreTypeOK, IdInv, Rows
<1>2. f \in Injection(Rows, 1..lastId)
  BY <1>1 DEF IdInv, Injection, IsInjective
<1>3. IsFiniteSet(1..lastId)
  BY FS_Interval DEF Typed, StoreTypeOK
<1> HIDE DEF f
<1> QED
  BY <1>2, <1>3, FS_Injection

LEMMA OldestFirst ==
  ASSUME Typed, IdInv, NEW S \in SUBSET Rows, NEW n \in Nat,
         NEW k \in Oldest(S, n, id), NEW m \in S, m \notin Oldest(S, n, id)
  PROVE  id[k] < id[m]
<1>1. k \in S /\ id[k] \in Nat /\ id[m] \in Nat /\ \A j \in S : id[j] \in Nat
  BY DEF Oldest, Typed, StoreTypeOK, Rows
<1> SUFFICES ASSUME id[m] <= id[k] PROVE FALSE
  BY <1>1
<1> DEFINE A == {j \in S : id[j] < id[m]}
           B == {j \in S : id[j] < id[k]}
<1>2. A \in SUBSET B /\ B \in SUBSET Rows
  BY <1>1
<1>3. IsFiniteSet(B) /\ Cardinality(A) <= Cardinality(B)
  <2> HIDE DEF A, B
  <2>1. IsFiniteSet(B)
    BY <1>2, RowsFinite, FS_Subset
  <2> QED
    BY <1>2, <2>1, FS_Subset
<1>4. IsFiniteSet(A) /\ Cardinality(A) \in Nat /\ Cardinality(B) \in Nat
  <2> HIDE DEF A, B
  <2> QED
    BY <1>2, <1>3, FS_Subset, FS_CardinalityType
<1>5. Cardinality(B) < n /\ ~(Cardinality(A) < n)
  BY DEF Oldest
<1> QED
  BY <1>3, <1>4, <1>5

\* What Hand puts in a session's hands are the first rows of its batch.
LEMMA HandFits ==
  ASSUME Typed, NEW w \in Workers, Hand(w), NEW u \in There(w)
  PROVE  /\ u \in Uids /\ users'[u].acct = users[u].acct
         /\ \E f \in Prefixes(BatchFor(w, u)) : users'[u].got = users[u].got \cup f
<1>1. PICK took : HandsOver(w, took)
  BY HandTakes
<1>2. u \in Uids /\ users[u] \in Users /\ took[u] \in Prefixes(BatchFor(w, u))
  BY <1>1 DEF There, Typed, SessTyped, HandsOver
<1>3. PICK b, f : b = BatchFor(w, u) /\ f = took[u]
  OBVIOUS
<1>4. users'[u] = Take(users[u], b, f)
  BY <1>1, <1>2, <1>3 DEF HandsOver
<1>5. users'[u] = [users[u] EXCEPT !.got = @ \cup f, !.again = @ \cup (users[u].got \cap f),
                     !.sink = IF f = b THEN @ ELSE "lagged"]
  BY <1>4 DEF Take
<1>6. users'[u].got = users[u].got \cup f /\ users'[u].acct = users[u].acct
  BY <1>2, <1>5 DEF Users
<1> QED
  BY <1>2, <1>3, <1>6

\* A private message handed over comes from a batch of the session's mailbox.
LEMMA HandFrom ==
  ASSUME Typed, BatchInv, NEW w \in Workers, Hand(w), NEW u \in There(w),
         NEW m \in BatchFor(w, u), m \in Mails
  PROVE  /\ op[w].which[u] \in MailLots /\ m \in op[w].batch[op[w].which[u]]
         /\ To[m] = op[w].box /\ users[u].acct = op[w].box
         /\ BatchFor(w, u) \cap Mails = op[w].batch[op[w].which[u]] \cap Mails
<1>1. u \in Uids /\ op[w].which[u] \in Kinds /\ BatchCall(w) /\ StillThere(w, u)
  BY DEF There, BatchInv, Typed, CallTyped, Calls, CallRecs, Reads
<1>2. /\ op[w].which[u] \in Lots /\ m \in op[w].batch[op[w].which[u]]
      /\ BatchFor(w, u) \cap Mails = op[w].batch[op[w].which[u]] \cap Mails
  BY <1>1 DEF BatchFor, Kinds, Lots
<1>3. op[w].which[u] # "instant"
  BY <1>1, <1>2, MessageStoreAssumption DEF BatchCall
<1>4. users[u].acct = op[w].box
  BY <1>1, <1>2, <1>3 DEF StillThere, Lots, Holds
<1>5. To[m] = op[w].box
  BY <1>1, <1>2 DEF BatchCall
<1> QED
  BY <1>2, <1>3, <1>4, <1>5 DEF Lots, MailLots

LEMMA ReadStep ==
  ASSUME Typed, Lock, BatchInv, BatchInv', SendInv, SendInv', IdInv, ReadInv, [Next]_vars
  PROVE  ReadInv'
<1> SUFFICES ASSUME NEW v \in Workers, op'[v].pc = "hand", NEW l \in MailLots,
                    NEW k \in op'[v].batch[l], k \in Mails, k \in Rows',
                    NEW m \in Mails \ op'[v].batch[l], m \in Rows',
                    m \in Waiting(op[v].box)' \/ InBatch(v, m)'
             PROVE  id'[k] < id'[m]
  BY DEF ReadInv, ReadCall
<1>0. /\ k \in Msgs /\ m \in Msgs /\ MailLots \subseteq Lots
      /\ op'[v].batch[l] # {}
  BY DEF Msgs, MailLots, Lots
<1>1. CASE op'[v] = op[v]
  <2>1. flushing = v /\ v # NoWorker
    BY <1>1, InboxAssumption DEF Lock, Inside
  <2>2. \A x \in Workers : ~SendPush(x)
    BY <2>1 DEF SendPush
  <2>3. id'[k] = id[k] /\ id'[m] = id[m]
    BY <1>0, <2>2, IdStep DEF Rows
  <2>r. k \in Rows /\ m \in Rows
    BY <1>0, <2>3 DEF Rows
  <2>4. m \in Waiting(op[v].box) \/ InBatch(v, m)
    <3>1. CASE InBatch(v, m)'
      BY <1>1, <3>1 DEF InBatch
    <3>2. CASE m \in Waiting(op[v].box)'
      <4>1. To[m] = op[v].box
        BY <1>1, <3>2 DEF Waiting
      <4>2. m \in Waiting(To[m])'
        BY <1>1, <3>2, <4>1
      <4> QED
        BY <2>2, <4>1, <4>2, WaitingStep
    <3> QED
      BY <3>1, <3>2
  <2> QED
    BY <1>1, <2>3, <2>r, <2>4 DEF ReadInv, ReadCall
<1>2. CASE Reading(v)
  <2>1. op[v].pc = "read" /\ op'[v] # Idle /\ UNCHANGED storeVars
    BY <1>2, ReadAfter, IdleSlips DEF Reading, Read, ReadFails
  <2>2. /\ op'[v].box = op[v].box
        /\ \A j \in Lots : op'[v].batch[j] \in {op[v].batch[j], Pending(op[v], j)}
    BY <1>2, <2>1, ReadAfter DEF Reading, SameCall
  <2>3. \A j \in Lots : op[v].batch[j] = {}
    BY <2>1 DEF BatchInv, BatchCall
  <2>4. op'[v].batch[l] = Pending(op[v], l)
    BY <1>0, <2>2, <2>3
  <2>5. m \in Waiting(op[v].box)
    <3>1. CASE InBatch(v, m)'
      <4>1. PICK j \in MailLots : m \in op'[v].batch[j]
        BY <3>1 DEF InBatch
      <4>2. m \in Pending(op[v], j) /\ j \in Lots /\ j # "instant"
        BY <2>2, <2>3, <4>1 DEF MailLots, Lots
      <4> QED
        BY <4>2, PendingRows
    <3>2. CASE m \in Waiting(op[v].box)'
      BY <2>1, <2>2, <3>2 DEF storeVars, Waiting, Rows, LiveRow
    <3> QED
      BY <3>1, <3>2
  <2>6. PICK S \in SUBSET Rows : Pending(op[v], l) = Oldest(S, Limit, id) /\ m \in S
    <3>1. Waiting(op[v].box) \in SUBSET Rows /\ WaitingMail(op[v].box) \in SUBSET Rows
          /\ m \in WaitingMail(op[v].box)
      BY <2>5 DEF Waiting, WaitingMail
    <3>2. Pending(op[v], l) # {}
      BY <1>0, <2>4
    <3>3. \/ Pending(op[v], l) = Oldest(Waiting(op[v].box), Limit, id)
          \/ Pending(op[v], l) = Oldest(WaitingMail(op[v].box), Limit, id)
      BY <3>2 DEF Pending, MailLots
    <3> QED
      BY <2>5, <3>1, <3>3
  <2>7. id[k] < id[m]
    BY <2>4, <2>6, OldestFirst, InboxAssumption
  <2> QED
    BY <2>1, <2>7 DEF storeVars
<1>3. op'[v] = op[v] \/ Reading(v)
  BY StartSlips, SendEndsAfter, SendPushAfter, ResolveAfter, HandAfter, StampAfter, NoticesAfter,
     AckAfter, IdleSlips, CallCases DEF Stamps, Acks
<1> QED
  BY <1>1, <1>2, <1>3

\* A message that may be handed over was stored, or could be before.
LEMMA PendsStep ==
  ASSUME Typed, BatchInv, SendInv, SendInv', [Next]_vars, NEW m \in Mails, Pends(m)'
  PROVE  \/ Pends(m)
         \/ m \notin Rows /\ \E w \in Workers : SendPush(w) /\ op[w].msg = m
<1>1. CASE m \in Waiting(To[m])'
  BY <1>1, WaitingStep DEF Pends
<1>2. ASSUME NEW v \in Workers, InBatch(v, m)' PROVE Pends(m)
  <2>0. PICK j \in MailLots : m \in op'[v].batch[j]
    BY <1>2 DEF InBatch
  <2>1. CASE op'[v] = op[v]
    BY <2>0, <2>1 DEF Pends, InBatch
  <2>2. CASE Reading(v) /\ op'[v] # Idle
    <3>1. op[v].pc = "read" /\ op'[v].batch[j] \in {op[v].batch[j], Pending(op[v], j)}
      BY <2>2, ReadAfter DEF Reading, MailLots, Lots
    <3>2. op[v].batch[j] = {}
      BY <3>1 DEF BatchInv, BatchCall, MailLots, Lots
    <3>3. m \in Pending(op[v], j) /\ j \in Lots /\ j # "instant"
      BY <2>0, <3>1, <3>2 DEF MailLots, Lots
    <3> QED
      BY <3>3, PendingRows DEF Pends
  <2>3. op'[v] = op[v] \/ (Reading(v) /\ op'[v] # Idle)
    <3>1. BatchInv'
      BY BatchStep
    <3>2. op'[v].pc = "hand"
      BY <2>0, <3>1 DEF BatchInv, BatchCall, MailLots, Lots
    <3> QED
      BY <3>2, StartSlips, SendEndsAfter, SendPushAfter, ResolveAfter, HandAfter, StampAfter,
         NoticesAfter, AckAfter, IdleSlips, CallCases DEF Stamps, Acks
  <2> QED
    BY <2>1, <2>2, <2>3
<1> QED
  BY <1>1, <1>2 DEF Pends

\* Of what a session is handed nothing it is left is older.
LEMMA HandOrder ==
  ASSUME Typed, Lock, BatchInv, BatchInv', ReadInv,
         NEW w \in Workers, Hand(w), NEW u \in There(w), NEW f \in Prefixes(BatchFor(w, u)),
         NEW k \in f, k \in Mails \cap Rows,
         NEW m \in Mails \cap Rows, m \notin f,
         To[m] = users[u].acct, Pends(m)'
  PROVE  id[k] < id[m]
<1>0. k \in BatchFor(w, u) /\ op[w].pc = "hand"
  BY HandAfter DEF Prefixes
<1>1. /\ op[w].which[u] \in MailLots /\ k \in op[w].batch[op[w].which[u]]
      /\ users[u].acct = op[w].box
      /\ BatchFor(w, u) \cap Mails = op[w].batch[op[w].which[u]] \cap Mails
  BY <1>0, HandFrom
<1>2. m \in Waiting(op[w].box)
  <2>1. ASSUME NEW v \in Workers, InBatch(v, m)' PROVE FALSE
    <3>1. op'[v].pc = "hand"
      BY <2>1 DEF InBatch, BatchInv, BatchCall, MailLots, Lots
    <3>2. v # w /\ op'[v] = op[v]
      BY <3>1, HandAfter DEF Others
    <3> QED
      BY <1>0, <3>1, <3>2 DEF Lock, Inside
  <2>2. m \in Waiting(To[m])'
    BY <2>1 DEF Pends
  <2>3. UNCHANGED storeVars
    BY DEF Hand
  <2> QED
    BY <1>1, <2>2, <2>3 DEF storeVars, Waiting, Rows, LiveRow
<1>3. CASE m \in op[w].batch[op[w].which[u]]
  <2>1. m \in BatchFor(w, u) \ f
    BY <1>1, <1>3
  <2> QED
    BY <2>1 DEF Prefixes
<1>4. CASE m \notin op[w].batch[op[w].which[u]]
  BY <1>0, <1>1, <1>2, <1>4 DEF ReadInv, ReadCall
<1> QED
  BY <1>3, <1>4

LEMMA OrderStep ==
  ASSUME Typed, Lock, BatchInv, BatchInv', SendInv, SendInv', OnceInv, IdInv, ReadInv,
         OrderInv, [Next]_vars
  PROVE  OrderInv'
<1> SUFFICES ASSUME NEW u \in Uids, NEW k \in users'[u].got, k \in Mails, k \in Rows',
                    k \notin closed', NEW m \in Mails, m \in Rows', m \notin users'[u].got,
                    To[m] = users'[u].acct, Pends(m)'
             PROVE  id'[k] < id'[m]
  BY DEF OrderInv
<1>0. k \in Msgs /\ m \in Msgs /\ id \in [Msgs -> Nat] /\ lastId \in Nat
  BY DEF Msgs, Typed, StoreTypeOK
<1>c. k \notin closed
  BY KnownStays
<1>1. ASSUME k \in users[u].got, m \notin users[u].got, users'[u].acct = users[u].acct
      PROVE  id'[k] < id'[m]
  <2>1. k \in Rows \cup stubs
    BY <1>c, <1>1 DEF OnceInv, Known
  <2>2. CASE /\ \A j \in Msgs : id'[j] \in {id[j], 0}
             /\ ~\E w \in Workers : SendPush(w) /\ op[w].msg \notin Rows
    <3>1. id'[k] = id[k] /\ id'[m] = id[m] /\ k \in Rows
      BY <1>0, <2>2 DEF Rows
    <3>2. Pends(m) /\ m \in Rows
      BY <1>0, <2>2, <3>1, PendsStep DEF Rows
    <3> QED
      BY <1>c, <1>1, <3>1, <3>2 DEF OrderInv
  <2>3. ASSUME NEW w \in Workers, SendPush(w), op[w].msg \notin Rows
        PROVE  id'[k] < id'[m]
    <3>1. op[w].msg \in Msgs \ (Rows \cup stubs)
      BY <2>3 DEF SendPush, SendInv, SendCall
    <3>2. id' = [id EXCEPT ![op[w].msg] = lastId + 1]
      BY <2>3 DEF SendPush, Stored
    <3>3. id'[k] = id[k] /\ k \in Rows
      BY <1>0, <2>1, <3>1, <3>2 DEF Rows
    <3>4. CASE op[w].msg = m
      BY <1>0, <3>2, <3>3, <3>4 DEF IdInv
    <3>5. CASE op[w].msg # m
      <4>1. m \in Rows /\ id'[m] = id[m]
        BY <1>0, <3>2, <3>5 DEF Rows
      <4>2. Pends(m)
        BY <4>1, PendsStep
      <4> QED
        BY <1>c, <1>1, <3>3, <4>1, <4>2 DEF OrderInv
    <3> QED
      BY <3>4, <3>5
  <2> QED
    BY <2>2, <2>3, IdStep
<1>2. CASE \A w \in Workers : ~Hand(w)
  <2>1. Kept(u)
    BY <1>2, UsersStep DEF Emptied
  <2> QED
    BY <1>1, <2>1 DEF Kept
<1>3. ASSUME NEW w \in Workers, Hand(w) PROVE id'[k] < id'[m]
  <2>1. CASE u \notin There(w)
    BY <1>1, <1>3, <2>1, HandUsers
  <2>2. CASE u \in There(w)
    <3>1. users'[u].acct = users[u].acct
      BY <1>3, <2>2, HandFits
    <3>2. PICK f \in Prefixes(BatchFor(w, u)) : users'[u].got = users[u].got \cup f
      BY <1>3, <2>2, HandFits
    <3>3. CASE k \in users[u].got
      BY <1>1, <3>1, <3>2, <3>3
    <3>4. CASE k \notin users[u].got
      <4>1. id' = id /\ Rows' = Rows
        BY <1>3 DEF Hand, storeVars, Rows
      <4>2. id[k] < id[m]
        BY <1>3, <2>2, <3>1, <3>2, <3>4, <4>1, HandOrder
      <4> QED
        BY <4>1, <4>2
    <3> QED
      BY <3>3, <3>4
  <2> QED
    BY <2>1, <2>2
<1> QED
  BY <1>2, <1>3

SequenceInv == IdInv /\ ReadInv /\ OrderInv

\* The oldest rows go first, so what a session may yet be handed is younger
\* than what it has, though flushes, pulls, prunes and sends interleave.
THEOREM SequenceInvariant == Spec => []SequenceInv
<1>1. Init => SequenceInv
  <2> SUFFICES ASSUME Init PROVE SequenceInv
    OBVIOUS
  <2>1. /\ op = [w \in Workers |-> Idle] /\ users = [u \in Uids |-> NoUser]
        /\ id = [m \in Msgs |-> 0] /\ lastId = 0
    BY DEF Init, StoreInit
  <2>2. NoUser.got = {} /\ Idle.pc = "idle"
    BY DEF NoUser, Idle
  <2>3. IdInv
    BY <2>1 DEF IdInv, Rows
  <2>4. ReadInv /\ OrderInv
    BY <2>1, <2>2 DEF ReadInv, ReadCall, OrderInv
  <2> QED
    BY <2>3, <2>4 DEF SequenceInv
<1>2. Typed /\ IInv /\ SequenceInv /\ [Next]_vars /\ IInv' => SequenceInv'
  BY IdInvStep, ReadStep, OrderStep DEF SequenceInv, IInv
<1> QED
  BY <1>1, <1>2, InboxInvariant, PTL DEF Spec

\* No flush hands a session a private message older than one it already has
\* (flush_held, pending_of).
THEOREM MailInOrder == Spec => InOrder
<1> DEFINE A == \A u \in Uids :
       Incarnation(u)' = Incarnation(u) =>
         \A m \in ((users'[u].got \ users[u].got) \cap Mails \cap Rows) \ closed :
           \A k \in (users[u].got \cap Mails \cap Rows) \ closed : id[k] < id[m]
<1>1. Typed /\ IInv /\ SequenceInv /\ [Next]_vars => [A]_vars
  <2> SUFFICES ASSUME Typed, IInv, SequenceInv, [Next]_vars,
                      NEW u \in Uids, NEW m \in Mails \cap Rows, m \in users'[u].got,
                      m \notin users[u].got,
                      NEW k \in Mails \cap Rows, k \in users[u].got, k \notin closed
               PROVE  id[k] < id[m]
    OBVIOUS
  <2>0. BatchInv /\ OrderInv
    BY DEF IInv, SequenceInv
  <2>1. PICK w \in Workers : Hand(w)
    BY UsersStep DEF Kept, Emptied
  <2>2. u \in There(w) /\ m \in BatchFor(w, u)
    BY <2>1, HandUsers
  <2>3. To[m] = users[u].acct /\ InBatch(w, m)
    BY <2>0, <2>1, <2>2, HandFrom DEF InBatch
  <2> QED
    BY <2>0, <2>3 DEF OrderInv, Pends
<1> QED
  BY <1>1, InboxInvariant, SequenceInvariant, PTL DEF InOrder, Spec

=============================================================================
