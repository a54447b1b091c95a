------------------------------- MODULE Inbox -------------------------------
(***************************************************************************)
(* Private and instant messages (hxd-core, chat.rs and messaging/im.rs):   *)
(* sends, the flushes that hand waiting rows to attached sessions, the     *)
(* drain at Get Roster, and acknowledgements with their read receipts.     *)
(*                                                                         *)
(* A call runs on a blocking thread, a worker here, and takes the roster   *)
(* lock and the store one after the other, never both.  What it read under *)
(* one it uses under the other.  The `flushing` mutex is held from the     *)
(* write of a row to the stamp of what the flush handed over.              *)
(*                                                                         *)
(*   send:   idle -> live | push -> resolve -> read -> hand -> stamp       *)
(*                -> notice -> idle                                        *)
(*   flush:  idle -> lock -> resolve -> ...      drain: idle -> lock       *)
(*   ack:    idle -> mark -> told -> tell -> slip -> idle                  *)
(*                                                                         *)
(* A session is its uid's while it lasts; a freed uid is quarantined and   *)
(* then reissued.  Blocks, signatures, media, reactions, notifications and *)
(* mail to oneself are left out.                                           *)
(***************************************************************************)
EXTENDS MessageStore, Sequences

CONSTANTS
  Uids,        \* the uids of the server, numbers
  NoAccount,
  NoMsg,
  Wire,        \* the wires an account's sessions speak: "ng", "legacy"
  Workers,     \* the threads that run calls
  NoWorker,    \* flushing is free
  Limit,       \* inbox_policy.deliver_at_flush
  SendQuota,   \* inbox_policy.max_sent_per_day
  Lagging,     \* the uids whose queue may fill
  MaxLogins,   \* bound: logins
  MaxEvents    \* bound: calls of the clients, faults and rows pruned, together

ASSUME InboxAssumption ==
  /\ Uids \subseteq Nat \ {0}
  /\ NoAccount \notin Accounts /\ NoMsg \notin Msgs /\ NoWorker \notin Workers
  /\ Limit \in Nat \ {0} /\ SendQuota \in Nat \ {0}

VARIABLES
  users,     \* RosterInner.users
  freed,     \* RosterInner.freed_uids, oldest first
  lastUid,   \* RosterInner.last_uid
  serial,    \* RosterInner.last_serial
  flushing,  \* who holds Core.flushing
  op,        \* what each worker is doing
  answer,    \* what a message's last send was answered
  events,    \* how many of the bounded events there were
  \* History, for the properties.
  reached,   \* rows put on a live session's queue
  dropped,   \* rows every queue they were put on was too full for
  counted,   \* rows counted in a notice to a live session
  pulled,    \* rows a client marked read or acknowledged that it had listed
  unstored,  \* messages sent live past the quota, with no row
  raced,     \* messages whose row was stored while another send of them was
             \* about to go out live
  excused,   \* rows a fault or a session that left kept from their flush
  failed,    \* rows whose stamp failed
  told,      \* how often a read was told: a receipt sent to a live session, whose
             \* queue may have dropped it
  unslipped, \* receipts a fault lost after receipt_told, or retention aged out
  early      \* a uid was reissued inside its quarantine

sessVars == <<users, freed, lastUid, serial>>
callVars == <<flushing, op, answer>>
seenVars == <<reached, dropped, pulled, unstored, raced>>
histVars == <<seenVars, counted, excused, failed, told, unslipped, early>>
vars == <<storeVars, sessVars, callVars, events, histVars>>

NoUser == [acct |-> NoAccount, wire |-> "ng", sink |-> "none",
           messenger |-> FALSE, due |-> FALSE, serial |-> 0, got |-> {}, again |-> {},
           beside |-> {}]

Nobody == [u \in Uids |-> "none"]
NoBatch == [all |-> {}, mail |-> {}, instant |-> {}]
Idle == [pc |-> "idle", do |-> "none", msg |-> NoMsg, box |-> NoAccount, by |-> 0,
         named |-> 0, on |-> 0, which |-> Nobody, batch |-> NoBatch, slips |-> {},
         given |-> {}, unread |-> {}, met |-> {}, fresh |-> FALSE, reads |-> FALSE]

Init ==
  /\ StoreInit
  /\ users = [u \in Uids |-> NoUser] /\ freed = <<>> /\ lastUid = 0 /\ serial = 0
  /\ flushing = NoWorker /\ op = [w \in Workers |-> Idle]
  /\ answer = [m \in Msgs |-> "none"] /\ events = 0
  /\ reached = {} /\ dropped = {} /\ counted = {} /\ pulled = {} /\ excused = {}
  /\ unstored = {} /\ raced = {} /\ failed = {}
  /\ told = [m \in Msgs |-> 0] /\ unslipped = {} /\ early = FALSE

(***************************************************************************)
(* Sessions.                                                               *)
(***************************************************************************)
Live(u) == users[u].sink = "live"
Holds(a, u) == users[u].acct = a /\ Live(u)
SessionsOf(a) == {u \in Uids : users[u].acct = a}
AttachedOf(a, sender) == {u \in SessionsOf(a) \ {sender} : Live(u)}
Messengers(a) == {u \in SessionsOf(a) : Live(u) /\ users[u].messenger}

Lowest(S) == {u \in S : \A v \in S : u <= v}

\* The session that was named if it is attached, else the lowest attached;
\* all of them for a message that named the account.
NamedSessions(a, named, sender) ==
  IF named = 0 THEN AttachedOf(a, sender)
  ELSE IF Holds(a, named) THEN {named} ELSE Lowest(AttachedOf(a, sender))

\* next_uid: in turn, the next that is neither in use nor quarantined; with
\* none, the one freed first.
Unused == {u \in Uids : users[u] = NoUser /\ \A i \in DOMAIN freed : freed[i] # u}
After == {u \in Unused : u > lastUid}
NextUids ==
  IF Unused # {} THEN Lowest(IF After # {} THEN After ELSE Unused)
  ELSE IF freed = <<>> THEN {} ELSE {Head(freed)}

\* A flush of a mailbox that is sent nothing is left out.
GetsMail(a) == \E m \in Msgs : To[m] = a

\* A login, announced in the same step; its flush is due.
Login(u, a, k) ==
  /\ serial < MaxLogins
  /\ u \in NextUids
  /\ early' = (early \/ Unused = {})
  /\ freed' = IF Unused = {} THEN Tail(freed) ELSE freed
  /\ lastUid' = IF Unused = {} THEN lastUid ELSE u
  /\ serial' = serial + 1
  /\ users' = [users EXCEPT ![u] =
                 [NoUser EXCEPT !.acct = a, !.wire = k, !.sink = "live", !.due = GetsMail(a),
                                !.serial = serial + 1]]
  /\ UNCHANGED <<storeVars, callVars, events, seenVars, counted, excused, failed, told,
                 unslipped>>

\* The connection is lost, or closed because its queue was full.
Detach(u) ==
  /\ users[u].wire = "ng" /\ users[u].sink \in {"live", "lagged"}
  /\ users' = [users EXCEPT ![u] = [@ EXCEPT !.sink = "detached", !.due = FALSE]]
  /\ UNCHANGED <<storeVars, freed, lastUid, serial, callVars, events, histVars>>

\* Mutant of Resume: the inbox is not flushed.
ResumeUnflushed(u) ==
  /\ events < MaxEvents /\ events' = events + 1
  /\ users[u].sink = "detached"
  /\ users' = [users EXCEPT ![u] = [@ EXCEPT !.sink = "live"]]
  /\ UNCHANGED <<storeVars, freed, lastUid, serial, flushing, op, answer, histVars>>

\* A resume, or the sync a resume called for: the inbox is flushed after it.
Resume(u) ==
  /\ events < MaxEvents /\ events' = events + 1
  /\ users[u].sink = "detached"
  /\ users' = [users EXCEPT ![u] =
                 [@ EXCEPT !.sink = "live", !.due = GetsMail(users[u].acct)]]
  /\ UNCHANGED <<storeVars, freed, lastUid, serial, flushing, op, answer, histVars>>

EndSession(u) ==
  /\ users[u] # NoUser
  /\ users' = [users EXCEPT ![u] = NoUser]
  /\ freed' = Append(freed, u)
  /\ UNCHANGED <<storeVars, lastUid, serial, callVars, events, histVars>>

Uses(w, u) == op[w].by = u \/ op[w].named = u \/ op[w].which[u] # "none"

\* The quarantine of the uid freed first ends.  No call lasts as long.
QuarantineEnds ==
  /\ freed # <<>>
  /\ \A w \in Workers : op[w].pc # "idle" => ~Uses(w, Head(freed))
  /\ freed' = Tail(freed)
  /\ UNCHANGED <<storeVars, users, lastUid, serial, callVars, events, histVars>>

(***************************************************************************)
(* Sends, up to the row.                                                   *)
(***************************************************************************)
\* Worker w is now at c.
Now(w, c) == op' = [op EXCEPT ![w] = c]
Done(w) == Now(w, Idle)

\* send_quota_spent counts the rows of the last day.
QuotaSpent(a) == Cardinality({m \in today : From[m] = a}) >= SendQuota

\* msg_signed, msg_login_signed and im_send: who is addressed, on which
\* friendship, and whether the sender's quota leaves room for a row.
SendStart(w, u, m, named) ==
  /\ op[w].pc = "idle" /\ events < MaxEvents
  /\ Holds(From[m], u)
  /\ named # 0 => m \in Mails /\ named \in SessionsOf(To[m])
  /\ m \in Ims => users[u].wire = "ng" /\ rel[Pair(m)] # 0
  /\ users' = [users EXCEPT ![u] = [@ EXCEPT !.messenger = @ \/ m \in Ims]]
  /\ events' = events + 1
  /\ Now(w, [Idle EXCEPT !.pc = IF QuotaSpent(From[m]) /\ ~FindGuid(m) THEN "live" ELSE "push",
                         !.do = "send", !.msg = m, !.box = To[m], !.by = u, !.named = named,
                         !.on = IF m \in Ims THEN rel[Pair(m)] ELSE 0])
  /\ UNCHANGED <<storeVars, freed, lastUid, serial, flushing, answer, histVars>>

\* Past the quota a message goes to the attached sessions with no row, and so
\* beside the stored copy if they were handed that.  Some queues may be full.
SendLive(w) ==
  LET o == op[w]
      to == IF o.msg \in Mails THEN NamedSessions(o.box, o.named, o.by)
                               ELSE {u \in SessionsOf(o.box) : Live(u)}
  IN /\ o.pc = "live"
     /\ o.msg \in Ims => flushing = NoWorker
     /\ answer' = [answer EXCEPT ![o.msg] = IF to = {} THEN "refused" ELSE "delivered"]
     /\ unstored' = IF to = {} THEN unstored ELSE unstored \cup {o.msg}
     /\ \E full \in SUBSET (to \cap Lagging) :
          users' = [u \in Uids |->
            CASE u \in full -> [users[u] EXCEPT !.sink = "lagged"]
              [] u \in to \ full -> [users[u] EXCEPT !.beside = @ \cup (users[u].got \cap {o.msg})]
              [] OTHER -> users[u]]
     /\ Done(w)
     /\ UNCHANGED <<storeVars, freed, lastUid, serial, flushing, events, reached, dropped,
                    pulled, raced, counted, excused, failed, told, unslipped, early>>

\* push, with flushing taken.  A row that was delivered, or a stub, answers
\* for the message.
SendKnown(w) ==
  LET m == op[w].msg IN
  /\ op[w].pc = "push" /\ flushing = NoWorker
  /\ m \in stubs \cup delivered
  /\ answer' = [answer EXCEPT ![m] = "delivered"]
  /\ Done(w)
  /\ UNCHANGED <<storeVars, sessVars, flushing, events, histVars>>

\* The mailbox is full.
SendFull(w) ==
  LET m == op[w].msg IN
  /\ op[w].pc = "push" /\ flushing = NoWorker
  /\ ~FindGuid(m) /\ Cardinality(Waiting(op[w].box)) >= MaxQueued
  /\ answer' = [answer EXCEPT ![m] = "refused"]
  /\ Done(w)
  /\ UNCHANGED <<storeVars, sessVars, flushing, events, histVars>>

\* A new row, or one that is still waiting: flushing is kept for its flush.
SendPush(w) ==
  LET m == op[w].msg IN
  /\ op[w].pc = "push" /\ flushing = NoWorker
  /\ IF m \in Rows THEN UNCHANGED storeVars
     ELSE /\ m \notin stubs /\ Cardinality(Waiting(op[w].box)) < MaxQueued
          /\ Stored(m, op[w].on)
  /\ m \notin delivered
  /\ flushing' = w
  /\ Now(w, [op[w] EXCEPT !.pc = "resolve", !.fresh = m \notin Rows])
  /\ raced' = IF m \notin Rows /\ \E v \in Workers : op[v].pc = "live" /\ op[v].msg = m
                THEN raced \cup {m} ELSE raced
  /\ UNCHANGED <<sessVars, answer, events, reached, dropped, pulled, unstored, counted,
                 excused, failed, told, unslipped, early>>

\* The store refuses the push.
SendFails(w) ==
  /\ op[w].pc = "push" /\ flushing = NoWorker /\ events < MaxEvents
  /\ events' = events + 1
  /\ answer' = [answer EXCEPT ![op[w].msg] = "refused"]
  /\ Done(w)
  /\ UNCHANGED <<storeVars, sessVars, flushing, histVars>>

(***************************************************************************)
(* Flushes.                                                                *)
(***************************************************************************)
\* flush_inbox, at the end of a login, a resume or a sync; im_drain, at the
\* end of Get Roster, which makes the session a messenger.
FlushStart(w, u) ==
  /\ op[w].pc = "idle" /\ users[u].due
  /\ users' = [users EXCEPT ![u] = [@ EXCEPT !.due = FALSE]]
  /\ Now(w, [Idle EXCEPT !.pc = "lock", !.do = "flush",
                           !.box = users[u].acct, !.by = u])
  /\ UNCHANGED <<storeVars, freed, lastUid, serial, flushing, answer, events, histVars>>

DrainStart(w, u) ==
  /\ op[w].pc = "idle" /\ events < MaxEvents /\ Live(u) /\ users[u].wire = "ng"
  /\ \E m \in Ims : users[u].acct \in Pair(m)
  /\ users' = [users EXCEPT ![u] = [@ EXCEPT !.messenger = TRUE]]
  /\ Now(w, [Idle EXCEPT !.pc = "lock", !.do = "drain",
                           !.box = users[u].acct, !.by = u])
  /\ events' = events + 1
  /\ UNCHANGED <<storeVars, freed, lastUid, serial, flushing, answer, histVars>>

\* flush_reads: a messenger is read private messages, any other session
\* instant ones too.
WhichOf(u) == IF users[u].messenger THEN "mail" ELSE "all"

\* Who is handed rows, and which: an instant message's own messengers if it
\* has any, as im_deliver_held resolves them.
Targets(w) ==
  LET o == op[w]
      attached == AttachedOf(o.box, o.by)
      messengers == {u \in attached : users[u].messenger}
      each == IF o.do = "flush" THEN {u \in {o.by} : Holds(o.box, u)}
              ELSE IF o.msg \in Ims THEN attached
              ELSE NamedSessions(o.box, o.named, o.by)
  IN CASE o.do = "drain" ->
            [u \in Uids |-> IF u = o.by /\ Live(u) THEN "instant" ELSE "none"]
       [] o.do = "send" /\ o.msg \in Ims /\ messengers # {} ->
            [u \in Uids |-> IF u \in messengers THEN "instant" ELSE "none"]
       [] OTHER -> [u \in Uids |-> IF u \in each THEN WhichOf(u) ELSE "none"]

\* flushing is taken, or held since the push, and the targets chosen.
Resolve(w) ==
  /\ op[w].pc = "resolve" \/ (op[w].pc = "lock" /\ flushing = NoWorker)
  /\ flushing' = w
  /\ Now(w, [op[w] EXCEPT !.pc = "read", !.which = Targets(w),
                          !.by = 0, !.named = 0, !.on = 0])
  /\ excused' = IF op[w].do = "send" /\ users[op[w].by].acct = op[w].box
                  THEN excused \cup {op[w].msg} ELSE excused
  /\ UNCHANGED <<storeVars, sessVars, answer, events, seenVars, counted, failed, told,
                 unslipped, early>>

\* Mutant of Arrived: a retry's row is taken for delivered.
ArrivedIfKnown(o, given) == o.msg \in given \/ (o.msg \in Mails /\ ~o.fresh)

\* What a send answers delivered: a row this flush handed over, or one that a
\* retry finds waiting no more.
Arrived(o, given) ==
  \/ o.msg \in given
  \/ o.msg \in Mails /\ ~o.fresh /\ o.msg \notin Waiting(o.box)

\* The end of a call: flushing is let go, and a send is answered.
Answered(w, given) ==
  /\ flushing' = NoWorker
  /\ Done(w)
  /\ answer' = IF op[w].do # "send" THEN answer
               ELSE [answer EXCEPT ![op[w].msg] =
                       IF Arrived(op[w], given) THEN "delivered" ELSE "queued"]

\* pending_of, once for each kind of row some target is read.
Pending(o, k) ==
  IF \A u \in Uids : o.which[u] # k THEN {}
  ELSE CASE k = "all" -> Oldest(Waiting(o.box), Limit, id)
         [] k = "mail" -> Oldest(WaitingMail(o.box), Limit, id)
         [] OTHER -> Oldest(Instant(o.box, o.do = "drain"), Limit, id)

PendingSlips(o) ==
  IF o.do = "drain" /\ o.which # Nobody THEN Oldest(Receipts(o.box), Limit, slip) ELSE {}

Read(w) ==
  LET o == op[w]
      batch == [k \in DOMAIN NoBatch |-> Pending(o, k)]
      slips == PendingSlips(o)
  IN /\ o.pc = "read"
     /\ IF batch = NoBatch /\ slips = {}
          THEN Answered(w, {})
          ELSE /\ Now(w, [op[w] EXCEPT !.pc = "hand", !.batch = batch, !.slips = slips])
               /\ UNCHANGED <<flushing, answer>>
     /\ UNCHANGED <<storeVars, sessVars, events, histVars>>

\* Mutant of ReadFails: the error path keeps flushing.
ReadFailsLocked(w) ==
  /\ op[w].pc = "read" /\ events < MaxEvents
  /\ events' = events + 1
  /\ excused' = excused \cup Waiting(op[w].box)
  /\ Done(w)
  /\ UNCHANGED <<storeVars, sessVars, flushing, answer, seenVars, counted, failed, told,
                 unslipped, early>>

\* A read fails and the flush is over; a drain goes on with its receipts.
ReadFails(w) ==
  /\ op[w].pc = "read" /\ events < MaxEvents
  /\ events' = events + 1
  /\ excused' = excused \cup Waiting(op[w].box)
  /\ IF PendingSlips(op[w]) = {}
       THEN Answered(w, {})
       ELSE /\ Now(w, [op[w] EXCEPT !.pc = "hand", !.slips = PendingSlips(op[w])])
            /\ UNCHANGED <<flushing, answer>>
  /\ UNCHANGED <<storeVars, sessVars, seenVars, counted, failed, told,
                 unslipped, early>>

\* Mutant of StillThere: a session that is live is the one that was chosen.
StillThereIfLive(w, u) == op[w].which[u] # "none" /\ Live(u)

\* A target of a flush must still hold the mailbox; of an instant message, or
\* of a drain, it must only be live.
StillThere(w, u) ==
  CASE op[w].which[u] = "none" -> FALSE
    [] op[w].which[u] = "instant" -> Live(u)
    [] OTHER -> Holds(op[w].box, u)

\* A messenger is left the instant messages that were read for another.
BatchFor(w, u) ==
  LET o == op[w] IN
  IF o.which[u] = "none" THEN {}
  ELSE IF o.which[u] # "instant" /\ users[u].messenger THEN o.batch[o.which[u]] \cap Mails
  ELSE o.batch[o.which[u]]

There(w) == {u \in Uids : StillThere(w, u)}

\* Mutant of Given: what was read is what was handed over.
GivenUnlooked(w) == UNION {BatchFor(w, u) : u \in Uids}

\* The rows for the sessions that are still there.
Given(w) == UNION {BatchFor(w, u) : u \in There(w)}

\* Those some session that does not read on delivery was handed.
Unread(w) == UNION {BatchFor(w, u) : u \in {v \in There(w) : users[v].wire = "ng"}}

\* What a queue may have room for: the first rows of the batch.  One that
\* retention took after the read has no id any more, and may be anywhere.
Prefixes(batch) ==
  {f \in SUBSET batch :
     \A m \in f \cap Rows, k \in (batch \ f) \cap Rows : id[m] < id[k]}

\* send_to, row by row: a full queue drops the rest, and the session lags from
\* there on.
Take(s, batch, fits) ==
  [s EXCEPT !.got = @ \cup fits, !.again = @ \cup (s.got \cap fits),
            !.sink = IF fits = batch THEN @ ELSE "lagged"]

Instantly(w) == \E u \in Uids : op[w].which[u] = "instant"

\* What counts as handed over when the queues took `taken`: all of it, for
\* flush_held and im_drain do not look.  im_deliver_held looks for a live
\* session before each row, and leaves those behind the first that none took.
Tried(w, taken) ==
  IF Instantly(w) /\ op[w].do = "send" /\ taken # Given(w)
    THEN {t \in Prefixes(Given(w)) : taken \subseteq t /\ Cardinality(t \ taken) = 1}
    ELSE {Given(w)}

\* What a call goes on with: what to stamp, and whom a notice is for.
HandedOver(w, given) ==
  [op[w] EXCEPT !.pc = IF Instantly(w) THEN "handed" ELSE "stamp",
     !.which = Nobody, !.batch = NoBatch, !.given = given,
     !.slips = IF There(w) # {} THEN @ ELSE {},
     !.unread = IF Instantly(w) THEN {} ELSE Unread(w),
     !.met = IF Instantly(w) THEN {} ELSE {<<u, users[u].serial>> : u \in There(w)}]

\* The rows are handed over under the roster lock, to the sessions that are
\* still there.
Hand(w) ==
  LET o == op[w]
      there == There(w)
      lost == UNION {BatchFor(w, u) : u \in Uids \ there}
  IN /\ o.pc = "hand"
     /\ \E fits \in [there -> UNION {Prefixes(BatchFor(w, u)) : u \in there}] :
          LET taken == UNION {fits[u] : u \in there} IN
          /\ \A u \in there : fits[u] \in IF u \in Lagging THEN Prefixes(BatchFor(w, u))
                                          ELSE {BatchFor(w, u)}
          /\ users' = [u \in Uids |->
                         IF u \in there THEN Take(users[u], BatchFor(w, u), fits[u])
                         ELSE users[u]]
          /\ reached' = reached \cup taken
          /\ \E given \in Tried(w, taken) :
               /\ dropped' = dropped \cup
                    {m \in given \ taken : \E u \in there : m \in BatchFor(w, u)}
               /\ Now(w, HandedOver(w, given))
     /\ excused' = excused \cup lost \cup (IF there = {} THEN Waiting(o.box) ELSE {})
     /\ told' = [m \in Msgs |->
                   IF there # {} /\ m \in o.slips THEN told[m] + 1 ELSE told[m]]
     /\ UNCHANGED <<storeVars, freed, lastUid, serial, flushing, answer, events, pulled,
                    unstored, raced, counted, failed, unslipped, early>>

\* mark_delivered, with what only period clients were handed read as well.
Stamp(w) ==
  LET o == op[w] IN
  /\ o.pc = "stamp"
  /\ MarkDelivered(o.given, o.given \ o.unread)
  /\ Now(w, [op[w] EXCEPT !.pc = "notice", !.unread = {}])
  /\ UNCHANGED <<sessVars, flushing, answer, events, histVars>>

\* mark_handed, after which a drain marks the receipts it told.
StampHanded(w) ==
  LET o == op[w] IN
  /\ o.pc = "handed"
  /\ MarkHanded(o.given)
  /\ IF o.slips = {} THEN Answered(w, o.given)
     ELSE Now(w, [op[w] EXCEPT !.pc = "slips"]) /\ UNCHANGED <<flushing, answer>>
  /\ UNCHANGED <<sessVars, events, histVars>>

StampSlips(w) ==
  /\ op[w].pc = "slips"
  /\ SlipsDelivered(op[w].slips)
  /\ Answered(w, op[w].given)
  /\ UNCHANGED <<sessVars, events, histVars>>

\* Those read on delivery and the others are marked by two calls, of which
\* either may fail.
StampFails(w) ==
  LET o == op[w] IN
  /\ o.pc = "stamp" /\ events < MaxEvents
  /\ events' = events + 1
  /\ \E lost \in {o.given, o.given \cap o.unread, o.given \ o.unread} \ {{}} :
       /\ MarkDelivered(o.given \ lost, (o.given \ o.unread) \ lost)
       /\ failed' = failed \cup lost
  /\ Now(w, [op[w] EXCEPT !.pc = "notice", !.unread = {}])
  /\ UNCHANGED <<sessVars, flushing, answer, seenVars, counted, excused, told, unslipped, early>>

HandedFails(w) ==
  LET o == op[w] IN
  /\ o.pc \in {"handed", "slips"} /\ events < MaxEvents
  /\ events' = events + 1
  /\ failed' = failed \cup (IF o.pc = "slips" THEN o.slips ELSE o.given)
  /\ IF o.pc = "handed" /\ o.slips # {}
       THEN Now(w, [op[w] EXCEPT !.pc = "slips"]) /\ UNCHANGED <<flushing, answer>>
       ELSE Answered(w, o.given)
  /\ UNCHANGED <<storeVars, sessVars, seenVars, counted, excused, told, unslipped,
                 early>>

\* A flush tells the sessions it reached how many rows are left, if the uid
\* is still theirs.  Then the call is over.
Notice(w) ==
  LET o == op[w]
      left(u) == IF users[u].messenger THEN WaitingMail(o.box) ELSE Waiting(o.box)
      met == {u \in Uids : Holds(o.box, u) /\ <<u, users[u].serial>> \in o.met}
  IN /\ o.pc = "notice"
     /\ counted' = counted \cup UNION {left(u) : u \in met}
     /\ excused' = IF met = {} THEN excused \cup Waiting(o.box) ELSE excused
     /\ Answered(w, o.given)
     /\ UNCHANGED <<storeVars, sessVars, events, seenVars, failed, told, unslipped, early>>

\* The counts cannot be read: no notice.
NoticeFails(w) ==
  /\ op[w].pc = "notice" /\ events < MaxEvents
  /\ events' = events + 1
  /\ excused' = excused \cup Waiting(op[w].box)
  /\ Answered(w, op[w].given)
  /\ UNCHANGED <<storeVars, sessVars, seenVars, counted, failed, told,
                 unslipped, early>>

(***************************************************************************)
(* Acknowledgements, which do not take flushing.                           *)
(***************************************************************************)
\* im_ack of a row sent on the friendship that is live, which this session was
\* handed or found in its list.  The call keeps the row's id, in `on`.
AckStart(w, u, m, reads) ==
  /\ op[w].pc = "idle" /\ events < MaxEvents /\ Holds(To[m], u) /\ users[u].wire = "ng"
  /\ m \in Ims \cap Rows
  /\ rel[Pair(m)] # 0 /\ on[m] = rel[Pair(m)]
  /\ users' = [users EXCEPT ![u] = [@ EXCEPT !.messenger = TRUE]]
  /\ pulled' = pulled \cup ({m} \ users[u].got)
  /\ Now(w, [Idle EXCEPT !.pc = "mark", !.do = "ack", !.msg = m,
                           !.box = To[m], !.by = u, !.on = id[m], !.reads = reads])
  /\ events' = events + 1
  /\ UNCHANGED <<storeVars, freed, lastUid, serial, flushing, answer, reached, dropped,
                 unstored, raced, counted, excused, failed, told, unslipped, early>>

\* The row an acknowledgement found, if retention has left it.
Acked(o) == {m \in {o.msg} : id[m] = o.on}

AckMark(w) ==
  LET o == op[w] IN
  /\ o.pc = "mark"
  /\ MarkDelivered(Acked(o), IF o.reads THEN Acked(o) ELSE {})
  /\ Now(w, [op[w] EXCEPT !.pc = IF o.reads THEN "told" ELSE "tell"])
  /\ UNCHANGED <<sessVars, flushing, answer, events, histVars>>

\* A read is told once, however often it is acknowledged.
AckTold(w) ==
  LET m == op[w].msg IN
  /\ op[w].pc = "told"
  /\ IF ToldFirst(m) /\ m \in Acked(op[w])
       THEN ReceiptTold(m) /\ Now(w, [op[w] EXCEPT !.pc = "tell"])
       ELSE Done(w) /\ UNCHANGED storeVars
  /\ UNCHANGED <<sessVars, flushing, answer, events, histVars>>

\* Mutant of AckTell: a read nobody is there to hear of is not kept.
AckTellOnly(w) ==
  LET o == op[w] IN
  /\ o.pc = "tell"
  /\ told' = IF o.reads /\ Messengers(From[o.msg]) # {}
               THEN [told EXCEPT ![o.msg] = @ + 1] ELSE told
  /\ Done(w)
  /\ UNCHANGED <<storeVars, sessVars, flushing, answer, events, seenVars, counted,
                 excused, failed, unslipped, early>>

\* The sender's messengers are told; with none there a read receipt waits.
AckTell(w) ==
  LET o == op[w]  there == Messengers(From[o.msg]) IN
  /\ o.pc = "tell"
  /\ told' = IF o.reads /\ there # {} THEN [told EXCEPT ![o.msg] = @ + 1] ELSE told
  /\ IF o.reads /\ there = {} THEN Now(w, [op[w] EXCEPT !.pc = "slip"]) ELSE Done(w)
  /\ UNCHANGED <<storeVars, sessVars, flushing, answer, events, seenVars, counted,
                 excused, failed, unslipped, early>>

AckSlip(w) ==
  /\ op[w].pc = "slip"
  /\ StoredSlip(op[w].msg)
  /\ Done(w)
  /\ UNCHANGED <<sessVars, flushing, answer, events, histVars>>

\* The store fails, and the call with it.
AckFails(w) ==
  /\ op[w].pc \in {"mark", "told", "slip"} /\ events < MaxEvents
  /\ events' = events + 1
  /\ unslipped' = IF op[w].pc = "slip" THEN unslipped \cup {op[w].msg} ELSE unslipped
  /\ Done(w)
  /\ UNCHANGED <<storeVars, sessVars, flushing, answer, seenVars, counted, excused,
                 failed, told, early>>

(***************************************************************************)
(* The rest of the store's clients, and restarts.                          *)
(***************************************************************************)
\* inbox_mark_read, of what the client listed.
InboxMarkRead(u, m) ==
  /\ events < MaxEvents /\ events' = events + 1
  /\ Live(u) /\ users[u].wire = "ng"
  /\ m \in Rows /\ To[m] = users[u].acct /\ LiveRow(m) /\ m \notin read
  /\ MarkRead(users[u].acct, m)
  /\ pulled' = pulled \cup UpTo(users[u].acct, m)
  /\ UNCHANGED <<sessVars, flushing, op, answer, reached, dropped, unstored, raced,
                 counted, excused, failed, told, unslipped, early>>

\* The pruning task, which takes no part in flushing.
Prune(m) ==
  /\ events < MaxEvents /\ events' = events + 1
  /\ \/ (PruneRead(m) \/ PruneSent(m)) /\ UNCHANGED unslipped
     \/ PruneSlip(m) /\ unslipped' = unslipped \cup {m}
  /\ UNCHANGED <<sessVars, callVars, seenVars, counted, excused, failed, told, early>>

DayPasses ==
  /\ events < MaxEvents /\ events' = events + 1
  /\ Age
  /\ UNCHANGED <<sessVars, flushing, op, answer, histVars>>

Friends(p) ==
  /\ events < MaxEvents /\ events' = events + 1
  /\ Befriend(p) \/ Unfriend(p)
  /\ UNCHANGED <<sessVars, flushing, op, answer, histVars>>

\* The server stops and is started again: the store is what is left.
Restart ==
  /\ events < MaxEvents
  /\ events' = events + 1
  /\ users' = [u \in Uids |-> NoUser] /\ freed' = <<>> /\ lastUid' = 0
  /\ flushing' = NoWorker /\ op' = [w \in Workers |-> Idle]
  /\ unslipped' = unslipped \cup {m \in Msgs : \E w \in Workers :
                    op[w].pc \in {"tell", "slip"} /\ op[w].msg = m}
  /\ failed' = failed \cup UNION {op[w].given \cup op[w].slips : w \in Workers}
  /\ UNCHANGED <<storeVars, serial, answer, seenVars, counted, excused, told, early>>

Session ==
  \E u \in Uids :
    \/ \E a \in Accounts : \E k \in Wire[a] : Login(u, a, k)
    \/ Detach(u) \/ Resume(u) \/ EndSession(u)

Flush(w) ==
  \/ Resolve(w) \/ Read(w) \/ ReadFails(w) \/ Hand(w)
  \/ Stamp(w) \/ StampFails(w) \/ StampHanded(w) \/ StampSlips(w) \/ HandedFails(w)
  \/ Notice(w) \/ NoticeFails(w)
  \/ \E u \in Uids : FlushStart(w, u) \/ DrainStart(w, u)

Send(w) ==
  \/ \E u \in Uids, m \in Msgs, named \in Uids \cup {0} : SendStart(w, u, m, named)
  \/ SendLive(w) \/ SendKnown(w) \/ SendFull(w) \/ SendPush(w) \/ SendFails(w)

Ack(w) ==
  \/ \E u \in Uids, m \in Ims, reads \in BOOLEAN : AckStart(w, u, m, reads)
  \/ AckMark(w) \/ AckTold(w) \/ AckTell(w) \/ AckSlip(w) \/ AckFails(w)

Next ==
  \/ Session \/ QuarantineEnds \/ Restart \/ DayPasses
  \/ \E w \in Workers : Send(w) \/ Flush(w) \/ Ack(w)
  \/ \E u \in Uids, m \in Msgs : InboxMarkRead(u, m)
  \/ \E m \in Msgs : Prune(m)
  \/ \E p \in Pairs : Friends(p)

Spec == Init /\ [][Next]_vars

(***************************************************************************)
(* Properties.                                                             *)
(***************************************************************************)
PCs == {"idle", "live", "push", "lock", "resolve", "read", "hand", "stamp", "handed",
        "slips", "notice", "mark", "told", "tell", "slip"}

\* Every variable has its type, and only the holder of flushing is inside a
\* flush: the roster's uids, the store's rows and what each call remembers.
TypeOK ==
  /\ StoreTypeOK
  /\ flushing \in Workers \cup {NoWorker}
  /\ \A u \in Uids : /\ users[u].acct \in Accounts \cup {NoAccount}
                     /\ users[u].got \cup users[u].again \subseteq Msgs
  /\ \A w \in Workers :
       /\ op[w].pc \in PCs
       /\ op[w].pc \in {"resolve", "read", "hand", "stamp", "handed", "slips", "notice"}
            <=> flushing = w
       /\ op[w].given \cup op[w].slips \subseteq Msgs

\* Mail reaches no one else's session, however a uid is reissued between the
\* moment a flush chose its targets and the moment it hands rows over
\* (flush_held).  An instant message is looked at again for liveness alone
\* (im_deliver_held, im_drain): the uid quarantine is what keeps it its owner's.
RightMailbox ==
  \A u \in Uids : \A m \in users[u].got :
    To[m] = users[u].acct \/ (m \in Ims /\ early)

\* No session is handed a stored private message twice, however sends,
\* retries, logins and resumes race: not as a row, unless the stamp that
\* follows the handover failed (what `flushing` is for), and not as a row and
\* then live past the quota, unless the live send was looking when the row
\* was stored (send_quota_spent, retry).  Once retention has forgotten the
\* guid, what is sent under it is another message.
HandedOnce ==
  \A u \in Uids : /\ users[u].again \cap Mails \subseteq failed \cup closed
                  /\ users[u].beside \cap Mails \subseteq raced \cup closed

\* A row stamped delivered or handed over was put on a live connection's
\* queue, or its reader's client found it in its list; or every queue it was
\* put on was full at that moment (flush_held does not look at what send_to
\* did).
DeliveredWasHanded ==
  delivered \cup handed \subseteq reached \cup dropped \cup pulled

\* What docs/private-messages.md says of delivered_at: the row was handed to a
\* live connection, or its reader's client found it in its list.
StampedWhenHanded ==
  delivered \subseteq reached \cup pulled

\* A sender told that its message was delivered was not told so of one that
\* waits unseen: the answer is backed by a handover, a drop by full queues, or
\* its reader's own client.  A row that retention takes in the middle of a
\* retry is excepted (is_pending).
AnsweredTruly ==
  \A m \in Msgs \ closed :
    answer[m] = "delivered" => m \in reached \cup dropped \cup pulled \cup unstored

\* Store, then resolve: a private message never waits in silence beside an
\* attached session whose own flush is done.  Somebody was handed it or told
\* of it, a flush that will is under way, or a fault, a target that left in
\* mid-flush or a reissued sender's uid kept it back.
Settled(u, a) == Holds(a, u) /\ ~users[u].due
Coming(m) ==
  \E w \in Workers : \/ flushing = w /\ op[w].msg = m
                     \/ op[w].do = "flush" /\ op[w].box = To[m]
NoSilentWait ==
  \A m \in Mails \ (reached \cup dropped \cup counted \cup excused) :
    (m \in Waiting(To[m]) /\ \E u \in Uids : Settled(u, To[m])) => Coming(m)

\* A read is told at most once, however many devices acknowledge it at once
\* and whether its sender is there or its receipt waits (im_ack, im_drain):
\* unless the stamp of a drain that told it failed, after which the next drain
\* tells it again, or retention forgot the message and it was sent anew.
Marking(m) ==
  \E w \in Workers : op[w].pc \in {"handed", "slips"} /\ m \in op[w].slips
ReceiptOnce ==
  \A m \in Msgs \ (failed \cup closed) :
    told[m] + (IF slip[m] # 0 /\ ~Marking(m) THEN 1 ELSE 0) <= 1

\* A read noted as told is told, waits to be, or is being told, unless the
\* store failed or the server stopped in between, or retention took it.
ReceiptKept ==
  \A m \in receipted \ (unslipped \cup failed) :
    \/ told[m] > 0 \/ slip[m] # 0
    \/ \E w \in Workers : op[w].msg = m /\ op[w].pc \in {"tell", "slip"}

\* A session is first handed private messages in the order they were stored:
\* a flush never hands over a row older than one the session already has.
Incarnation(u) == users[u].serial
InOrder ==
  [][\A u \in Uids :
       Incarnation(u)' = Incarnation(u) =>
         \A m \in ((users'[u].got \ users[u].got) \cap Mails \cap Rows) \ closed :
           \A k \in (users[u].got \cap Mails \cap Rows) \ closed : id[k] < id[m]]_vars

=============================================================================
