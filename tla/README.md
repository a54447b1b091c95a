# hxd-ng: a TLA+ model of sessions, chat, mail and admission

hxd-ng is a Hotline server. People connect over the classic wire protocol or
over hotline-ng, JSON frames on a WebSocket (`docs/hotline-ng.md`). This
project models the parts of it that are hardest to test: sessions that outlive
their connections and the numbered event streams they carry, the public chat's
group commit, private and instant messages that wait for their readers, and the
counters that admit connections, logins and queued bytes.

Source paths below are relative to `src/crates/`.

## The system's parts

| Part | Code | State | Operations | What is hard |
|---|---|---|---|---|
| Roster and outboxes | `hxd-core/src/roster.rs`, `sealed.rs` | sessions, each with an outbox (next seq; a sink: a live queue, lagged, or a replay buffer) | attach, announce, push, broadcast, lose, resume, sweep, end | two connections of one session at once; full queues; buffers that overflow |
| ng connection task | `hxd-ng-session/src/conn.rs` | one task per WebSocket: event receiver, events held, login and resume state | login, resume, sync, relay events, logout, exits | every await lets another task act; every write may fail; panics |
| Session tokens, sweeper | `hxd-ng-session/src/registry.rs`, `lib.rs` | tokens to (uid, serial) | issue, validate, prune; a sweep every 15 s | a token for a session that ended, or whose uid was reused |
| Kicks, bans, revocations | `hxd-core/src/chat.rs` (kick), `ban.rs`, `revoked.rs` | ban list, revocation list | kick, end what a ban refuses, set a list and end the revoked | races with logins, resumes and lost connections |
| Public chat | `hxd-core/src/chat.rs` | a queue of lines with a leader, the room's serial lock, a memory of guids | stage, submit, lead, commit, relay, answer | several threads; a panic in the leader; retries under a guid |
| Chat log | `hxd-store-sqlite/src/lib.rs` | lines with ids, a guid index, an index of signed lines | append a batch, find by guid, tombstone | a crash after a commit, store errors |
| Moderation | `hxd-core/src/moderation.rs` | none of its own | redact a line, purge a sender | chooses its lines outside the serial |
| Uids | `roster.rs` | uids in use, freed uids in quarantine, the last one given | next_uid, hold, release | a uid reused while a call in flight names it |
| Messages and inbox | `chat.rs` (deliver, flush), `messaging.rs`, `messaging/im.rs`, `inbox.rs`, `hxd-store-sqlite` | rows with stamps (delivered, read, handed over, receipt told), stubs, friendships; the `flushing` mutex | send, retry, flush at login and resume, drain, acknowledge, mark read, prune | the store is asked between two holds of the roster lock; targets that leave, lag or are somebody else by then; failed stamps |
| Gates | `limits.rs`, `hxd-ng-session/src/http.rs` | connections by address, /48, account and on the ng port; login tokens | admit, move to the account, release; take, refund | one place passed between three counts under two locks; a resume's slack; guesses judged in parallel |
| Queue budget | `budget.rs`, `hxd-session/src/session.rs` | bytes queued in all and by queue, the number of queues | take, give, drop | three atomics stepped by every thread |
| Rooms, history, reactions, media, avatars, news, push, voice, video | `hxd-core` | store tables, seats, blobs | requests under one lock, or I/O | mostly sequential |
| Classic sessions, files, links, registrar, identity, HTTP, daemon | the other crates | | | wire formats, I/O, cryptography |

Connection tasks and worker threads call into `hxd-core`. All sessions and
outboxes are under one roster lock; the lock is never held across an await, so
a model step is one critical section, or one write to a socket. A task learns
what happened to its session only through its event channel: an event, the
channel's end (another connection took the session over, or it ended), or the
lag flag. Chat threads meet in a room's `ChatCommit` state, and its serial lock
orders commits against redactions. Whoever hands stored messages over holds
`flushing` from the row's push, or the flush's start, to its last stamp, and
takes the roster lock twice within it, to choose and to hand over; an
acknowledgement takes no such lock.

`PROJECT.json` lists every part with its status, every hazard at its line and
the properties that cover it, and for each definition the lines it models.

## The modules

| Module | Models | Composed of |
|---|---|---|
| `Roster` | the roster's critical sections | |
| `NgConn` | the connection task, kicks, bans, revocations, the sweeper | extends `Roster` |
| `EventStream` | abstract: what a client is promised of its events | |
| `NgSession` | the whole ng service with its clients; properties; fairness | extends `NgConn`, instantiates `EventStream` |
| `NgSessionInv` | the inductive invariant | extends `NgSession` |
| `ChatCommit` | staging, group commit, guids, redaction and purge, for one room with a log | |
| `MessageStore` | the message table: what each kind of flush reads, and every write | |
| `Inbox` | sends, flushes, drains, acknowledgements, uids; faults and restarts | extends `MessageStore` |
| `ConnGate` | `ConnGate` and the login `RateGate`s | |
| `QueueBudget` | `Share::take`, `give` and drop, an atomic at a time | |
| `Admission` | a connection from accept to close, the roster's queues, the classic backlog | extends `ConnGate`, `QueueBudget` |
| `NgSession_proofs`, `Stream_proofs` | lemmas about the roster's sections and who holds a session; the event stream | the second extends the first |
| `ChatCommit_proofs`, `ChatLog_proofs` | who leads a commit; the log, what is heard and answered | the second extends the first |
| `Inbox_proofs`, `Delivery_proofs` | mailboxes, handovers and stamps; receipts, waiting and order | the second extends the first |
| `Admission_proofs`, `Budget_proofs` | places, caps and guesses; the budget's counters and bounds, types | the second extends the first |
| `MCNgSession`, `MCChatCommit`, `MCInbox`, `MCAdmission` | instances for TLC | |

### Roster

`sess[s]` is a `UserSession` with its `Outbox`; `chan[c]` is a connection's
`Events` with its `ConnState`. An event is its seq. `Deliver(S, C, N, over)` is
the one place events are pushed: the sessions have become `S`, the channels `C`,
and each session is pushed `N[s]` events one after the other, as `Outbox::push`
does (queue it; or lag when the queue is full; or buffer it; or break the
buffer). Every critical section, from `Announce` to `KickAll`, is a change
followed by such a delivery, because a part, a join or a status change is an
event to everyone else. A session that ends, and the `Parted` events that makes,
happen within the section that ended it.

The byte budgets are the set `over`, chosen freely at every step: for those
sessions a queue takes one event and refuses what comes behind it, which is
what `LIVE_QUEUE_BYTES` and the server-wide budget do when they bind. Time is
left open: `clock` only orders detachments, and a sweep may find any prefix of
them old enough.

### NgConn and NgSession

A task is its place in the code and the locals that survive an await: events
taken and not yet written (`out`), where the stream has got to (`sent`, a
history of what was written), the resume's reply and the sync's `mark` and
`kick`. `NgSession` adds the clients: each reads the newest connection it
opened, and resumes from the highest seq it received. Frames already written
may be lost with their connection.

Tokens are not modelled as values: a client that has read the login's reply has
one, and it names its session for good, as uid and serial do.

### ChatCommit

A thread is its place in `chat_public_lines`, `submit_all`, `lead` and
`chat_commit_batch`. Staging asks three things in turn, each under its own
lock: the log's index of signed lines, the room's memory of guids, the log's
index of guids. What a line says is left out except for what a signature
covers. An id is a place in the log. A line of a batch is the first under its
guid if no earlier line of it that is still to be logged has that guid: one
whose session is gone is settled before and repeats nothing, so a second session
of the same person has its line logged. A signed index that cannot be read
refuses the line (`SignedFails`); a logged line that cannot be read is taken for
an unsigned one (`LineUnread`).

`Restart` keeps the log and forgets the rest; people whose guids the log keeps
log in again. A panic poisons the serial, and every commit after it panics in
its turn, as `lock().unwrap()` does.

### MessageStore and Inbox

A message is a model value with one sender and one recipient, so "the row of m"
is what its guid finds; sending m again is a retry. A row is its id (0 for
none), its stamps and the friendship it was sent on; `ORDER BY id LIMIT n` is
`Oldest`. Mailboxes are accounts, compared as a whole.

A worker is a call: its place in `deliver`, `flush_held`, `im_store`,
`im_deliver_held`, `im_drain` or `im_ack` and the locals that survive a lock.
`Resolve` chooses targets under the roster lock, `Read` asks the store, `Hand`
looks at the targets again and pushes, `Stamp*` write, `Notice` counts what is
left. `Hand` lets a queue have room for any first part of the rows in the uids
`Lagging` names: the rest are dropped and the session lags. A flush counts them
as handed over all the same; a send of an instant message looks for a live
session before each row and leaves those behind the first that none took
(`Tried`). What is read on delivery and what is not are marked by two calls to
the store, and `StampFails` lets either or both fail.

Uids are given as `next_uid` gives them: in turn, not while quarantined, and
with none left the one freed first (`early`). The quarantine is longer than any
call (five minutes), so it does not end for a uid a call still names; reuse by
`early` is under no such bound.

The quota counts the rows of the last day (`today`, which `DayPasses` empties).
Past it a message goes live, with no row (`SendLive`): the quota, the lookup of
the guid and the handover are three moments, so a retry may go out live beside
the stored copy. Retention takes no lock of the inbox: `Prune` may take a row
between any two steps of a call that has it. A guid that retention forgot is
`closed`, and what is sent under it afterwards is stored as another message.

Ghost variables: `reached` (rows a live session's queue took), `dropped` (rows
every queue they were put on was too full for), `counted` (rows only counted in
an "n more" notice), `pulled` (rows a client read or acknowledged from its
list), `unstored` (messages sent live past the quota), `raced` (messages whose
row was stored while another send of them was about to go out live), `excused`
(rows some fault, or a target that left in mid-flush, kept back), `failed` (rows
and receipts whose stamp failed), `told` and `unslipped` (receipts told, and
receipts a fault or retention took). Of each session, `got` and `again` are the
rows it was handed, and handed again, and `beside` those it had when a live copy
came.

### ConnGate, QueueBudget and Admission

A connection is its place in the code and what it holds: a place in its
address's count or its account's, one on the ng port, a share of the budget.
Its permit is one thing passed on: `Upgrade` takes it, `Gate` moves it,
`Uncarry` gives up the port's place, `DropPlace` and `DropPort` end it in the
order the permit and the socket are dropped. `ResumeStart` reads the session
under the roster lock and `AdmitResume` asks the gate after it, as
`admit_resume` does. The account's and the address's pace is a refusal that may
always happen. A refused login, an unidentified upgrade and a client that hangs
up leave at every place they can. Any login may be tried with a password, one
that names no account too, and spends a token of its name and of its address; an
empty password and an identity spend none.

`QueueBudget` steps each `fetch_add` and `fetch_sub` of a take, a refusal, a
give and a drop for each of the threads: the roster's pusher (`Hub`, which holds
the roster lock while it is not idle, and gives back what sealed messages held
for a session that can no longer open them weighed, `LoseSealed`), each
connection, the classic writer and
those who enqueue for it. What a queue holds, and what a batch of the writer
weighs, is a sum of weights; `Total` states it as the number of units in it,
which is what the proofs can count, and `TotalIsSum` has TLC compare it with a
fold on every short sequence.

## The runs

| Run | Instance | Properties | Outcome |
|---|---|---|---|
| `session_stream` | 1 session, 3 connections, caps of 2, 2 published events, syncs on every connection | `TypeOK`, `StreamSpec`, `NeverTwice` | holds, 1.5 M states |
| `session_ends` | 1 session, 2 connections, kick, ban, revocation, logout, a panic | `NoOrphan`, `KickedNeverDetached`, `KickedEnds`, `RevokedEnds`, `DetachedEnds`, `ReplacedCloses` | holds, 54 k states |
| `session_pair` | 2 sessions of one address, 3 connections, caps of 1, a cap of 1 on detached sessions | `IInv`, `DetachedCap` | holds, 302 k states |
| `session_takeover` | 1 session, 3 connections | `OnlyHolderDetaches` | violated |
| `chat_once` | 2 threads, 4 lines, batches of 2; a person's signed line sent on both threads and on two sessions, and a guest's line sent twice, in one call or in two, each under one guid; a fault, a redaction, a purge, one of the person's sessions leaving, expiring guids | `TypeOK`, `OneLeader`, `CallReturns`, `HeardInOrder`, `HeardOnce`, `AnsweredTruly` | holds, 636 k states |
| `chat_purge` | 3 threads, 4 lines of one session, one call of two, a purge of its person, who may leave | `PurgeMissesNothing` | violated |
| `chat_signed` | 2 threads, two signed lines under one guid, a memory of one guid | `SignedAsLogged` | violated |
| `chat_refused` | as `chat_once`, without faults | `RefusedRightly` | violated |
| `inbox_mail` | 2 private messages of one sender to one person, 2 workers, 2 uids of which one may lag, batches of 1, mailboxes of 2, a quota of 1, a reader on either wire, 3 logins, 3 calls or faults | `TypeOK`, `RightMailbox`, `HandedOnce`, `DeliveredWasHanded`, `AnsweredTruly`, `NoSilentWait`, `InOrder` | holds, 4.2 M states |
| `inbox_instant` | a private and an instant message, 2 workers, 2 uids, 2 friendships, a quota of 1, 2 logins, 4 calls or faults | `DeliveredWasHanded`, `ReceiptOnce`, `ReceiptKept` | holds, 2.9 M states |
| `inbox_full_queue` | as `inbox_mail`, a reader on one wire, a quota of 2, 2 logins | `StampedWhenHanded` | violated |
| `admission` | 1 address, a person and a guest, 3 connections, 2 sessions, 2 tasks that enqueue, an account cap of 1, bursts of 1, a budget of 2 and queues of 3 with items of 1 and 2 | `TypeOK`, `PlacesCounted`, `AccountCap`, `GuessBound`, `BudgetCounted`, `QueueBounded` | holds, 1.7 M states |

What they show:

- `StreamSpec`: the tasks and the roster together implement `EventStream`. A
  client that was not told to resync received every event once and in order,
  whatever was lost, replayed, taken over or dropped; and it is told to resync
  only when it does lack an event. `NeverTwice` adds that no event is sent at or
  below what the client already had, a sync's reply included.
- `NoOrphan`, `KickedNeverDetached`: no exit of a task, and no panic, leaves a
  session attended by nobody; a kicked one is never kept for a resume.
- `KickedEnds`, `RevokedEnds`, `DetachedEnds`, `ReplacedCloses`: each way of
  ending a session or a connection takes effect in the end.
- `IInv` is the inductive invariant behind the stream, on the instance where
  two sessions' joins and parts fill each other's queues and buffers.
- `OneLeader`: one thread leads while anything is queued, and its own line is
  in its batch. `CallReturns`: every call returns with all its lines answered.
- `HeardInOrder`, `HeardOnce`, `AnsweredTruly`: readers hear lines in the log's
  order and never after their redaction; a line sent again under its guid is
  heard once; an id in an answer is the id of that line or of the one it
  repeats, and a refused line is not in the log. An answer `panicked` says
  nothing: the commit may have been logged and relayed before it panicked.
- `RightMailbox`: a uid reissued while a flush has chosen it and not yet handed
  over takes nobody else's mail. An instant message relies on the quarantine
  alone, and the property says so: it excepts early reuse.
- `HandedOnce`, `InOrder`: under any race of sends, retries, logins and resumes
  a session is handed each private message once and in the order stored, except
  again after a stamp that failed; and it is handed no live copy beside the
  stored one, unless the row was stored while that copy was about to go out.
- `DeliveredWasHanded`: no row is stamped for a session that was gone by the
  handover: each was put on a live queue, dropped by full ones, or found by the
  reader's client in its list. Being counted in a notice is not enough.
  `inbox_instant` checks it without lag, where nothing is dropped.
- `NoSilentWait`: store first, then resolve, is enough. A message never waits
  beside an attached session whose own flush is done without a flush on its way
  or a notice given, unless a fault or a target that left kept it back.
- `AnsweredTruly` (of `Inbox`): "delivered" is backed by a handover, live or of
  the row, by a drop at a full queue, or by the reader's own mark, unless
  retention took the row.
- `ReceiptOnce`, `ReceiptKept`: however many devices acknowledge, a read is told
  once, unless the stamp of the drain that told it failed; and it is told, or kept
  for a sender who is away, unless the store fails between the two.
- `PlacesCounted`: every gate's count is the number of connections that hold
  such a place, at every step: none is lost and none given back twice, which
  `saturating_sub` would quietly take from somebody else. `AccountCap`: racing
  resumes bring an account at most one connection past its cap, and its attached
  sessions never outnumber its places. `GuessBound`: parallel guesses do not
  outrun the tokens. `BudgetCounted`: the budget's three counters agree with the
  queues whatever interleaves, so nothing is leaked by a refusal, a drop or a
  queue that ends with events in it. `QueueBounded`: two tasks that enqueue on
  one connection while its writer gives a batch back never fill the queue past
  its own bound, though each compares a sum that does not say what is queued.

### Bounds, and why they are enough

A connection is used once, so three allow two resumes, a takeover during a
handshake and a takeover of the taker. Caps of one and two reach every way of
being full: a first event, a last one that fits, the one that does not, and a
delivery of two of which one fits. Events in `session_pair` are those the two
sessions cause each other by joining, parting and changing status (`MaxSeq = 0`
publishes none besides). A kick happens once per session and a client does not
sync again before it has read the last answer. `MaxSeq` bounds only `Publish`.

In chat, lines are sent once each; a retry is another line with the same guid.
Two threads, one of which may send two lines in a call, let one lead while the
other waits with a line in the batch and a line behind it; batches of two leave
that line queued at a handover. That one leader is enough for more threads is a
theorem. `MaxFaults` bounds store errors, panics
and restarts together: one, at any point of any thread.

In the inbox, two uids make reuse, early reuse and a second device happen;
`Limit` 1 makes every flush leave something behind when two rows wait; a mailbox
and a quota no larger than the messages are full and spent; with a quota of one
the second message of a pair, and the retry of the first, meet it. `MaxEvents`
bounds client calls, faults, prunes, days and friendships together, `MaxLogins` the logins.
In `admission`, `Plans` says how a behaviour spends its steps: many connections
and nothing queued, fewer with a token refilled or an item queued, or one with
three items; every combination of limits that meet is in one of the plans. A
buffer's own bound is `usize::MAX`, a number no plan reaches.

`SYMMETRY` is over connections, sessions, workers or messages where they are
alike, in runs without liveness properties.
Deadlock is not checked: a run ends when its connections are used up or its
lines are sent, as the server does when nobody is left.

### Fairness

Weak fairness of each connection task's own steps: tasks are scheduled by the
runtime, and no write lasts longer than `PONG_DEADLINE`, after which the task
goes on to its exit. Weak fairness of the sweeper, which wakes every 15 s, and
of `EndRevoked`, which follows a new list in the same function. Clients, the
network, moderators and faults are under no fairness. In chat, weak fairness of
each thread: threads are the runtime's, and the only lock held across a wait is
the serial, across the log's commit. Liveness is checked by TLC only.

## What is proved

By TLAPS, for every value of the constants that satisfies the named
assumptions (`CapsAssumption`, `SessionsAssumption`, `NgConnAssumption`,
`ChatCommitAssumption`, `MessageStoreAssumption`, `InboxAssumption`,
`ConnGateAssumption`, `BudgetAssumption`, `AdmissionAssumption`: caps are
positive, sets are finite where they are counted, functions have their domains,
threads and shares of different kinds are different, a classic connection has
one writer, and names that stand for nobody are nobody's):

- `CoreInvariant`, `TypeCorrect`, `NoOrphanEver`, `BufferComplete`
  (`NgSession_proofs`). `NoOrphan` alone is not inductive: whether a task may
  leave depends on whether it is the one in the sink. `CoreInv` adds that a
  sink's connection is a channel of that very session, that its receiver is
  there exactly while the task has not panicked, that a lagged sink has told
  its connection, and that a buffer holds everything since its session detached
  or is marked broken. A delivery pushes any number of events to any number of
  sessions, so the module first shows, once, that `Deliver` keeps these
  facts for any sessions and channels it is given; each action is then a change
  and a citation of that lemma.
- `StreamInvariant` and from it `StreamImplemented` (`Spec => StreamSpec`, the
  refinement of `EventStream`), `NothingTwice`, `KickedNeverKept` and
  `DetachedCapped` (`Stream_proofs`), for any sessions, connections and caps.
  The promise to a client is about the last link of a chain, and `IInv` follows
  the chain: `ChannelInv` (what a queue holds continues what its task holds,
  which continues what it has written, up to the session's last event while the
  sink is live), `PeerInv` (who reads which connection, and what a task has done
  at each place of its handshake), `WireInv` (frames follow each other; one that
  ends a handshake stands alone and a resync comes first), `ClientInv` (the
  client has got to where its first unread frame, or the task, takes over; one
  that is being told to resync does lack an event), `SyncInv` (a sync's seq lies
  between what is written and what is queued), `FreshInv` and `SinceInv`. `Reach`
  is the last seq that can have left an outbox: a lagged sink and a broken buffer
  have lost at least the newest event, which is why a resync is never told in
  vain. The proof is in two halves. A section of the roster may deliver to
  anyone, so what it does to a session and to a connection that has no part in
  it is said once (`Grows`, `Bystands`) and shown for every section; then each
  action is taken through its own connection. A step of the detailed
  specification is then a `Push`, or a read that is an `Apply`, `Miss`, `Ahead`,
  `Sync` or nothing. `DetachedCapped` counts: stamps tell detached sessions
  apart, so the oldest of those that stay has all the others among the newer
  ones, of which there are fewer than the cap.
- `OneLeaderEver` (`ChatCommit_proofs`), for any threads, lines, batch size and
  faults. `LeadInv` adds that a line being staged has no slot yet, so that
  queueing it takes the lead from nobody; that lines in the queue and in
  batches have one; and that a thread about to set its first line's slot has
  that line at the head of the queue.
- `CommitInvariant` and from it `ChatTypeCorrect`, `ReadersHearInOrder`,
  `LinesHeardOnce` and `AnswersAreTrue` (`ChatLog_proofs`), for any threads,
  lines, guids, batch size, memory and faults. `CommitInv` says what the commit
  under way has done so far: the serial is held by the thread that commits
  (`SerialInv`), a queued line is in no log and not answered (`QueueInv`), each
  result of a batch says what the log, the memory and the readers have of its
  line at that place of the code (`ResInv`), a line and a kept guid are in the
  log once (`LogInv`), a remembered guid is backed by the log (`RecentInv`), and
  a guid heard is remembered or forgotten before it is heard again (`HeardInv`).
  What the loops over a batch compute is shown by induction on its length, put
  as the least length at which it would fail.
- `InboxInvariant` and from it `InboxTypeCorrect`, `MailToItsOwner`,
  `NoDoubleDelivery`, `StampsAreBacked`, `AnswersAreBacked` (`Inbox_proofs`),
  for any accounts, messages, uids, workers and bounds. None of the properties
  is inductive. `RightMailbox` needs what a flush is about to hand over to be
  its mailbox's (`BatchInv`) and, for instant messages, that a uid a call names
  is its owner's or out of use until then (`UidInv`). `HandedOnce` needs the
  rows read to be still unstamped when they are handed over, which is what
  `Lock` (one holder of `flushing`, and where it is) and `OnceInv` (a row a
  session has is stamped, is about to be by that holder, its stamp failed, or
  retention left a stub of it or forgot it) give; and for live copies `LiveInv`
  (a message about to go out live has no row, or is noted as raced, or was
  forgotten). `DeliveredWasHanded` and `AnsweredTruly` need `SeenInv` (what a call is
  about to stamp was handed over) and `SendInv` (where a send is, and what it
  will answer; retention may take its row at any moment, so a send knows only that
  its message is stored, a stub or forgotten). Each action is taken once, with one step for each part it can
  disturb.
- `ReceiptInvariant`, `ReadsToldOnce`, `ReadsNotLost`, `NothingWaitsInSilence`,
  `SequenceInvariant` and `MailInOrder` (`Delivery_proofs`), on top of
  `InboxInvariant`. A receipt is told once because one call at most is about to
  tell of a read (`TellInv`) and nothing was told of a row not yet noted
  (`QuietInv`); it is not lost because a read noted is told, kept or in the hands
  of a call (`OwedInv`). `NoSilentWait` needs to know which call a waiting
  message is owed to: one that will still read the mailbox, or has the message
  and will hand it over or give notice (`WaitInv`). `InOrder` needs ids that grow
  (`IdInv`), batches that took the oldest rows (`ReadInv`) and nothing waiting
  that is older than what a session was handed (`OrderInv`). The attempt to prove
  `NoSilentWait` found it false as first stated: the sessions a flush reached may
  leave between the handover and the notice, which then tells nobody what the
  flush left behind, while a third session of the same person is attached. It
  takes three uids, so the run had not met it. It is the same case as a target
  that left in mid-flush, and `Notice` now records it in `excused`; the run and
  an instance with three uids (8.4 M states) pass.
- `AdmissionInvariant` and from it `PlacesAlwaysCounted`, `AccountCapEver`,
  `GuessesPaidFor` (`Admission_proofs`), for any connections, sessions,
  addresses, accounts, caps and bursts. The counts are cardinalities of sets of
  holders that gain or lose one connection at a time; `PlaceInv` says which
  place a connection holds at each place of the code, so that no release finds
  none. `AccountCap` needs `AttachedInv` (an attached session has one
  connection, which is up and of its account) and `ResumeInv` (a connection that
  is resuming has its account's place by the time it takes a person's session).
  `GuessBound` needs `NameInv` and `FromInv`: tokens left, tokens in the hands of
  logins not yet judged or refunded, and wrong guesses together never exceed the
  burst and what time gave back.
  `HubInv` keeps the buffer a push draws on a buffer while the roster lock is
  held.
- `BudgetInvariant` and from it `BudgetAlwaysCounted`, `QueueStaysBounded` and
  `AdmissionTyped` (`Budget_proofs`), for any shares, threads, weights, bounds
  and limits. A drop subtracts whatever its share's counter reads, so the sums
  stay true only if nobody else is in the middle of a take or a give on that
  share: `TaskInv` says which threads use a share and for what, and `ShareInv`
  why the one that drops it is alone (a connection's queue is pushed to and read
  from only while it is up; a buffer's share is the roster lock's; the backlog
  goes after its last enqueue). A broken buffer gives back its counter for the
  same reason. The same facts make `shares` the number of queues. For the bound,
  `BoundInv` is about the queue together with the takes the bound has let
  through and not yet refused: a take compares after it has added, so what it
  reads is at least that. The sums are over any number of shares and threads;
  as counts of units (`Total`) they change by disjoint unions when one number
  changes, and an append, a tail and a batch split the units of a sequence in
  two by a bijection, all without induction. `TypeOK` follows with `Limits`, the
  guards of the gates and the caps of the refunds.

Only model-checked: everything under fairness, `CallReturns` of chat and
`KickedEnds`, `RevokedEnds`, `DetachedEnds` and `ReplacedCloses` of the session
core, since the prover has neither fairness nor `ENABLED`; and `TotalIsSum`,
which would need an induction over the length of a sequence. What the five
violated properties say is, of course, not provable; every other invariant,
action property and refinement a run checks is stated by a theorem.

## Where the code and its comments disagree

Five runs state what a comment or a document says and find it violated.
`PROJECT.json` quotes the lines.

1. `session_takeover`: a resume that fails while writing its reply calls
   `connection_lost`, which does not ask who holds the session. If a newer
   connection took it over in between, it is detached from that one, which
   comments on `connection_lost_from` and in `run` say must not happen.
2. `chat_purge`: a purge chooses its lines before it takes the serial, so a
   batch already checked is logged after the choice, and a line of somebody who
   has left survives the purge.
3. `chat_signed`: a line the log already has under its guid is answered as that
   line, even when both are signed and say different things, if the room's
   memory forgot the guid between staging and commit.
4. `chat_refused`: a retry asks the signed index and the memory before the
   original is logged and the log after; the original is taken for an unsigned
   line, and a faithful retry is refused as an equivocation.
5. `inbox_full_queue`: `flush_held` does not look at what `send_to` did. A row
   that its reader's full queue dropped is stamped delivered, its sender is told
   so, and it is not flushed again; the document says `delivered_at` means handed
   to a live connection.

Other things the model shows that no run states, because no comment or document
clearly says otherwise, or because the code means it so:

- A retry that found the quota spent and no row yet goes out live after the
  first send's row was stored and handed over, so its reader has two copies. A
  comment in `deliver` knows that such a retry can miss the row;
  `docs/private-messages.md` concedes only that it can be refused. `HandedOnce`
  excepts exactly these messages (`raced`): without the exception it is violated
  at a quota of one.
- A retry that finds its row waiting, and whose flush hands nothing over, takes a
  row that is gone afterwards for delivered (`is_pending`), and retention may
  have taken it. `AnsweredTruly` excepts exactly these (`closed`): without the
  exception it is violated.
- A message whose named target leaves between `flush_reads` and the handover
  waits, though another session of its reader's is attached (`excused`). The
  next send, login or resume hands it over.
- `im_deliver_held` and `im_drain` look again only at whether the uid is live,
  not at whose it is; the quarantine makes up for it, unless a uid is reused
  early.
- A receipt is lost if the store fails, or the server stops, between
  `receipt_told` and the push of the row that keeps it; and it ages out as what
  was read does.
- An instant message can be pushed after the friendship it was sent on ended,
  if that happened between the read and the handover; and one sent again after
  it was read and pruned is stored anew.
- A resume's slack is stale when the gate uses it: if the connection it was for
  has closed and another has taken its place, the account stays one past its cap
  with nothing about to close. `roster.rs` says of the slack "for as long as
  that connection takes to close". `AccountCap` bounds it by one.
- Between a detach and the drop of its permit a resume is given no slack and may
  be refused at the cap; of two takeovers at once at the cap, the second is
  refused.
- The budget refuses only a queue that is offered something, so the total may
  pass the limit by what queues below the average take.

## What is not modelled, and why

In the inbox: blocks, message requests and approvals, signatures, media,
reactions, push notices, replies, moved mailboxes, mail to oneself, and the
reads of `friends_roster` and `inbox_list`. In admission: exempt addresses, the
ceiling's semaphore and its reserve, the pace of new connections as tokens (a
refusal is a choice), the /48s of the port's gate, the eviction of old buckets
and table entries, the other users of `RateGate`, and a second queue of sealed
events. `Outbox::push` gives the bytes back when the queue's receiver is closed;
a task says it is gone before it drops its receiver, so only one that panicked
leaves such a queue, and panics are modelled in `NgConn`, without bytes.

`NgConn.ConnFails` leaves a connection with a kick to read to the kicked exit,
which ends the session as a lost connection of a kicked session does. In the
inbox a receipt sent to a live session counts as told though its full queue may
drop it. `RightMailbox` is checked of private messages; of instant ones it is
proved only.

In the session and chat parts: what is checked of a password, nicks,
icons and privileges, the requests that only send events (all of them
`Publish`), the classic frontend (its sessions are those outside `CanDetach`),
images and replies in chat, flood limits, lines of linked servers, a server
without a log, several rooms at once (each has its own commit), retention, and
poisoning of locks other than the serial.

The other parts are listed in `PROJECT.json` as `not_modelled`, with reasons:
I/O and formats (HTTP, files, push, trackers), cryptography (registrar,
identity, sealed messages), media transport (voice, video), and tables behind a
single lock (rooms, news, reactions, history).

## Plan

Done: the session core first, since every other part delivers through it; the
chat commit; the inbox with the uid quarantine; the gates and the budget. Each
has its run and its theorems.

Next, in order:

1. `SessionTokens`: the registry's tokens against uid reuse, composed with
   `Roster`'s attach and end, with the abstract promise that a token never names
   another person's session.
2. Message requests and approvals in `Inbox`: the second gate on a row, and the
   reads `MailApproved` and `Unapproved`.
3. The transfer queue of `hxd-files`, ghost users of linked servers, voice
   seats.
4. Proofs of the new parts as they come; of the present ones every safety
   property has its theorem.
