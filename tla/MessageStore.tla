---------------------------- MODULE MessageStore ----------------------------
(***************************************************************************)
(* The durable inbox (hxd-core, inbox.rs; hxd-store-sqlite, lib.rs): the   *)
(* rows of private and instant messages and of the read receipts owed for  *)
(* them, and the friendships that gate instant messages.                   *)
(*                                                                         *)
(* A message is named by its guid.  Its row is there while id is not 0,    *)
(* ids are handed out in order and order the mailbox, and each stamp of a  *)
(* row is a set of messages.  Every operation is one transaction.          *)
(* Approvals, message requests, media, reactions and the moves of a        *)
(* mailbox to another key are left out.                                    *)
(***************************************************************************)
EXTENDS Naturals, FiniteSets

CONSTANTS
  Accounts,   \* the mailboxes
  Mails,      \* private messages
  Ims,        \* instant messages
  From, To,   \* a message's mailboxes
  MaxQueued,  \* inbox_policy.max_queued
  MaxRel      \* bound: the friendships made in a run

Msgs == Mails \cup Ims

ASSUME MessageStoreAssumption ==
  /\ Mails \cap Ims = {}
  /\ DOMAIN From = Msgs /\ DOMAIN To = Msgs
  /\ \A m \in Msgs : From[m] \in Accounts /\ To[m] \in Accounts
  /\ \A m \in Msgs : From[m] # To[m]
  /\ MaxQueued \in Nat \ {0} /\ MaxRel \in Nat

VARIABLES
  id,         \* the id of a message's row, 0 for none
  on,         \* the friendship it was sent on, 0 for a private message
  lastId,     \* the last id handed out
  today,      \* rows sent in the last 24 hours, by sent_at
  delivered,  \* delivered_at is set
  read,       \* read_at is set
  handed,     \* handed_at is set
  receipted,  \* receipt_at is set
  slip,       \* the id of the read receipt waiting for its sender, 0 for none
  stubs,      \* what retention left of read private messages
  closed,     \* history: messages whose guid retention forgot
  rel,        \* the live friendship of two mailboxes, 0 for none
  lastRel     \* the last friendship's id

storeVars ==
  <<id, on, lastId, today, delivered, read, handed, receipted, slip, stubs, closed, rel, lastRel>>

Pair(m) == {From[m], To[m]}
Pairs == {Pair(m) : m \in Msgs}

StoreTypeOK ==
  /\ id \in [Msgs -> Nat] /\ slip \in [Msgs -> Nat] /\ lastId \in Nat
  /\ on \in [Msgs -> Nat] /\ rel \in [Pairs -> Nat] /\ lastRel \in Nat
  /\ \A s \in {today, delivered, read, handed, receipted, stubs, closed} : s \subseteq Msgs

StoreInit ==
  /\ id = [m \in Msgs |-> 0] /\ slip = [m \in Msgs |-> 0] /\ lastId = 0
  /\ on = [m \in Msgs |-> 0] /\ rel = [p \in Pairs |-> 1] /\ lastRel = 1
  /\ today = {} /\ delivered = {} /\ read = {} /\ handed = {} /\ receipted = {}
  /\ stubs = {} /\ closed = {}

(***************************************************************************)
(* What is read.                                                           *)
(***************************************************************************)
Rows == {m \in Msgs : id[m] # 0}

\* The gate: a row sent on a friendship waits while that is not the live one.
LiveRow(m) == on[m] \in {0, rel[Pair(m)]}

\* Mutant of Waiting: what was delivered is read again.
WaitingAgain(a) == {m \in Rows \ handed : To[m] = a /\ LiveRow(m)}

\* Pending::All: not delivered, not handed over, past the gate.
Waiting(a) ==
  {m \in Rows \ (delivered \cup handed) : To[m] = a /\ LiveRow(m)}

\* Pending::Mail.
WaitingMail(a) == Waiting(a) \cap Mails

\* Pending::Instant; again also reads those handed over and not acknowledged.
Instant(a, again) ==
  {m \in (Rows \cap Ims) \ delivered :
     To[m] = a /\ LiveRow(m) /\ (again \/ m \notin handed)}

\* Pending::Receipts, for the sender they are addressed to.
Receipts(a) == {m \in Msgs : slip[m] # 0 /\ From[m] = a /\ LiveRow(m)}

\* Mutant of Oldest: the newest.
Newest(S, n, key) == {m \in S : Cardinality({k \in S : key[k] > key[m]}) < n}

\* ORDER BY id LIMIT n, as the set of rows it selects.
Oldest(S, n, key) == {m \in S : Cardinality({k \in S : key[k] < key[m]}) < n}

\* find_guid: a row or a stub.
FindGuid(m) == m \in Rows \cup stubs

(***************************************************************************)
(* What is written.                                                        *)
(***************************************************************************)
\* push of a message no row or stub answers for.  r is the friendship.
Stored(m, r) ==
  /\ lastId' = lastId + 1
  /\ id' = [id EXCEPT ![m] = lastId + 1]
  /\ on' = [on EXCEPT ![m] = r]
  /\ today' = today \cup {m}
  /\ UNCHANGED <<delivered, read, handed, receipted, slip, stubs, closed, rel, lastRel>>

\* push of a read receipt, which no cap holds.
StoredSlip(m) ==
  /\ lastId' = lastId + 1
  /\ slip' = [slip EXCEPT ![m] = lastId + 1]
  /\ UNCHANGED <<id, on, today, delivered, read, handed, receipted, stubs, closed, rel, lastRel>>

\* mark_delivered: S are delivered, those of them in R read as well.
MarkDelivered(S, R) ==
  /\ delivered' = delivered \cup (S \cap Rows)
  /\ read' = read \cup (R \cap Rows)
  /\ UNCHANGED <<id, on, lastId, today, handed, receipted, slip, stubs, closed, rel, lastRel>>

\* mark_handed, and mark_delivered of the read receipts a drain told.
MarkHanded(S) ==
  /\ handed' = handed \cup (S \cap Rows)
  /\ UNCHANGED <<id, on, lastId, today, delivered, read, receipted, slip, stubs, closed, rel,
                 lastRel>>
SlipsDelivered(S) ==
  /\ slip' = [m \in Msgs |-> IF m \in S THEN 0 ELSE slip[m]]
  /\ UNCHANGED <<id, on, lastId, today, delivered, read, handed, receipted, stubs, closed, rel,
                 lastRel>>

\* Mutant of ToldFirst: every read is the first.
ToldAlways(m) == m \in Rows

\* receipt_told: true the first time alone.
ToldFirst(m) == m \in Rows /\ m \notin receipted
ReceiptTold(m) ==
  /\ receipted' = receipted \cup {m}
  /\ UNCHANGED <<id, on, lastId, today, delivered, read, handed, slip, stubs, closed, rel, lastRel>>

\* mark_read: the mailbox a up to and including the row of m.
UpTo(a, m) ==
  {k \in Rows \ read : To[k] = a /\ LiveRow(k) /\ id[k] <= id[m]}
MarkRead(a, m) ==
  /\ read' = read \cup UpTo(a, m)
  /\ delivered' = delivered \cup UpTo(a, m)
  /\ UNCHANGED <<id, on, lastId, today, handed, receipted, slip, stubs, closed, rel, lastRel>>

\* prune drops the row of m, with its stamps; a private message read inside
\* its sender's window leaves a stub.
Dropped(m, stub) ==
  /\ id' = [id EXCEPT ![m] = 0] /\ today' = today \ {m}
  /\ delivered' = delivered \ {m} /\ read' = read \ {m}
  /\ handed' = handed \ {m} /\ receipted' = receipted \ {m}
  /\ stubs' = IF stub THEN stubs \cup {m} ELSE stubs \ {m}
  /\ UNCHANGED <<on, lastId, slip, rel, lastRel>>

\* Retention of what was read: retain_read has passed for m.  An instant
\* message leaves no stub.
PruneRead(m) ==
  /\ m \in Rows \cap read
  /\ Dropped(m, m \in Mails)
  /\ closed' = closed \cup ({m} \cap Ims)

\* A read receipt is stamped read on arrival, and ages as what was read.
PruneSlip(m) ==
  /\ slip[m] # 0
  /\ SlipsDelivered({m})

\* retain_unread has passed since m was sent: an unread row and a stub go.  A
\* row read since loses its guid, after which no call names it and it waits
\* for none, and so it is dropped here too.
PruneSent(m) ==
  /\ m \in Rows \cup stubs
  /\ Dropped(m, FALSE)
  /\ closed' = closed \cup {m}

\* A day passes.
Age ==
  /\ today # {}
  /\ today' = {}
  /\ UNCHANGED <<id, on, lastId, delivered, read, handed, receipted, slip, stubs, closed,
                 rel, lastRel>>

\* A friendship is made, under an id of its own, or ended.
Befriend(p) ==
  /\ rel[p] = 0 /\ lastRel < MaxRel
  /\ lastRel' = lastRel + 1
  /\ rel' = [rel EXCEPT ![p] = lastRel + 1]
  /\ UNCHANGED <<id, on, lastId, today, delivered, read, handed, receipted, slip, stubs, closed>>
Unfriend(p) ==
  /\ rel[p] # 0
  /\ rel' = [rel EXCEPT ![p] = 0]
  /\ UNCHANGED <<id, on, lastId, today, delivered, read, handed, receipted, slip, stubs, closed,
                 lastRel>>
=============================================================================
