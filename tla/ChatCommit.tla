----------------------------- MODULE ChatCommit -----------------------------
(***************************************************************************)
(* Public chat, committed in groups (hxd-core, chat.rs), for one room of a *)
(* server that keeps a log.                                                *)
(*                                                                         *)
(* Threads send lines.  A line joins the room's queue, and whoever finds   *)
(* no commit under way leads one: it takes a batch off the queue, logs it  *)
(* in one transaction under the room's serial lock, relays it line by      *)
(* line, answers the threads that wait for its lines and hands the lead to *)
(* the next line waiting.  A line may carry a guid, under which a repeat   *)
(* of it is recognised, in the log or in the room's memory of guids.       *)
(*                                                                         *)
(*   idle -> stage -> guid -> lookup -> recall                             *)
(*   stage -> first | wait                                                 *)
(*   wait -> serial -> append -> remember -> relay -> answer -> handon     *)
(*        -> wait -> ... -> idle                                           *)
(*                                                                         *)
(* What a line says is left out, except what a signed repeat is held to.   *)
(* So are images, replies, flood limits and the lines of linked servers.   *)
(***************************************************************************)
EXTENDS Integers, Sequences, SequencesExt, FiniteSets

CONSTANTS
  Threads,      \* the threads that call chat_public_all
  NoThread,     \* the serial lock is free
  Lines,        \* every line a run may send; each is sent once at most
  ThreadOf,     \* the thread that sends a line
  SessionOf,    \* the session that sends it
  SenderOf,     \* whom a session's guids are held under: guid_sender
  Guid, NoGuid, \* the guid it carries
  Said,         \* the content its signature covers, or "unsigned"
  Kept,         \* those the log keeps guids for, people: GuidSender::Kept
  CommitBatch,  \* COMMIT_BATCH
  GuidKeep,     \* GUID_KEEP
  MaxFaults,    \* bound: store errors, panics and restarts in a run
  Leaving,      \* the sessions that may end in a run
  Redactable,   \* the lines a moderator may redact
  Purgeable,    \* the people a moderator may purge
  Expiring      \* whether guids may expire

ASSUME ChatCommitAssumption ==
  /\ NoThread \notin Threads
  /\ DOMAIN ThreadOf = Lines /\ DOMAIN SessionOf = Lines
  /\ DOMAIN Guid = Lines /\ DOMAIN Said = Lines
  /\ \A l \in Lines : ThreadOf[l] \in Threads
  /\ \A l \in Lines : SessionOf[l] \in DOMAIN SenderOf
  /\ \A l \in Lines : Said[l] # "unsigned" =>
       Guid[l] # NoGuid /\ SenderOf[SessionOf[l]] \in Kept
  /\ \A l \in Lines : Said[l] # "forgotten"
  /\ CommitBatch \in Nat \ {0}
  /\ GuidKeep \in Nat \ {0}
  /\ MaxFaults \in Nat
  /\ Leaving \subseteq DOMAIN SenderOf
  /\ Redactable \subseteq Lines
  /\ Purgeable \subseteq Kept
  /\ Expiring \in BOOLEAN

VARIABLES
  queue,    \* CommitState.queue
  leading,  \* CommitState.leading
  slot,     \* each line's Pending.slot
  answer,   \* what each line was answered
  pc,       \* where each thread is in the code
  todo,     \* its call's lines not yet staged
  mine,     \* its lines staged or queued and not yet answered
  found,    \* what the log knew of the first of todo
  batch,    \* the lines of the commit it leads
  res,      \* their results
  serial,   \* the thread that holds the room's serial, log_serial
  poisoned, \* the serial was held by a thread that panicked
  log,      \* the chat log, a line's id being its place in it
  recent,   \* RecentGuids, oldest first
  heard,    \* what the room's readers were sent, in order
  gone,     \* the sessions that have ended
  mod,      \* a moderator's redaction or purge under way
  purged,   \* the people purged after their sessions had ended
  forgot,   \* history: the guids that were forgotten since the start
  faults    \* counts up to MaxFaults

stateVars == <<queue, leading, slot>>
stageVars == <<todo, found>>
leadVars == <<batch, res>>
roomVars == <<serial, poisoned, log, recent, heard>>
otherVars == <<gone, mod, purged, forgot, faults>>
commitVars == <<stateVars, answer, pc, mine, stageVars, leadVars>>
vars == <<commitVars, roomVars, otherVars>>

Sessions == DOMAIN SenderOf

Sender(l) == SenderOf[SessionOf[l]]

Key(l) == <<Sender(l), Guid[l]>>

Keys == {Key(l) : l \in {m \in Lines : Guid[m] # NoGuid}}

Said0 == {Said[l] : l \in Lines} \cup {"unsigned", "forgotten"}

\* A line's result.  Of a line in a batch it may also be that it is to be
\* logged ("live"), that it was and is to be relayed ("new"), that the log
\* had it already ("known"), or that it repeats the line at place `id` of
\* the batch ("repeat").
Kinds == {"none", "live", "new", "known", "repeat", "ok", "gone",
          "equivocation", "failed", "panicked"}

Result == [kind: Kinds, id: Nat]

R(kind, id) == [kind |-> kind, id |-> id]

NoResult == R("none", 0)

PCs == {"idle", "stage", "guid", "lookup", "recall", "first", "wait", "serial",
        "append", "remember", "relay", "answer", "handon"}

TypeOK ==
  /\ queue \in Seq(Lines)
  /\ leading \in BOOLEAN
  /\ slot \in [Lines -> {"none", "waiting", "lead", "done"}]
  /\ answer \in [Lines -> Result]
  /\ pc \in [Threads -> PCs]
  /\ todo \in [Threads -> Seq(Lines)]
  /\ mine \in [Threads -> Seq(Lines)]
  /\ found \in [Threads -> [id: Nat, said: Said0]]
  /\ batch \in [Threads -> Seq(Lines)]
  /\ res \in [Threads -> Seq(Result)]
  /\ serial \in Threads \cup {NoThread}
  /\ poisoned \in BOOLEAN
  /\ log \in Seq([line: Lines, deleted: BOOLEAN])
  /\ recent \in Seq([key: Keys, id: Nat \ {0}, said: Said0])
  /\ heard \in Seq([kind: {"line", "redacted"}, id: Nat \ {0}])
  /\ gone \subseteq Sessions
  /\ mod \in [ids: SUBSET Nat, whose: SUBSET Kept]
  /\ purged \subseteq Kept
  /\ forgot \subseteq Keys
  /\ faults \in 0..MaxFaults

Idle == [ids |-> {}, whose |-> {}]

Empty == [t \in Threads |-> <<>>]
AllIdle == [t \in Threads |-> "idle"]
NotFound == [t \in Threads |-> [id |-> 0, said |-> "unsigned"]]

Init ==
  /\ queue = <<>>
  /\ leading = FALSE
  /\ slot = [l \in Lines |-> "none"]
  /\ answer = [l \in Lines |-> NoResult]
  /\ pc = AllIdle
  /\ todo = Empty
  /\ mine = Empty
  /\ found = NotFound
  /\ batch = Empty
  /\ res = Empty
  /\ serial = NoThread
  /\ poisoned = FALSE
  /\ log = <<>>
  /\ recent = <<>>
  /\ heard = <<>>
  /\ gone = {}
  /\ mod = Idle
  /\ purged = {}
  /\ forgot = {}
  /\ faults = 0

At(t, at) == pc[t] = at
Goto(t, at) == pc' = [pc EXCEPT ![t] = at]

Fault ==
  /\ faults < MaxFaults
  /\ faults' = faults + 1

-----------------------------------------------------------------------------
(* The room's memory of guids, and the log's.                              *)

Remembered(key) == \E i \in 1..Len(recent) : recent[i].key = key

Memory(key) == recent[CHOOSE i \in 1..Len(recent) : recent[i].key = key]

\* RecentGuids::remember.
Remember(memory, e) ==
  IF \E i \in 1..Len(memory) : memory[i].key = e.key THEN memory
  ELSE Append(IF Len(memory) >= GuidKeep THEN Tail(memory) ELSE memory, e)

KeysIn(memory) == {memory[i].key : i \in 1..Len(memory)}

\* The numbers of a finite set in order: there is one such sequence.
Ascending(S) ==
  {s \in [1..Cardinality(S) -> S] :
     /\ \A i \in S : \E n \in DOMAIN s : s[n] = i
     /\ \A m, n \in DOMAIN s : m < n => s[m] < s[n]}

\* The room's memory with the entries `es` remembered in turn.
Remembering(es) ==
  LET memory[n \in 0..Len(es)] ==
        IF n = 0 THEN recent ELSE Remember(memory[n - 1], es[n])
  IN  memory[Len(es)]

RememberAll(es) ==
  LET now == Remembering(es)
  IN  /\ recent' = now
      /\ forgot' = forgot \cup ((KeysIn(recent) \cup KeysIn(es)) \ KeysIn(now))

\* repeat_of: a repeat is answered as its line was, unless it is signed and
\* says something else.
RepeatOf(id, was, l) ==
  IF Said[l] = "unsigned" \/ was = "forgotten" \/ was = Said[l]
  THEN R("ok", id)
  ELSE R("equivocation", 0)

\* The log's unique index over a channel's guids, for the senders it keeps.
Logged(l) ==
  {i \in 1..Len(log) : /\ Guid[l] # NoGuid /\ Sender(l) \in Kept
                       /\ Key(log[i].line) = Key(l)}

\* find_signed: the signed line logged under this line's id; redacting a
\* line takes it out of this index.
SignedAt(l) ==
  {i \in Logged(l) : Said[log[i].line] # "unsigned" /\ ~log[i].deleted}

-----------------------------------------------------------------------------
(* chat_public_lines: each line of a call is asked about, then staged.     *)

\* A call with some of one session's lines, in any order.
ChatPublic(t, ls) ==
  /\ At(t, "idle")
  /\ \A l \in ToSet(ls) :
       /\ ThreadOf[l] = t /\ SessionOf[l] = SessionOf[ls[1]]
       /\ slot[l] = "none" /\ answer[l] = NoResult
  /\ Goto(t, "stage")
  /\ todo' = [todo EXCEPT ![t] = ls]
  /\ UNCHANGED <<stateVars, answer, mine, found, leadVars, roomVars, otherVars>>

\* The line at hand is answered without being queued.
AnswerNow(t, r) ==
  /\ answer' = [answer EXCEPT ![Head(todo[t])] = r]
  /\ todo' = [todo EXCEPT ![t] = Tail(@)]
  /\ Goto(t, "stage")
  /\ UNCHANGED mine

\* It is not answered yet, and staged if its session is still there.
Stage(t) ==
  LET l == Head(todo[t])
  IN  \/ SessionOf[l] \in gone /\ AnswerNow(t, R("gone", 0))
      \/ /\ SessionOf[l] \notin gone
         /\ todo' = [todo EXCEPT ![t] = Tail(@)]
         /\ mine' = [mine EXCEPT ![t] = Append(@, l)]
         /\ Goto(t, "stage")
         /\ UNCHANGED answer

StageUnnamed(t) ==
  /\ At(t, "stage")
  /\ todo[t] # <<>>
  /\ Guid[Head(todo[t])] = NoGuid
  /\ Stage(t)
  /\ UNCHANGED <<stateVars, found, leadVars, roomVars, otherVars>>

\* signed_answer: the log's index of signed lines is asked first.  Here it
\* has the line ...
SignedAnswer(t) ==
  LET l == Head(todo[t])
      at == CHOOSE i \in SignedAt(l) : TRUE
  IN  /\ At(t, "stage")
      /\ todo[t] # <<>>
      /\ Guid[l] # NoGuid
      /\ SessionOf[l] \in gone \/ (Said[l] # "unsigned" /\ SignedAt(l) # {})
      /\ AnswerNow(t, IF SessionOf[l] \in gone THEN R("gone", 0)
                      ELSE RepeatOf(at, Said[log[at].line], l))
      /\ UNCHANGED <<stateVars, found, leadVars, roomVars, otherVars>>

\* ... here it will not say, and the line has failed ...
SignedFails(t) ==
  /\ At(t, "stage")
  /\ todo[t] # <<>>
  /\ Said[Head(todo[t])] # "unsigned"
  /\ SessionOf[Head(todo[t])] \notin gone
  /\ Fault
  /\ AnswerNow(t, R("failed", 0))
  /\ UNCHANGED <<stateVars, found, leadVars, roomVars, gone, mod, purged, forgot>>

\* ... and here it has not.
SignedMiss(t) ==
  LET l == Head(todo[t])
  IN  /\ At(t, "stage")
      /\ todo[t] # <<>>
      /\ Guid[l] # NoGuid
      /\ SessionOf[l] \notin gone
      /\ Said[l] = "unsigned" \/ SignedAt(l) = {}
      /\ Goto(t, "guid")
      /\ UNCHANGED <<stateVars, answer, mine, stageVars, leadVars, roomVars,
                     otherVars>>

\* guid_answer: the room's memory is asked next ...
GuidRemembered(t) ==
  LET l == Head(todo[t])
  IN  /\ At(t, "guid")
      /\ Remembered(Key(l))
      /\ AnswerNow(t, RepeatOf(Memory(Key(l)).id, Memory(Key(l)).said, l))
      /\ UNCHANGED <<stateVars, found, leadVars, roomVars, otherVars>>

GuidForgotten(t) ==
  LET l == Head(todo[t])
  IN  /\ At(t, "guid")
      /\ ~Remembered(Key(l))
      /\ \/ /\ Sender(l) \in Kept
            /\ Goto(t, "lookup")
            /\ UNCHANGED <<answer, mine, todo>>
         \/ Sender(l) \notin Kept /\ Stage(t)
      /\ UNCHANGED <<stateVars, found, leadVars, roomVars, otherVars>>

\* ... and then, for a sender it keeps guids for, the log, without the
\* memory's lock.  A line it has is taken to be unsigned or redacted, since
\* the signed were asked about before.
GuidLogged(t) ==
  LET i == CHOOSE i \in Logged(Head(todo[t])) : TRUE
  IN  /\ At(t, "lookup")
      /\ Logged(Head(todo[t])) # {}
      /\ Goto(t, "recall")
      /\ found' = [found EXCEPT ![t] =
           [id |-> i, said |-> IF log[i].deleted THEN "forgotten"
                                                 ELSE "unsigned"]]
      /\ UNCHANGED <<stateVars, answer, mine, todo, leadVars, roomVars, otherVars>>

GuidUnlogged(t) ==
  /\ At(t, "lookup")
  /\ Logged(Head(todo[t])) = {}
  /\ Stage(t)
  /\ UNCHANGED <<stateVars, found, leadVars, roomVars, otherVars>>

\* A log that will not answer is a miss.
LookupFails(t) ==
  /\ At(t, "lookup")
  /\ Fault
  /\ Stage(t)
  /\ UNCHANGED <<stateVars, found, leadVars, roomVars, gone, mod, purged, forgot>>

\* The line found cannot be read, and is taken to be unsigned.
LineUnread(t) ==
  /\ At(t, "lookup")
  /\ Fault
  /\ \E i \in Logged(Head(todo[t])) :
       /\ log[i].deleted
       /\ found' = [found EXCEPT ![t] = [id |-> i, said |-> "unsigned"]]
  /\ Goto(t, "recall")
  /\ UNCHANGED <<stateVars, answer, mine, todo, leadVars, roomVars, gone, mod, purged,
                 forgot>>

\* What the log said is remembered, and is the line's answer.
Recall(t) ==
  LET l == Head(todo[t])
      id == found[t].id
      said == found[t].said
  IN  /\ At(t, "recall")
      /\ RememberAll(<<[key |-> Key(l), id |-> id, said |-> said]>>)
      /\ AnswerNow(t, RepeatOf(id, said, l))
      /\ UNCHANGED <<stateVars, found, leadVars, serial, poisoned, log,
                     heard, gone, mod, purged, faults>>

-----------------------------------------------------------------------------
(* ChatCommit::submit_all and lead.                                        *)

\* Nothing to queue must not take the lead.
SubmitNothing(t) ==
  /\ At(t, "stage")
  /\ todo[t] = <<>>
  /\ mine[t] = <<>>
  /\ Goto(t, "idle")
  /\ UNCHANGED <<stateVars, answer, mine, stageVars, leadVars, roomVars, otherVars>>

\* Under the state's lock: the lines join the queue, and the thread takes
\* the lead if there is none.
Submit(t) ==
  /\ At(t, "stage")
  /\ todo[t] = <<>>
  /\ mine[t] # <<>>
  /\ queue' = queue \o mine[t]
  /\ slot' = [l \in Lines |-> IF l \in ToSet(mine[t]) THEN "waiting" ELSE slot[l]]
  /\ leading' = TRUE
  /\ Goto(t, IF leading THEN "wait" ELSE "first")
  /\ UNCHANGED <<answer, mine, stageVars, leadVars, roomVars, otherVars>>

\* first.set(Slot::Lead), after the state's lock was let go.
SetFirst(t) ==
  /\ At(t, "first")
  /\ slot' = [slot EXCEPT ![Head(mine[t])] = "lead"]
  /\ Goto(t, "wait")
  /\ UNCHANGED <<queue, leading, answer, mine, stageVars, leadVars, roomVars,
                 otherVars>>

\* The thread's next line, its first of `mine`, is answered; it goes on to
\* the one after it, or returns.
Answered(t) ==
  /\ mine' = [mine EXCEPT ![t] = Tail(@)]
  /\ Goto(t, IF Len(mine[t]) = 1 THEN "idle" ELSE "wait")

Done(t) ==
  /\ At(t, "wait")
  /\ slot[Head(mine[t])] = "done"
  /\ slot' = [slot EXCEPT ![Head(mine[t])] = "waiting"]
  /\ Answered(t)
  /\ UNCHANGED <<queue, leading, answer, stageVars, leadVars, roomVars, otherVars>>

Batch == SubSeq(queue, 1, IF Len(queue) < CommitBatch THEN Len(queue)
                                                      ELSE CommitBatch)

\* The thread's next line leads: its batch comes off the queue.
Lead(t) ==
  /\ At(t, "wait")
  /\ slot[Head(mine[t])] = "lead"
  /\ slot' = [slot EXCEPT ![Head(mine[t])] = "waiting"]
  /\ queue' = SubSeq(queue, Len(Batch) + 1, Len(queue))
  /\ batch' = [batch EXCEPT ![t] = Batch]
  /\ Goto(t, "serial")
  /\ UNCHANGED <<leading, answer, mine, stageVars, res, roomVars, otherVars>>

\* The batch's lines are answered; the leader keeps its own line's answer.
Answer(t) ==
  LET b == batch[t]
      place(l) == {i \in 1..Len(b) : b[i] = l}
  IN  /\ At(t, "answer")
      /\ slot' = [l \in Lines |-> IF place(l) # {} /\ l # Head(mine[t])
                                  THEN "done" ELSE slot[l]]
      /\ answer' = [l \in Lines |-> IF place(l) # {}
                                    THEN res[t][CHOOSE i \in place(l) : TRUE]
                                    ELSE answer[l]]
      /\ Goto(t, "handon")
      /\ UNCHANGED <<queue, leading, mine, stageVars, leadVars, roomVars, otherVars>>

\* Mutant of HandOn: the lead is given up with lines still waiting.
HandOnNot(t) ==
  /\ At(t, "handon")
  /\ leading' = FALSE
  /\ Answered(t)
  /\ batch' = [batch EXCEPT ![t] = <<>>]
  /\ res' = [res EXCEPT ![t] = <<>>]
  /\ UNCHANGED <<queue, slot, answer, stageVars, roomVars, otherVars>>

\* Under the state's lock: the next line waiting leads, or nobody does.
HandOn(t) ==
  /\ At(t, "handon")
  /\ leading' = (queue # <<>>)
  /\ slot' = IF queue = <<>> THEN slot ELSE [slot EXCEPT ![Head(queue)] = "lead"]
  /\ Answered(t)
  /\ batch' = [batch EXCEPT ![t] = <<>>]
  /\ res' = [res EXCEPT ![t] = <<>>]
  /\ UNCHANGED <<queue, answer, stageVars, roomVars, otherVars>>

-----------------------------------------------------------------------------
(* chat_commit_batch, under the room's serial.                             *)

\* What the batch's i-th line comes to before the log is asked: its session
\* is looked at again, then the memory of guids, then the lines before it
\* whose sessions are still there.
Verdict(b, i) ==
  LET l == b[i]
      alike == {j \in 1..i : SessionOf[b[j]] \notin gone /\ Key(b[j]) = Key(l)}
      first == CHOOSE j \in alike : \A k \in alike : j <= k
  IN  IF SessionOf[l] \in gone THEN R("gone", 0)
      ELSE IF Guid[l] = NoGuid THEN R("live", 0)
      ELSE IF Remembered(Key(l))
           THEN RepeatOf(Memory(Key(l)).id, Memory(Key(l)).said, l)
      ELSE IF first = i THEN R("live", 0)
      ELSE IF RepeatOf(0, Said[b[first]], l).kind = "ok"
           THEN R("repeat", first)
      ELSE R("equivocation", 0)

\* Mutant of Check: a line staged is a line to log.
CheckNot(t) ==
  /\ At(t, "serial")
  /\ serial = NoThread
  /\ ~poisoned
  /\ serial' = t
  /\ res' = [res EXCEPT ![t] = [i \in 1..Len(batch[t]) |-> R("live", 0)]]
  /\ Goto(t, "append")
  /\ UNCHANGED <<stateVars, answer, mine, stageVars, batch, poisoned, log, recent,
                 heard, otherVars>>

Check(t) ==
  /\ At(t, "serial")
  /\ serial = NoThread
  /\ ~poisoned
  /\ serial' = t
  /\ res' = [res EXCEPT ![t] =
               [i \in 1..Len(batch[t]) |-> Verdict(batch[t], i)]]
  /\ Goto(t, "append")
  /\ UNCHANGED <<stateVars, answer, mine, stageVars, batch, poisoned, log, recent,
                 heard, otherVars>>

\* The lines of the batch, by place, whose result is of one of these kinds.
Places(t, kinds) == {i \in 1..Len(batch[t]) : res[t][i].kind \in kinds}

\* Mutant of NewId: off by one.
NewIdOneLow(n) == Len(log) + n - 1

\* The id of the n-th line a transaction inserts.
NewId(n) == Len(log) + n

\* append_all, all or none: a line whose guid the log keeps already is not
\* appended again, and has that line's id.
AppendAll(t) ==
  LET live == Places(t, {"live"})
      place(new, i) == {n \in 1..Len(new) : new[n] = i}
      outcome(new, i) ==
        IF i \notin live THEN res[t][i]
        ELSE IF place(new, i) # {}
             THEN R("new", NewId(CHOOSE n \in place(new, i) : TRUE))
        ELSE R("known", CHOOSE k \in Logged(batch[t][i]) : TRUE)
  IN  /\ At(t, "append")
      /\ \E new \in Ascending({i \in live : Logged(batch[t][i]) = {}}) :
           /\ log' = log \o [n \in 1..Len(new) |->
                               [line |-> batch[t][new[n]], deleted |-> FALSE]]
           /\ res' = [res EXCEPT ![t] = [i \in 1..Len(@) |-> outcome(new, i)]]
      /\ Goto(t, "remember")
      /\ UNCHANGED <<stateVars, answer, mine, stageVars, batch, serial, poisoned,
                     recent, heard, otherVars>>

\* Mutant of StoreFails: a repeat keeps the answer it was given in advance.
StoreFailsButRepeats(t) ==
  /\ At(t, "append")
  /\ Fault
  /\ serial' = NoThread
  /\ res' = [res EXCEPT ![t] = [i \in 1..Len(@) |->
                CASE @[i].kind = "live" -> R("failed", 0)
                  [] @[i].kind = "repeat" -> R("ok", 0)
                  [] OTHER -> @[i]]]
  /\ Goto(t, "answer")
  /\ UNCHANGED <<stateVars, answer, mine, stageVars, batch, poisoned, log, recent,
                 heard, gone, mod, purged, forgot>>

\* The log would not take the batch: every line of it that was not settled
\* before, or repeats one that was not, has failed.
StoreFails(t) ==
  /\ At(t, "append")
  /\ Fault
  /\ serial' = NoThread
  /\ res' = [res EXCEPT ![t] = [i \in 1..Len(@) |->
                IF @[i].kind \in {"live", "repeat"} THEN R("failed", 0) ELSE @[i]]]
  /\ Goto(t, "answer")
  /\ UNCHANGED <<stateVars, answer, mine, stageVars, batch, poisoned, log, recent,
                 heard, gone, mod, purged, forgot>>

\* The lines' guids are remembered, with what each line says.
RememberLines(t) ==
  LET logged == {i \in Places(t, {"new", "known"}) : Guid[batch[t][i]] # NoGuid}
      entry(i) == [key |-> Key(batch[t][i]), id |-> res[t][i].id,
                   said |-> Said[batch[t][i]]]
  IN  /\ At(t, "remember")
      /\ \E order \in Ascending(logged) :
           RememberAll([n \in 1..Len(order) |-> entry(order[n])])
      /\ res' = [res EXCEPT ![t] = [i \in 1..Len(@) |->
                    IF @[i].kind = "known" THEN R("ok", @[i].id) ELSE @[i]]]
      /\ Goto(t, "relay")
      /\ UNCHANGED <<stateVars, answer, mine, stageVars, batch, serial, poisoned,
                     log, heard, gone, mod, purged, faults>>

\* One line of the batch is relayed, under the roster's lock.
Relay(t) ==
  LET unheard == Places(t, {"new"})
      i == CHOOSE i \in unheard : \A j \in unheard : i <= j
  IN  /\ At(t, "relay")
      /\ unheard # {}
      /\ heard' = Append(heard, [kind |-> "line", id |-> res[t][i].id])
      /\ res' = [res EXCEPT ![t][i].kind = "ok"]
      /\ UNCHANGED <<stateVars, answer, pc, mine, stageVars, batch, serial,
                     poisoned, log, recent, otherVars>>

\* All are relayed: a repeat is answered as the line it repeats, and the
\* serial is let go.
Relayed(t) ==
  /\ At(t, "relay")
  /\ Places(t, {"new"}) = {}
  /\ serial' = NoThread
  /\ res' = [res EXCEPT ![t] = [i \in 1..Len(@) |->
                IF @[i].kind = "repeat" THEN @[@[i].id] ELSE @[i]]]
  /\ Goto(t, "answer")
  /\ UNCHANGED <<stateVars, answer, mine, stageVars, batch, poisoned, log, recent,
                 heard, otherVars>>

\* lead catches the panic, and answers for the whole batch.
Panicked(t) ==
  /\ res' = [res EXCEPT ![t] = [i \in 1..Len(batch[t]) |-> R("panicked", 0)]]
  /\ Goto(t, "answer")
  /\ UNCHANGED <<stateVars, answer, mine, stageVars, batch, log, recent, heard,
                 gone, mod, purged, forgot>>

\* The commit panics, and the serial it held is poisoned.
CommitPanics(t) ==
  /\ pc[t] \in {"append", "remember", "relay"}
  /\ Fault
  /\ serial' = NoThread
  /\ poisoned' = TRUE
  /\ Panicked(t)

\* A poisoned serial's lock().unwrap() panics too, and so does every commit
\* from then on.
CheckPoisoned(t) ==
  /\ At(t, "serial")
  /\ poisoned
  /\ Panicked(t)
  /\ UNCHANGED <<serial, poisoned, faults>>

-----------------------------------------------------------------------------
(* The rest of the server.                                                 *)

\* A session ends, by itself or kicked.
Leave(x) ==
  /\ x \in Leaving \ gone
  /\ gone' = gone \cup {x}
  /\ UNCHANGED <<commitVars, roomVars, mod, purged, forgot, faults>>

Undeleted(p) ==
  {i \in 1..Len(log) : Sender(log[i].line) = p /\ ~log[i].deleted}

\* redact_line and purge_sender choose their lines without the serial ...
ChooseLine(i) ==
  /\ mod = Idle
  /\ log[i].line \in Redactable
  /\ ~log[i].deleted
  /\ mod' = [ids |-> {i}, whose |-> {}]
  /\ UNCHANGED <<commitVars, roomVars, gone, purged, forgot, faults>>

ChooseSender(p) ==
  /\ mod = Idle
  /\ p \in Purgeable \ purged
  /\ mod' = [ids |-> Undeleted(p),
             whose |-> IF \A x \in Sessions : SenderOf[x] = p => x \in gone
                       THEN {p} ELSE {}]
  /\ UNCHANGED <<commitVars, roomVars, gone, purged, forgot, faults>>

\* The chosen lines are blanked, what they said is forgotten, and the
\* readers are told.
Tombstone ==
  /\ log' = [i \in 1..Len(log) |->
               [log[i] EXCEPT !.deleted = @ \/ i \in mod.ids]]
  /\ recent' = [k \in 1..Len(recent) |->
                  [recent[k] EXCEPT !.said = IF recent[k].id \in mod.ids
                                             THEN "forgotten" ELSE @]]
  /\ \E ids \in Ascending(mod.ids) :
       heard' = heard \o [n \in 1..Len(ids) |->
                            [kind |-> "redacted", id |-> ids[n]]]
  /\ purged' = purged \cup mod.whose
  /\ mod' = Idle
  /\ UNCHANGED <<commitVars, serial, poisoned, gone, forgot, faults>>

\* Mutant of TombstoneLines: the room's serial is not taken.
TombstoneLinesUnlocked ==
  /\ mod # Idle
  /\ Tombstone

\* ... and tombstone_lines takes it, when there are any.
TombstoneLines ==
  /\ mod # Idle
  /\ mod.ids # {} => serial = NoThread /\ ~poisoned
  /\ Tombstone

\* The serial is poisoned, and the moderator's thread panics in its turn;
\* or the log would not take the tombstones.
TombstoneFails ==
  /\ mod.ids # {}
  /\ \/ poisoned /\ UNCHANGED faults
     \/ serial = NoThread /\ ~poisoned /\ Fault
  /\ mod' = Idle
  /\ UNCHANGED <<commitVars, roomVars, gone, purged, forgot>>

\* GUID_WINDOW has passed for the oldest guid.
Expire ==
  /\ Expiring
  /\ recent # <<>>
  /\ recent' = Tail(recent)
  /\ forgot' = forgot \cup {Head(recent).key}
  /\ UNCHANGED <<commitVars, serial, poisoned, log, heard, gone, mod, purged,
                 faults>>

\* The server stops and starts again: of all this only the log is kept.
\* The people it keeps guids for log in again; guests are gone with their
\* sessions.
Restart ==
  /\ Fault
  /\ queue' = <<>>
  /\ leading' = FALSE
  /\ slot' = [l \in Lines |-> IF slot[l] = "none" THEN "none" ELSE "waiting"]
  /\ pc' = AllIdle
  /\ todo' = Empty
  /\ mine' = Empty
  /\ found' = NotFound
  /\ batch' = Empty
  /\ res' = Empty
  /\ serial' = NoThread
  /\ poisoned' = FALSE
  /\ recent' = <<>>
  /\ gone' = {x \in Sessions : SenderOf[x] \notin Kept}
  /\ mod' = Idle
  /\ purged' = {}
  /\ forgot' = forgot \cup KeysIn(recent)
  /\ UNCHANGED <<answer, log, heard>>

-----------------------------------------------------------------------------
ThreadStep(t) ==
  \/ StageUnnamed(t) \/ SignedAnswer(t) \/ SignedMiss(t)
  \/ GuidRemembered(t) \/ GuidForgotten(t) \/ GuidLogged(t) \/ GuidUnlogged(t)
  \/ Recall(t)
  \/ SubmitNothing(t) \/ Submit(t) \/ SetFirst(t)
  \/ Done(t) \/ Lead(t)
  \/ Check(t) \/ CheckPoisoned(t) \/ AppendAll(t) \/ RememberLines(t)
  \/ Relay(t) \/ Relayed(t) \/ Answer(t) \/ HandOn(t)

\* The calls a thread may make: with one line, or with two.
Calls ==
  {<<l>> : l \in Lines} \cup
  {c \in [1..2 -> Lines] : c[1] # c[2]}

Next ==
  \/ \E t \in Threads : \E ls \in Calls : ChatPublic(t, ls)
  \/ \E t \in Threads : ThreadStep(t)
  \/ \E t \in Threads : SignedFails(t) \/ LookupFails(t) \/ LineUnread(t)
  \/ \E t \in Threads : StoreFails(t) \/ CommitPanics(t)
  \/ \E x \in Sessions : Leave(x)
  \/ \E p \in Kept : ChooseSender(p)
  \/ \E i \in 1..Len(log) : ChooseLine(i)
  \/ TombstoneLines \/ TombstoneFails
  \/ Expire
  \/ Restart

Spec == Init /\ [][Next]_vars

-----------------------------------------------------------------------------
\* The threads that hold the lead of the queue, or are to hand it to a line.
Leaders ==
  {t \in Threads : pc[t] \in {"first", "serial", "append", "remember", "relay",
                               "answer", "handon"}}

\* The lines that were handed it.
Leads == {l \in Lines : slot[l] = "lead"}

\* At most one thread leads, and while a line is queued somebody does: a
\* line queued with nobody to lead would be answered by nobody, and nothing
\* behind it would be logged again.  Who is handed the lead is at the head
\* of the queue, and so in its own batch (submit_all, lead).
OneLeader ==
  /\ \A t, u \in Leaders : t = u
  /\ \A l, m \in Leads : l = m
  /\ Leaders = {} \/ Leads = {}
  /\ leading <=> (Leaders # {} \/ Leads # {})
  /\ queue # <<>> => leading
  /\ \A l \in Leads : queue # <<>> /\ Head(queue) = l
  /\ \A t \in Leaders : pc[t] = "first" \/ Head(mine[t]) \in ToSet(batch[t])

\* Readers hear lines in the order of the log, and never a line after its
\* redaction (the serial, held for a batch and for a redaction).
HeardInOrder ==
  \A i, j \in 1..Len(heard) :
    i < j /\ heard[j].kind = "line" =>
      IF heard[i].kind = "line" THEN heard[i].id < heard[j].id
                                ELSE heard[i].id # heard[j].id

\* A line sent again under its guid is heard once, whichever threads send
\* it and however their commits meet: unless the room forgot the guid of a
\* sender the log keeps none for (guid_answer, chat_commit_batch).
HeardOnce ==
  \A i, j \in 1..Len(heard) :
    LET l == log[heard[i].id].line
        m == log[heard[j].id].line
    IN  i < j /\ heard[i].kind = "line" /\ heard[j].kind = "line"
          => l # m /\ (Guid[l] # NoGuid /\ Key(l) = Key(m)
                         => Key(l) \in forgot /\ Sender(l) \notin Kept)

\* An answer is true.  A line answered with an id is the line logged there,
\* and then it was heard, or repeats it; a line that was refused is not in
\* the log.  Only after a panic may a line be there that its sender was
\* told has failed.
AnsweredTruly ==
  \A l \in Lines :
    /\ answer[l].kind = "ok" =>
         /\ answer[l].id \in 1..Len(log)
         /\ \/ /\ log[answer[l].id].line = l
               /\ [kind |-> "line", id |-> answer[l].id] \in ToSet(heard)
            \/ Guid[l] # NoGuid /\ Key(log[answer[l].id].line) = Key(l)
    /\ answer[l].kind \in {"gone", "equivocation", "failed"} =>
         \A i \in 1..Len(log) : log[i].line # l

\* Every call returns, with every line of it answered, whoever leads the
\* commits its lines are in and whether or not they fail or panic.
CallReturns ==
  \A t \in Threads : (pc[t] # "idle") ~> (pc[t] = "idle")

\* A purge of somebody whose session has ended leaves no line of theirs:
\* what the comments on ChatCommit and in chat_commit_batch promise, and
\* what a purge that chooses its lines in the middle of a batch does not
\* keep.
PurgeMissesNothing ==
  \A p \in purged : Undeleted(p) = {}

\* A signed line is answered as the line logged under its guid only if it
\* says the same.
SignedAsLogged ==
  \A l \in Lines :
    answer[l].kind = "ok" /\ Said[l] # "unsigned" =>
      \/ Said[log[answer[l].id].line] = Said[l]
      \/ log[answer[l].id].deleted

\* A line is refused as an equivocation only when a line that says something
\* else was sent under its guid: a retry of a signed line is answered as the
\* line was.
RefusedRightly ==
  \A l \in Lines :
    answer[l].kind = "equivocation" =>
      \E m \in Lines : Key(m) = Key(l) /\ Said[m] # Said[l]

\* The threads are the runtime's and are scheduled; no lock is held across
\* a wait but the serial, across the log's commit.
FairSpec == Spec /\ \A t \in Threads : WF_vars(ThreadStep(t))
=============================================================================
