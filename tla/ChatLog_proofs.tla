--------------------------- MODULE ChatLog_proofs ---------------------------
(***************************************************************************)
(* What the room's readers hear and its senders are told, proved for any   *)
(* threads, lines, guids and faults: CommitInv, the inductive invariant    *)
(* that joins the queue, the batch under way, the log, the memory of guids *)
(* and what was heard, and the theorems that follow from it.               *)
(*                                                                         *)
(* LeadInv (ChatCommit_proofs) says who leads; CommitInv says what the     *)
(* lead's commit has done so far.                                          *)
(***************************************************************************)
EXTENDS ChatCommit_proofs, FiniteSetTheorems, WellFoundedInduction

\* The part of TypeOK that LeadTypeOK leaves.
RoomTypeOK ==
  /\ answer \in [Lines -> Result]
  /\ found \in [Threads -> [id: Nat, said: Said0]]
  /\ res \in [Threads -> Seq(Result)]
  /\ serial \in Threads \cup {NoThread}
  /\ poisoned \in BOOLEAN
  /\ log \in Seq([line: Lines, deleted: BOOLEAN])
  /\ recent \in Seq([key: Keys, id: Nat \ {0}, said: Said0])
  /\ heard \in Seq([kind: {"line", "redacted"}, id: Nat \ {0}])
  /\ gone \subseteq Sessions
  /\ mod \in [ids: SUBSET Nat, whose: SUBSET Kept]
  /\ purged \subseteq Kept
  /\ forgot \subseteq Keys
  /\ faults \in 0..MaxFaults

Committing == {"append", "remember", "relay"}

\* A thread with a batch is at one of these.
Carrying == {"serial", "answer", "handon"} \cup Committing

InLog(l) == \E i \in 1..Len(log) : log[i].line = l

Distinct(s) == \A i, j \in 1..Len(s) : s[i] = s[j] => i = j

\* The line `l` has the guid of the line logged at `id`.
Repeats(l, id) ==
  /\ id \in 1..Len(log)
  /\ Guid[l] # NoGuid /\ Key(log[id].line) = Key(l)

WasHeard(id) == \E h \in 1..Len(heard) : heard[h].kind = "line" /\ heard[h].id = id

\* It was logged at `id` and relayed, or repeats the line that was.
Truthful(l, id) ==
  \/ id \in 1..Len(log) /\ log[id].line = l /\ WasHeard(id)
  \/ Repeats(l, id)

\* No reader heard the line's guid, unless it was forgotten since.
Unheard(l) ==
  Guid[l] # NoGuid =>
    \A h \in 1..Len(heard) :
      heard[h].kind = "line" /\ Key(log[heard[h].id].line) = Key(l)
        => Key(l) \in forgot

Known(key) == key \in forgot \cup KeysIn(recent)

\* The lines a thread is staging were not sent before.
StageInv(t) ==
  pc[t] \in Staging =>
    /\ Distinct(mine[t]) /\ Distinct(todo[t])
    /\ \A i \in 1..Len(mine[t]), j \in 1..Len(todo[t]) : mine[t][i] # todo[t][j]
    /\ \A i \in 1..Len(mine[t]) : answer[mine[t][i]] = NoResult
    /\ \A i \in 1..Len(todo[t]) : answer[todo[t][i]] = NoResult

\* What a thread asks the room about has a guid, and what it found is there.
AskInv(t) ==
  /\ pc[t] \in Asking => Guid[Head(todo[t])] # NoGuid
  /\ pc[t] = "recall" => Repeats(Head(todo[t]), found[t].id)

\* A line in the queue is there once, in no log, and not answered; only a
\* line that was queued is in the log.
QueueInv ==
  /\ Distinct(queue)
  /\ \A i \in 1..Len(queue) : ~InLog(queue[i]) /\ answer[queue[i]] = NoResult
  /\ \A l \in Lines : InLog(l) => slot[l] # "none"

\* So is a line in a batch, until the batch is logged and then answered.
BatchInv(t) ==
  /\ pc[t] \notin Carrying => batch[t] = <<>>
  /\ Distinct(batch[t])
  /\ \A i \in 1..Len(batch[t]), j \in 1..Len(queue) : batch[t][i] # queue[j]
  /\ pc[t] # "handon" =>
       \A i \in 1..Len(batch[t]) : answer[batch[t][i]] = NoResult
  /\ pc[t] \in {"serial", "append"} =>
       \A i \in 1..Len(batch[t]) : ~InLog(batch[t][i])

\* The serial is held by the thread that commits.
SerialInv == \A t \in Threads : pc[t] \in Committing <=> serial = t

\* The kinds of result a batch may have at each place of its commit.
KindsAt(p) ==
  CASE p = "append" -> {"gone", "live", "ok", "equivocation", "repeat"}
    [] p = "remember" -> {"gone", "new", "known", "ok", "equivocation", "repeat"}
    [] p = "relay" -> {"gone", "new", "ok", "equivocation", "repeat"}
    [] OTHER -> {"gone", "ok", "equivocation", "failed", "panicked"}

\* What the result of a batch's i-th line says of it.
LineInv(p, b, r, i) ==
  /\ r[i].kind \in KindsAt(p)
  /\ r[i].kind = "ok" => Truthful(b[i], r[i].id)
  /\ r[i].kind = "known" => Repeats(b[i], r[i].id)
  /\ r[i].kind \in {"gone", "equivocation", "failed", "repeat"} => ~InLog(b[i])
  /\ r[i].kind \in {"live", "new"} => Unheard(b[i])
  /\ r[i].kind = "repeat" =>
       /\ r[i].id \in 1..Len(b)
       /\ Guid[b[i]] # NoGuid /\ Key(b[r[i].id]) = Key(b[i])
       /\ r[r[i].id].kind \in {"gone", "live", "new", "known", "ok"}
  /\ r[i].kind = "new" =>
       /\ r[i].id \in 1..Len(log) /\ log[r[i].id].line = b[i]
       /\ \A h \in 1..Len(heard) : heard[h].id < r[i].id
       /\ p = "relay" /\ Guid[b[i]] # NoGuid => Known(Key(b[i]))

\* New lines have ids in the batch's order, and none the guid of another.
PairInv(b, r, i, j) ==
  /\ r[i].kind = "new" /\ r[j].kind = "new" /\ i < j => r[i].id < r[j].id
  /\ /\ r[i].kind \in {"live", "new"} /\ r[j].kind \in {"live", "new"}
     /\ Guid[b[i]] # NoGuid /\ Key(b[i]) = Key(b[j])
     => i = j

ResOK(p, b, r) ==
  /\ Len(r) = Len(b)
  /\ \A i \in 1..Len(b) : LineInv(p, b, r, i)
  /\ \A i, j \in 1..Len(b) : PairInv(b, r, i, j)

ResInv(t) ==
  pc[t] \in Committing \cup {"answer"} => ResOK(pc[t], batch[t], res[t])

\* A line is in the log once, and so is a guid that the log keeps.
LogInv ==
  \A i, j \in 1..Len(log) :
    LET l == log[i].line
        m == log[j].line
    IN  l = m \/ (Guid[l] # NoGuid /\ Sender(l) \in Kept /\ Key(l) = Key(m))
          => i = j

\* An entry of the memory names a line of the log with its guid.
Backed(e) ==
  /\ e.id \in 1..Len(log)
  /\ Guid[log[e.id].line] # NoGuid /\ Key(log[e.id].line) = e.key

RecentInv == \A k \in 1..Len(recent) : Backed(recent[k])

\* What was heard is in the log, in its order, and the guid of a line heard
\* is remembered until it is forgotten: before it is heard again.
HeardInv ==
  /\ HeardInOrder
  /\ \A h \in 1..Len(heard) :
       /\ heard[h].id \in 1..Len(log)
       /\ heard[h].kind = "line" /\ Guid[log[heard[h].id].line] # NoGuid =>
            Known(Key(log[heard[h].id].line))
  /\ \A i, j \in 1..Len(heard) :
       /\ i < j /\ heard[i].kind = "line" /\ heard[j].kind = "line"
       /\ Guid[log[heard[i].id].line] # NoGuid
       /\ Key(log[heard[i].id].line) = Key(log[heard[j].id].line)
       => Key(log[heard[i].id].line) \in forgot

ModInv == mod.ids \subseteq 1..Len(log)

AnswerInv ==
  \A l \in Lines :
    /\ answer[l].kind = "ok" => Truthful(l, answer[l].id)
    /\ answer[l].kind \in {"gone", "equivocation", "failed"} => ~InLog(l)

CommitInv ==
  /\ RoomTypeOK
  /\ \A t \in Threads : StageInv(t) /\ AskInv(t) /\ BatchInv(t) /\ ResInv(t)
  /\ QueueInv
  /\ SerialInv
  /\ LogInv
  /\ RecentInv
  /\ HeardInv
  /\ ModInv
  /\ AnswerInv

-----------------------------------------------------------------------------
(* Induction, as sets have it: no operator is passed to a theorem.         *)

\* A set of naturals has a least element.
LEMMA LeastNat ==
  ASSUME NEW T \in SUBSET Nat, T # {}
  PROVE  \E x \in T : \A y \in T : x <= y
<1> DEFINE less == {p \in Nat \X Nat : p[1] < p[2]}
<1>1. IsWellFoundedOn(less, Nat)
  BY NatLessThanWellFounded, Zenon DEF OpToRel
<1>2. PICK x \in T : \A y \in T : ~ (<<y, x>> \in less)
  <2> HIDE DEF less
  <2> QED
    BY <1>1, WFMin
<1>3. \A y \in T : ~ (y < x)
  BY <1>2
<1> QED
  BY <1>3

\* A set that holds 0 and the successor of each of its numbers holds them all.
LEMMA Climb ==
  ASSUME NEW S, 0 \in S, \A n \in Nat : n \in S => n + 1 \in S
  PROVE  Nat \subseteq S
<1> SUFFICES ASSUME Nat \ S # {} PROVE FALSE
  OBVIOUS
<1>1. PICK x \in Nat \ S : \A y \in Nat \ S : x <= y
  BY LeastNat
<1>2. x # 0 /\ x - 1 \in Nat /\ x - 1 \in S
  BY <1>1
<1> QED
  BY <1>1, <1>2

-----------------------------------------------------------------------------
(* The room's memory of guids.                                             *)

\* Remembering an entry of E in a memory of entries of E (remember).
LEMMA RememberOne ==
  ASSUME NEW E, NEW m \in Seq(E), NEW e \in E
  PROVE  Remember(m, e) \in Seq(E)
<1>1. CASE m = <<>>
  <2>1. Len(m) = 0 /\ GuidKeep >= 1
    BY <1>1, ChatCommitAssumption
  <2> QED
    BY <1>1, <2>1 DEF Remember
<1>2. CASE m # <<>>
  <2>1. Tail(m) \in Seq(E)
    BY <1>2, TailFacts
  <2> QED
    BY <2>1 DEF Remember
<1> QED
  BY <1>1, <1>2

\* The recursion of Remembering is well defined.
LEMMA RememberingDefined ==
  ASSUME NEW es, NEW N \in Nat
  PROVE  \E g : g = [n \in 0..N |-> IF n = 0 THEN recent ELSE Remember(g[n - 1], es[n])]
<1> DEFINE Is(g, M) == g = [n \in 0..M |-> IF n = 0 THEN recent ELSE Remember(g[n - 1], es[n])]
           S == {M \in Nat : \E g : Is(g, M)}
<1>1. 0 \in S
  <2>1. Is([n \in 0..0 |-> recent], 0)
    OBVIOUS
  <2> QED
    BY <2>1
<1>2. ASSUME NEW M \in Nat, M \in S
      PROVE  M + 1 \in S
  <2>1. PICK g : Is(g, M)
    BY <1>2
  <2> DEFINE h == [n \in 0..(M + 1) |-> IF n = M + 1 THEN Remember(g[M], es[M + 1]) ELSE g[n]]
  <2>2. ASSUME NEW n \in 0..(M + 1)
        PROVE  h[n] = IF n = 0 THEN recent ELSE Remember(h[n - 1], es[n])
    <3>1. CASE n = M + 1
      BY <3>1
    <3>2. CASE n = 0
      BY <3>2, <2>1
    <3>3. CASE n # 0 /\ n # M + 1
      <4>1. n \in 0..M /\ n - 1 \in 0..M /\ n - 1 \in 0..(M + 1) /\ n - 1 # M + 1
        BY <3>3
      <4>2. g[n] = Remember(g[n - 1], es[n])
        BY <4>1, <3>3, <2>1
      <4>3. h[n] = g[n] /\ h[n - 1] = g[n - 1]
        BY <4>1, <3>3
      <4> QED
        BY <4>2, <4>3, <3>3
    <3> QED
      BY <3>1, <3>2, <3>3
  <2>3. h = [n \in 0..(M + 1) |-> IF n = 0 THEN recent ELSE Remember(h[n - 1], es[n])]
    <3>1. h = [n \in 0..(M + 1) |-> h[n]]
      OBVIOUS
    <3> HIDE DEF h
    <3> QED
      BY <3>1, <2>2
  <2>4. M + 1 \in Nat /\ Is(h, M + 1)
    BY <2>3
  <2> HIDE DEF h, Is
  <2> QED
    BY <2>4
<1>3. Nat \subseteq S
  <2> HIDE DEF S
  <2> QED
    BY <1>1, <1>2, Climb
<1> QED
  BY <1>3

\* A memory of entries of E stays one, whatever of E is remembered in turn.
LEMMA RememberingFacts ==
  ASSUME NEW E, recent \in Seq(E), NEW es \in Seq(E)
  PROVE  Remembering(es) \in Seq(E)
<1> DEFINE Is(g) == g = [n \in 0..Len(es) |-> IF n = 0 THEN recent ELSE Remember(g[n - 1], es[n])]
           memory == CHOOSE g : Is(g)
           S == {n \in Nat : n <= Len(es) => memory[n] \in Seq(E)}
<1>1. Len(es) \in Nat
  OBVIOUS
<1>2. \E g : Is(g)
  BY <1>1, RememberingDefined
<1>3. Is(memory)
  <2> HIDE DEF Is
  <2> QED
    BY <1>2
<1>4. Remembering(es) = memory[Len(es)]
  BY Zenon DEF Remembering
<1>5. /\ memory[0] = recent
      /\ \A n \in 1..Len(es) : memory[n] = Remember(memory[n - 1], es[n])
  <2> HIDE DEF memory
  <2> QED
    BY <1>1, <1>3
<1> HIDE DEF memory
<1>6. 0 \in S
  BY <1>5
<1>7. ASSUME NEW n \in Nat, n \in S
      PROVE  n + 1 \in S
  <2> SUFFICES ASSUME n + 1 <= Len(es) PROVE memory[n + 1] \in Seq(E)
    OBVIOUS
  <2>1. n + 1 \in 1..Len(es) /\ (n + 1) - 1 = n /\ memory[n] \in Seq(E)
    BY <1>1, <1>7
  <2>2. memory[n + 1] = Remember(memory[n], es[n + 1]) /\ es[n + 1] \in E
    BY <1>5, <2>1
  <2> QED
    BY <2>1, <2>2, RememberOne
<1>8. Nat \subseteq S
  <2> HIDE DEF S
  <2> QED
    BY <1>6, <1>7, Climb
<1> QED
  BY <1>1, <1>4, <1>8
-----------------------------------------------------------------------------
(* What every step may rely on.                                            *)

\* Nothing was sent, logged or heard at the start.
LEMMA CommitInit == ASSUME Init PROVE CommitInv
<1>0. <<>> \in Seq(Result) /\ NoResult \in Result
  BY DEF Result, NoResult, R, Kinds
<1>1. RoomTypeOK
  <2>1. /\ answer \in [Lines -> Result]
        /\ res \in [Threads -> Seq(Result)]
    BY <1>0 DEF Init, Empty
  <2>2. found \in [Threads -> [id: Nat, said: Said0]]
    BY DEF Init, NotFound, Said0
  <2>3. serial \in Threads \cup {NoThread} /\ poisoned \in BOOLEAN
    BY DEF Init
  <2>4. /\ log \in Seq([line: Lines, deleted: BOOLEAN])
        /\ recent \in Seq([key: Keys, id: Nat \ {0}, said: Said0])
        /\ heard \in Seq([kind: {"line", "redacted"}, id: Nat \ {0}])
    BY DEF Init
  <2>5. mod \in [ids: SUBSET Nat, whose: SUBSET Kept]
    BY DEF Init, Idle
  <2>6. gone \subseteq Sessions /\ purged \subseteq Kept /\ forgot \subseteq Keys
    BY DEF Init
  <2>7. faults \in 0..MaxFaults
    BY ChatCommitAssumption DEF Init
  <2> QED
    BY <2>1, <2>2, <2>3, <2>4, <2>5, <2>6, <2>7 DEF RoomTypeOK
<1>2. \A t \in Threads : StageInv(t) /\ AskInv(t) /\ BatchInv(t) /\ ResInv(t)
  BY DEF Init, StageInv, AskInv, BatchInv, ResInv, Staging, Asking, Committing,
         AllIdle, Empty, Distinct
<1>3. QueueInv
  BY DEF Init, QueueInv, Distinct, InLog
<1>4. SerialInv
  BY ChatCommitAssumption DEF Init, SerialInv, Committing, AllIdle
<1>5. LogInv /\ RecentInv /\ HeardInv
  BY DEF Init, LogInv, RecentInv, HeardInv, HeardInOrder
<1>6. ModInv
  BY DEF Init, ModInv, Idle
<1>7. AnswerInv
  BY DEF Init, AnswerInv, NoResult, R
<1> QED
  BY <1>1, <1>2, <1>3, <1>4, <1>5, <1>6, <1>7 DEF CommitInv

\* The results of a batch stay true while its log and what was heard do, and
\* no guid is lost without being forgotten.
LEMMA ResKept ==
  ASSUME UNCHANGED <<log, heard>>, forgot \subseteq forgot',
         \A key : Known(key) => Known(key)',
         NEW p, NEW b, NEW r, ResOK(p, b, r)
  PROVE  ResOK(p, b, r)'
<1>1. \A l, id : /\ Truthful(l, id) <=> Truthful(l, id)'
                 /\ Repeats(l, id) <=> Repeats(l, id)'
                 /\ InLog(l) <=> InLog(l)'
  BY DEF Truthful, Repeats, InLog, WasHeard, Key, Sender
<1>2. \A l : Unheard(l) => Unheard(l)'
  BY DEF Unheard, Key, Sender
<1>3. \A i \in 1..Len(b) : LineInv(p, b, r, i) => LineInv(p, b, r, i)'
  BY <1>1, <1>2 DEF LineInv, KindsAt, Key, Sender
<1>4. \A i, j \in 1..Len(b) : PairInv(b, r, i, j) => PairInv(b, r, i, j)'
  BY DEF PairInv, Key, Sender
<1> QED
  BY <1>3, <1>4 DEF ResOK

\* What was heard stays in order and known.
LEMMA HeardKept ==
  ASSUME HeardInv, UNCHANGED heard, Len(log') >= Len(log), Len(log) \in Nat, Len(log') \in Nat,
         \A i \in 1..Len(log) : log'[i].line = log[i].line,
         forgot \subseteq forgot', \A key : Known(key) => Known(key)'
  PROVE  HeardInv'
<1>1. HeardInOrder'
  BY DEF HeardInv, HeardInOrder
<1>2. \A h \in 1..Len(heard) : heard[h].id \in 1..Len(log) /\ heard[h].id \in 1..Len(log')
  BY DEF HeardInv
<1>3. \A h \in 1..Len(heard) : log'[heard[h].id].line = log[heard[h].id].line
  BY <1>2
<1>4. \A h \in 1..Len(heard) :
        heard[h].kind = "line" /\ Guid[log[heard[h].id].line] # NoGuid =>
            Known(Key(log[heard[h].id].line))'
  BY <1>3 DEF HeardInv, Key, Sender
<1>5. \A i, j \in 1..Len(heard) :
        /\ i < j /\ heard[i].kind = "line" /\ heard[j].kind = "line"
        /\ Guid[log'[heard[i].id].line] # NoGuid
        /\ Key(log'[heard[i].id].line) = Key(log'[heard[j].id].line)
        => Key(log'[heard[i].id].line) \in forgot'
  BY <1>3 DEF HeardInv
<1>6. \A l : Key(l)' = Key(l)
  BY DEF Key, Sender
<1> QED
  BY <1>1, <1>2, <1>3, <1>4, <1>5, <1>6 DEF HeardInv

\* A step in which thread `t` asks about a line, stages it or answers it.
LEMMA StagedStep ==
  ASSUME LeadInv, LeadInv', CommitInv, NEW t \in Threads,
         NEW a \in Staging \cup {"idle"},
         pc[t] \in Staging \cup {"idle"}, pc' = [pc EXCEPT ![t] = a],
         UNCHANGED <<queue, slot, batch, res, serial, log, heard, mod>>,
         RoomTypeOK', RecentInv', forgot \subseteq forgot',
         \A key : Known(key) => Known(key)',
         \A u \in Threads : u # t =>
           mine'[u] = mine[u] /\ todo'[u] = todo[u] /\ found'[u] = found[u],
         \A l \in Lines : ThreadOf[l] # t \/ slot[l] # "none" => answer'[l] = answer[l],
         StageInv(t)', AskInv(t)', AnswerInv'
  PROVE  CommitInv'
<1> USE DEF CommitInv
<1>1. pc \in [Threads -> PCs] /\ pc'[t] = a /\ \A u \in Threads : u # t => pc'[u] = pc[u]
  BY DEF LeadInv, LeadTypeOK
<1>2. \A i \in 1..Len(queue) : queue[i] \in Lines /\ slot[queue[i]] # "none"
  BY DEF LeadInv, LeadTypeOK, SlotInv
<1>3. \A u \in Threads : \A i \in 1..Len(batch[u]) :
        batch[u][i] \in Lines /\ slot[batch[u][i]] # "none"
  BY DEF LeadInv, LeadTypeOK, SlotInv
<1>4. \A l : InLog(l) <=> InLog(l)'
  BY DEF InLog
<1>5. QueueInv'
  BY <1>2, <1>4 DEF QueueInv, Distinct
<1>6. ASSUME NEW u \in Threads PROVE BatchInv(u)'
  <2>1. pc[u] \notin Carrying => batch[u] = <<>>
    BY DEF BatchInv
  <2>2. pc'[u] \notin Carrying => pc[u] \notin Carrying
    BY <1>1 DEF Carrying, Committing, Staging, Asking
  <2>3. /\ pc'[u] # "handon" => pc[u] # "handon"
        /\ pc'[u] \in {"serial", "append"} => pc[u] \in {"serial", "append"}
    BY <1>1 DEF Staging, Asking
  <2>4. \A i \in 1..Len(batch[u]) : answer'[batch[u][i]] = answer[batch[u][i]]
    BY <1>3
  <2> QED
    BY <2>1, <2>2, <2>3, <2>4, <1>4 DEF BatchInv, Distinct
<1>7. SerialInv'
  BY <1>1 DEF SerialInv, Committing, Staging, Asking
<1>8. ASSUME NEW u \in Threads PROVE ResInv(u)'
  <2>1. CASE u = t
    BY <2>1, <1>1 DEF ResInv, Committing, Staging, Asking
  <2>2. CASE u # t
    BY <2>2, <1>1, ResKept DEF ResInv, Committing
  <2> QED
    BY <2>1, <2>2
<1>9. LogInv' /\ ModInv'
  BY DEF LogInv, ModInv, Key, Sender
<1>10. HeardInv'
  BY HeardKept DEF RoomTypeOK
<1>11. ASSUME NEW u \in Threads PROVE StageInv(u)' /\ AskInv(u)'
  <2>1. CASE u = t
    BY <2>1
  <2>2. CASE u # t
    <3>1. /\ \A i \in 1..Len(mine[u]) : mine[u][i] \in Lines /\ ThreadOf[mine[u][i]] = u
          /\ \A i \in 1..Len(todo[u]) : todo[u][i] \in Lines /\ ThreadOf[todo[u][i]] = u
      BY DEF LeadInv, LeadTypeOK, MineInv
    <3>2. StageInv(u)'
      <4>1. mine'[u] = mine[u] /\ todo'[u] = todo[u] /\ pc'[u] = pc[u]
        BY <2>2, <1>1
      <4>2. /\ \A i \in 1..Len(mine[u]) : answer'[mine[u][i]] = answer[mine[u][i]]
            /\ \A i \in 1..Len(todo[u]) : answer'[todo[u][i]] = answer[todo[u][i]]
        BY <2>2, <3>1
      <4>3. StageInv(u)
        OBVIOUS
      <4> QED
        BY SMTT(30), <4>1, <4>2, <4>3 DEF StageInv, Distinct
    <3>3. AskInv(u)'
      BY <2>2, <1>1 DEF AskInv, Repeats, Key, Sender
    <3> QED
      BY <3>2, <3>3
  <2> QED
    BY <2>1, <2>2
<1> QED
  BY <1>5, <1>6, <1>7, <1>8, <1>9, <1>10, <1>11
-----------------------------------------------------------------------------
(* A line at hand is answered, staged or asked about (chat_public_lines).  *)

\* The tail of a sequence has nothing twice if the sequence has not, and
\* not its head.
LEMMA TailDistinct ==
  ASSUME NEW S, NEW s \in Seq(S), s # <<>>, Distinct(s)
  PROVE  /\ Distinct(Tail(s))
         /\ \A i \in 1..Len(Tail(s)) : Tail(s)[i] # Head(s)
<1>1. /\ Len(s) \in Nat /\ Len(s) >= 1 /\ Head(s) = s[1] /\ Len(Tail(s)) = Len(s) - 1
      /\ \A i \in 1..Len(Tail(s)) : i + 1 \in 1..Len(s) /\ Tail(s)[i] = s[i + 1]
  BY TailFacts
<1>2. 1 \in 1..Len(s)
  BY <1>1
<1>3. ASSUME NEW i \in 1..Len(Tail(s)) PROVE Tail(s)[i] # Head(s)
  BY <1>1, <1>2 DEF Distinct
<1>4. ASSUME NEW i \in 1..Len(Tail(s)), NEW j \in 1..Len(Tail(s)), Tail(s)[i] = Tail(s)[j]
      PROVE  i = j
  BY <1>1, <1>4 DEF Distinct
<1> QED
  BY <1>3, <1>4 DEF Distinct

\* A line that is still staged has no slot, and so is not in the log.
LEMMA StagedUnlogged ==
  ASSUME LeadInv, CommitInv, NEW t \in Threads, pc[t] \in Staging, todo[t] # <<>>
  PROVE  /\ Head(todo[t]) \in Lines /\ Head(todo[t]) = todo[t][1] /\ 1 \in 1..Len(todo[t])
         /\ slot[Head(todo[t])] = "none" /\ ThreadOf[Head(todo[t])] = t
         /\ ~InLog(Head(todo[t]))
         /\ answer[Head(todo[t])] = NoResult
<1>1. todo[t] \in Seq(Lines)
  BY DEF LeadInv, LeadTypeOK
<1>2. Head(todo[t]) \in Lines /\ Head(todo[t]) = todo[t][1] /\ 1 \in 1..Len(todo[t])
  BY <1>1, TailFacts
<1>3. slot[Head(todo[t])] = "none" /\ ThreadOf[Head(todo[t])] = t
  BY <1>2 DEF LeadInv, MineInv
<1> QED
  BY <1>2, <1>3 DEF CommitInv, QueueInv, StageInv

\* AnswerNow, whatever the memory does meanwhile.
LEMMA AnswerNowKeeps ==
  ASSUME LeadInv, LeadInv', CommitInv, NEW t \in Threads, NEW r \in Result,
         pc[t] \in Staging, todo[t] # <<>>, AnswerNow(t, r),
         r.kind \in {"ok", "gone", "equivocation", "failed"},
         r.kind = "ok" => Repeats(Head(todo[t]), r.id),
         UNCHANGED <<queue, slot, batch, res, serial, poisoned, log, heard, mod, found,
                     gone, purged>>,
         recent' \in Seq([key: Keys, id: Nat \ {0}, said: Said0]), RecentInv',
         forgot' \subseteq Keys, forgot \subseteq forgot', faults' \in 0..MaxFaults,
         \A key : Known(key) => Known(key)'
  PROVE  CommitInv'
<1> DEFINE l == Head(todo[t])
<1>1. /\ l \in Lines /\ l = todo[t][1] /\ slot[l] = "none" /\ ThreadOf[l] = t
      /\ ~InLog(l) /\ 1 \in 1..Len(todo[t])
  BY StagedUnlogged
<1>2. /\ answer \in [Lines -> Result] /\ answer' = [answer EXCEPT ![l] = r]
      /\ todo' = [todo EXCEPT ![t] = Tail(todo[t])] /\ mine' = mine
      /\ pc' = [pc EXCEPT ![t] = "stage"]
  BY DEF AnswerNow, Goto, CommitInv, RoomTypeOK
<1>3. RoomTypeOK'
  <2>1. answer' \in [Lines -> Result]
    BY <1>1, <1>2
  <2> QED
    BY <2>1 DEF CommitInv, RoomTypeOK
<1>4. todo \in [Threads -> Seq(Lines)] /\ mine \in [Threads -> Seq(Lines)]
      /\ pc \in [Threads -> PCs]
  BY DEF LeadInv, LeadTypeOK
<1>5. StageInv(t)'
  <2>1. /\ Distinct(mine[t]) /\ Distinct(todo[t])
        /\ \A i \in 1..Len(mine[t]), j \in 1..Len(todo[t]) : mine[t][i] # todo[t][j]
        /\ \A i \in 1..Len(mine[t]) : answer[mine[t][i]] = NoResult
        /\ \A i \in 1..Len(todo[t]) : answer[todo[t][i]] = NoResult
    BY DEF CommitInv, StageInv
  <2>2. /\ Distinct(Tail(todo[t]))
        /\ \A i \in 1..Len(Tail(todo[t])) : Tail(todo[t])[i] # l
    BY <1>4, <2>1, TailDistinct
  <2>3. \A i \in 1..Len(Tail(todo[t])) : i + 1 \in 1..Len(todo[t]) /\ Tail(todo[t])[i] = todo[t][i + 1]
    BY <1>4, TailFacts
  <2>4. todo'[t] = Tail(todo[t]) /\ mine'[t] = mine[t]
    BY <1>2, <1>4
  <2>5. \A i \in 1..Len(Tail(todo[t])) : answer'[Tail(todo[t])[i]] = NoResult
    <3>1. \A i \in 1..Len(Tail(todo[t])) : Tail(todo[t])[i] \in Lines
      BY <1>4, <2>3
    <3> QED
      BY <1>2, <2>1, <2>2, <2>3, <3>1
  <2>6. \A i \in 1..Len(mine[t]) : answer'[mine[t][i]] = NoResult
    <3>1. \A i \in 1..Len(mine[t]) : mine[t][i] \in Lines /\ mine[t][i] # l
      BY <1>4, <2>1, <1>1
    <3> QED
      BY <3>1, <1>2, <2>1
  <2>7. \A i \in 1..Len(mine[t]), j \in 1..Len(Tail(todo[t])) : mine[t][i] # Tail(todo[t])[j]
    BY <2>1, <2>3
  <2> QED
    BY <2>1, <2>2, <2>4, <2>5, <2>6, <2>7 DEF StageInv
<1>6. AskInv(t)'
  BY <1>2, <1>4 DEF AskInv, Asking
<1>7. AnswerInv'
  <2>1. \A m, id : /\ Truthful(m, id) <=> Truthful(m, id)'
                   /\ InLog(m) <=> InLog(m)'
    BY DEF Truthful, Repeats, WasHeard, InLog, Key, Sender
  <2>2. answer'[l] = r /\ \A m \in Lines : m # l => answer'[m] = answer[m]
    BY <1>1, <1>2
  <2>3. r.kind = "ok" => Truthful(l, r.id)
    BY DEF Truthful
  <2> QED
    BY <1>1, <2>1, <2>2, <2>3 DEF CommitInv, AnswerInv
<1>8. \A m \in Lines : ThreadOf[m] # t \/ slot[m] # "none" => answer'[m] = answer[m]
  BY <1>1, <1>2
<1>9. \A u \in Threads : u # t =>
           mine'[u] = mine[u] /\ todo'[u] = todo[u] /\ found'[u] = found[u]
  BY <1>2, <1>4
<1> HIDE DEF l
<1> QED
  BY <1>2, <1>3, <1>5, <1>6, <1>7, <1>8, <1>9, StagedStep DEF Staging

\* A thread goes on to ask about the line at hand, or returns.
LEMMA AskedKeeps ==
  ASSUME LeadInv, LeadInv', CommitInv, NEW t \in Threads, NEW a \in Staging \cup {"idle"},
         pc[t] \in Staging, pc' = [pc EXCEPT ![t] = a],
         UNCHANGED <<queue, slot, batch, res, serial, poisoned, log, heard, mod,
                     gone, purged, recent, forgot, answer, mine, todo>>,
         faults' \in 0..MaxFaults,
         found' \in [Threads -> [id: Nat, said: Said0]],
         \A u \in Threads : u # t => found'[u] = found[u],
         AskInv(t)'
  PROVE  CommitInv'
<1>1. RoomTypeOK'
  BY DEF CommitInv, RoomTypeOK
<1>2. RecentInv' /\ AnswerInv'
  BY DEF CommitInv, RecentInv, Backed, AnswerInv, Truthful, Repeats, WasHeard, InLog,
         Key, Sender
<1>3. pc'[t] = a
  BY DEF LeadInv, LeadTypeOK
<1>4. StageInv(t)'
  BY <1>3 DEF CommitInv, StageInv, Distinct
<1>5. \A key : Known(key) => Known(key)'
  BY DEF Known, KeysIn
<1> QED
  BY <1>1, <1>2, <1>4, <1>5, StagedStep

\* A line appended to a sequence that has not got it.
LEMMA AppendDistinct ==
  ASSUME NEW S, NEW s \in Seq(S), NEW e \in S, Distinct(s),
         \A i \in 1..Len(s) : s[i] # e
  PROVE  /\ Distinct(Append(s, e)) /\ Append(s, e) \in Seq(S)
         /\ \A i \in 1..Len(Append(s, e)) :
              Append(s, e)[i] = e \/ \E j \in 1..Len(s) : Append(s, e)[i] = s[j]
<1>1. /\ Append(s, e) \in Seq(S) /\ Len(s) \in Nat /\ Len(Append(s, e)) = Len(s) + 1
      /\ \A i \in 1..Len(s) : Append(s, e)[i] = s[i]
      /\ Append(s, e)[Len(s) + 1] = e
  OBVIOUS
<1>2. \A i \in 1..Len(Append(s, e)) : i \in 1..Len(s) \/ i = Len(s) + 1
  BY <1>1
<1>3. Distinct(Append(s, e))
  BY <1>1, <1>2 DEF Distinct
<1> QED
  BY <1>1, <1>2, <1>3

\* Stage, of a line whose session is still there.
LEMMA StageOneKeeps ==
  ASSUME LeadInv, LeadInv', CommitInv, NEW t \in Threads,
         pc[t] \in Staging, todo[t] # <<>>,
         pc' = [pc EXCEPT ![t] = "stage"],
         todo' = [todo EXCEPT ![t] = Tail(todo[t])],
         mine' = [mine EXCEPT ![t] = Append(mine[t], Head(todo[t]))],
         UNCHANGED <<queue, slot, batch, res, serial, poisoned, log, heard, mod,
                     gone, purged, recent, forgot, answer, found>>,
         faults' \in 0..MaxFaults
  PROVE  CommitInv'
<1> DEFINE l == Head(todo[t])
<1>1. /\ l \in Lines /\ l = todo[t][1] /\ 1 \in 1..Len(todo[t])
      /\ answer[l] = NoResult
  BY StagedUnlogged
<1>2. RoomTypeOK'
  BY DEF CommitInv, RoomTypeOK
<1>3. RecentInv' /\ AnswerInv'
  BY DEF CommitInv, RecentInv, Backed, AnswerInv, Truthful, Repeats, WasHeard, InLog,
         Key, Sender
<1>4. todo \in [Threads -> Seq(Lines)] /\ mine \in [Threads -> Seq(Lines)]
      /\ pc \in [Threads -> PCs]
  BY DEF LeadInv, LeadTypeOK
<1>5. AskInv(t)'
  BY <1>4 DEF AskInv, Asking
<1>6. StageInv(t)'
  <2>1. /\ Distinct(mine[t]) /\ Distinct(todo[t])
        /\ \A i \in 1..Len(mine[t]), j \in 1..Len(todo[t]) : mine[t][i] # todo[t][j]
        /\ \A i \in 1..Len(mine[t]) : answer[mine[t][i]] = NoResult
        /\ \A i \in 1..Len(todo[t]) : answer[todo[t][i]] = NoResult
    BY DEF CommitInv, StageInv
  <2>2. /\ Distinct(Tail(todo[t]))
        /\ \A i \in 1..Len(Tail(todo[t])) : Tail(todo[t])[i] # l
    BY <1>4, <2>1, TailDistinct
  <2>3. \A i \in 1..Len(Tail(todo[t])) : i + 1 \in 1..Len(todo[t]) /\ Tail(todo[t])[i] = todo[t][i + 1]
    BY <1>4, TailFacts
  <2>4. todo'[t] = Tail(todo[t]) /\ mine'[t] = Append(mine[t], l)
    BY <1>4
  <2>5. \A i \in 1..Len(mine[t]) : mine[t][i] # l
    BY <1>1, <2>1
  <2> DEFINE now == Append(mine[t], l)
  <2>6. /\ Distinct(now)
        /\ \A i \in 1..Len(now) : now[i] = l \/ \E j \in 1..Len(mine[t]) : now[i] = mine[t][j]
    <3> HIDE DEF l
    <3>1. mine[t] \in Seq(Lines) /\ l \in Lines
      BY <1>1, <1>4
    <3> QED
      BY <3>1, <2>1, <2>5, AppendDistinct
  <2> HIDE DEF now, l
  <2>7. \A i \in 1..Len(now) : answer[now[i]] = NoResult
    BY <2>6, <1>1, <2>1
  <2>8. \A i \in 1..Len(now), j \in 1..Len(Tail(todo[t])) : now[i] # Tail(todo[t])[j]
    BY <2>1, <2>2, <2>3, <2>6
  <2>9. \A j \in 1..Len(Tail(todo[t])) : answer[Tail(todo[t])[j]] = NoResult
    BY <2>1, <2>3
  <2>10. mine'[t] = now /\ todo'[t] = Tail(todo[t])
    BY <2>4 DEF now
  <2>11. answer' = answer
    OBVIOUS
  <2>12. Distinct(mine'[t]) /\ Distinct(todo'[t])
    BY <2>2, <2>6, <2>10
  <2>13. \A i \in 1..Len(mine'[t]), j \in 1..Len(todo'[t]) : mine'[t][i] # todo'[t][j]
    BY ONLY <2>8, <2>10
  <2>14. /\ \A i \in 1..Len(mine'[t]) : answer'[mine'[t][i]] = NoResult
         /\ \A i \in 1..Len(todo'[t]) : answer'[todo'[t][i]] = NoResult
    BY <2>7, <2>9, <2>10, <2>11
  <2> QED
    BY <2>12, <2>13, <2>14 DEF StageInv
<1>7. \A key : Known(key) => Known(key)'
  BY DEF Known, KeysIn
<1>8. \A u \in Threads : u # t =>
           mine'[u] = mine[u] /\ todo'[u] = todo[u] /\ found'[u] = found[u]
  BY <1>4
<1> QED
  BY <1>2, <1>3, <1>5, <1>6, <1>7, <1>8, StagedStep DEF Staging
\* The answer to a repeat.
LEMMA RepeatOfFacts ==
  ASSUME NEW l, NEW id \in Nat, NEW was
  PROVE  /\ RepeatOf(id, was, l) \in Result
         /\ RepeatOf(id, was, l).kind \in {"ok", "equivocation"}
         /\ RepeatOf(id, was, l).kind = "ok" => RepeatOf(id, was, l).id = id
BY DEF RepeatOf, R, Result, Kinds

Entries == [key: Keys, id: Nat \ {0}, said: Said0]

\* RememberAll, of entries that name lines of the log: they are remembered,
\* or forgotten again at once.
LEMMA RememberAllKeeps ==
  ASSUME CommitInv, NEW es \in Seq(Entries), \A n \in 1..Len(es) : Backed(es[n]),
         RememberAll(es), UNCHANGED log
  PROVE  /\ recent' \in Seq(Entries) /\ RecentInv'
         /\ forgot' \subseteq Keys /\ forgot \subseteq forgot'
         /\ \A key : Known(key) => Known(key)'
         /\ \A n \in 1..Len(es) : Known(es[n].key)'
<1> DEFINE E == {e \in Entries : Backed(e)}
           now == Remembering(es)
<1>1. recent \in Seq(Entries) /\ \A k \in 1..Len(recent) : Backed(recent[k])
  BY DEF CommitInv, RoomTypeOK, Entries, RecentInv
<1>2. \A s \in Seq(Entries) : (\A k \in 1..Len(s) : Backed(s[k])) => s \in Seq(E)
  <2> SUFFICES ASSUME NEW s \in Seq(Entries), \A k \in 1..Len(s) : Backed(s[k])
               PROVE  s \in Seq(E)
    OBVIOUS
  <2>1. Len(s) \in Nat /\ s \in [1..Len(s) -> Entries]
    OBVIOUS
  <2>2. \A k \in 1..Len(s) : s[k] \in E
    BY <2>1
  <2> HIDE DEF E
  <2>3. s \in [1..Len(s) -> E]
    BY <2>1, <2>2
  <2> QED
    BY <2>1, <2>3, SeqDef
<1>3. recent \in Seq(E) /\ es \in Seq(E)
  BY <1>1, <1>2
<1>4. now \in Seq(E)
  <2> HIDE DEF E
  <2> QED
    BY <1>3, RememberingFacts
<1>5. \A k \in 1..Len(now) : now[k] \in E
  <2> HIDE DEF E, now
  <2> QED
    BY <1>4
<1>6. recent' = now /\ forgot' = forgot \cup ((KeysIn(recent) \cup KeysIn(es)) \ KeysIn(now))
  BY DEF RememberAll
<1> HIDE DEF now
<1>7. now \in Seq(Entries)
  <2>1. Len(now) \in Nat /\ now \in [1..Len(now) -> E]
    <3> HIDE DEF E
    <3> QED
      BY <1>4
  <2>2. now \in [1..Len(now) -> Entries]
    BY <2>1
  <2> QED
    BY <2>1, <2>2, SeqDef
<1>8. RecentInv'
  BY <1>5, <1>6 DEF RecentInv, Backed, Key, Sender
<1>9. \A x \in Seq(Entries) : KeysIn(x) \subseteq Keys
  <2> SUFFICES ASSUME NEW x \in Seq(Entries), NEW i \in 1..Len(x)
               PROVE  x[i].key \in Keys
    BY DEF KeysIn
  <2>1. x[i] \in Entries
    OBVIOUS
  <2> QED
    BY <2>1 DEF Entries
<1>10. forgot' \subseteq Keys
  BY <1>1, <1>6, <1>9 DEF CommitInv, RoomTypeOK
<1>11. forgot \subseteq forgot'
  BY <1>6
<1>12. \A key : key \in KeysIn(recent) \cup KeysIn(es) => Known(key)'
  BY <1>6 DEF Known, KeysIn
<1>13. \A key : Known(key) => Known(key)'
  BY <1>11, <1>12 DEF Known
<1>14. \A n \in 1..Len(es) : Known(es[n].key)'
  <2>1. \A n \in 1..Len(es) : es[n].key \in KeysIn(es)
    BY DEF KeysIn
  <2> QED
    BY <1>12, <2>1
<1> QED
  BY <1>6, <1>7, <1>8, <1>10, <1>11, <1>13, <1>14

\* A line whose session has ended is told so; another is staged.
LEMMA StageStep ==
  ASSUME LeadInv, LeadInv', CommitInv, NEW t \in Threads,
         pc[t] \in Staging, todo[t] # <<>>, Stage(t),
         UNCHANGED <<queue, slot, batch, res, serial, poisoned, log, heard, mod,
                     gone, purged, recent, forgot, found>>,
         faults' \in 0..MaxFaults
  PROVE  CommitInv'
<1>1. CASE AnswerNow(t, R("gone", 0))
  <2>1. R("gone", 0) \in Result /\ R("gone", 0).kind = "gone"
    BY DEF R, Result, Kinds
  <2>2. /\ recent' \in Seq([key: Keys, id: Nat \ {0}, said: Said0]) /\ RecentInv'
        /\ forgot' \subseteq Keys /\ forgot \subseteq forgot'
        /\ \A key : Known(key) => Known(key)'
    BY DEF CommitInv, RoomTypeOK, RecentInv, Backed, Known, KeysIn, Key, Sender
  <2> QED
    BY <1>1, <2>1, <2>2, AnswerNowKeeps
<1>2. CASE ~AnswerNow(t, R("gone", 0))
  <2>1. /\ pc' = [pc EXCEPT ![t] = "stage"]
        /\ todo' = [todo EXCEPT ![t] = Tail(todo[t])]
        /\ mine' = [mine EXCEPT ![t] = Append(mine[t], Head(todo[t]))]
        /\ answer' = answer
    BY <1>2 DEF Stage, Goto
  <2> QED
    BY <2>1, StageOneKeeps
<1> QED
  BY <1>1, <1>2

\* A line is answered as a repeat of one the log has.
LEMMA RepeatStep ==
  ASSUME LeadInv, LeadInv', CommitInv, NEW t \in Threads, NEW id, NEW was,
         pc[t] \in Staging, todo[t] # <<>>, Repeats(Head(todo[t]), id),
         AnswerNow(t, RepeatOf(id, was, Head(todo[t]))),
         UNCHANGED <<queue, slot, batch, res, serial, poisoned, log, heard, mod,
                     gone, purged, found, faults>>,
         \/ UNCHANGED <<recent, forgot>>
         \/ \E es \in Seq(Entries) :
              RememberAll(es) /\ \A n \in 1..Len(es) : Backed(es[n])
  PROVE  CommitInv'
<1>1. id \in Nat
  BY DEF Repeats, CommitInv, RoomTypeOK
<1>2. /\ recent' \in Seq([key: Keys, id: Nat \ {0}, said: Said0]) /\ RecentInv'
      /\ forgot' \subseteq Keys /\ forgot \subseteq forgot'
      /\ \A key : Known(key) => Known(key)'
  <2>1. CASE UNCHANGED <<recent, forgot>>
    BY <2>1 DEF CommitInv, RoomTypeOK, RecentInv, Backed, Known, KeysIn, Key, Sender
  <2>2. ASSUME NEW es \in Seq(Entries), RememberAll(es),
               \A n \in 1..Len(es) : Backed(es[n])
        PROVE  <1>2!:
    BY <2>2, RememberAllKeeps DEF Entries
  <2> QED
    BY <2>1, <2>2
<1>3. faults' \in 0..MaxFaults
  BY DEF CommitInv, RoomTypeOK
<1> DEFINE r == RepeatOf(id, was, Head(todo[t]))
<1>4. r \in Result /\ r.kind \in {"ok", "equivocation"} /\ (r.kind = "ok" => r.id = id)
  BY <1>1, RepeatOfFacts
<1> HIDE DEF r
<1>5. AnswerNow(t, r)
  BY DEF r
<1>6. r.kind \in {"ok", "gone", "equivocation", "failed"}
  BY <1>4
<1>7. r.kind = "ok" => Repeats(Head(todo[t]), r.id)
  BY <1>4
<1> QED
  BY <1>2, <1>3, <1>4, <1>5, <1>6, <1>7, AnswerNowKeeps
\* A line the memory has, or the log, is a repeat of what is logged there.
LEMMA FoundRepeats ==
  ASSUME CommitInv, NEW l \in Lines, Guid[l] # NoGuid
  PROVE  /\ Remembered(Key(l)) => Repeats(l, Memory(Key(l)).id)
         /\ \A i \in Logged(l) : Repeats(l, i)
         /\ SignedAt(l) \subseteq Logged(l)
<1>1. ASSUME Remembered(Key(l)) PROVE Repeats(l, Memory(Key(l)).id)
  <2>1. PICK i \in 1..Len(recent) : recent[i].key = Key(l)
    BY <1>1 DEF Remembered
  <2> DEFINE k == CHOOSE j \in 1..Len(recent) : recent[j].key = Key(l)
  <2>2. k \in 1..Len(recent) /\ recent[k].key = Key(l)
    BY <2>1
  <2>3. Memory(Key(l)) = recent[k]
    BY DEF Memory
  <2> HIDE DEF k
  <2>4. Backed(recent[k])
    BY <2>2 DEF CommitInv, RecentInv
  <2> QED
    BY <2>2, <2>3, <2>4 DEF Backed, Repeats
<1>2. \A i \in Logged(l) : Repeats(l, i)
  BY DEF Logged, Repeats
<1>3. SignedAt(l) \subseteq Logged(l)
  BY DEF SignedAt
<1> QED
  BY <1>1, <1>2, <1>3

\* Every step of a thread that stages its lines keeps the invariant
\* (chat_public_lines, signed_answer, guid_answer).
LEMMA StagingStep ==
  ASSUME LeadInv, LeadInv', CommitInv, NEW t \in Threads,
         \/ StageUnnamed(t) \/ SignedAnswer(t) \/ SignedMiss(t)
         \/ GuidRemembered(t) \/ GuidForgotten(t) \/ GuidLogged(t) \/ GuidUnlogged(t)
         \/ LookupFails(t) \/ Recall(t) \/ SubmitNothing(t)
         \/ SignedFails(t) \/ LineUnread(t)
  PROVE  CommitInv'
<1> DEFINE l == Head(todo[t])
<1>0. /\ pc[t] \in Asking => todo[t] # <<>> /\ Guid[l] # NoGuid
      /\ faults \in 0..MaxFaults
      /\ pc \in [Threads -> PCs]
      /\ found \in [Threads -> [id: Nat, said: Said0]]
  BY DEF LeadInv, LeadTypeOK, MineInv, CommitInv, AskInv, RoomTypeOK
<1>1. pc[t] \in Staging /\ todo[t] # <<>> => l \in Lines
  BY StagedUnlogged
<1> HIDE DEF l
<1> USE DEF stateVars, stageVars, leadVars, roomVars, otherVars, At, Goto
<1>2. CASE StageUnnamed(t)
  BY <1>0, <1>2, StageStep DEF StageUnnamed, Staging
<1>3. CASE SignedAnswer(t)
  <2>1. pc[t] \in Staging /\ todo[t] # <<>> /\ Guid[l] # NoGuid
    BY <1>3 DEF SignedAnswer, Staging, l
  <2>2. UNCHANGED <<queue, slot, batch, res, serial, poisoned, log, heard, mod,
                    gone, purged, recent, forgot, found, faults>>
    BY <1>3 DEF SignedAnswer
  <2>3. CASE SessionOf[l] \in gone
    <3>1. AnswerNow(t, R("gone", 0))
      BY <1>3, <2>3 DEF SignedAnswer, l
    <3>2. Stage(t)
      BY <2>3, <3>1 DEF Stage, l
    <3> QED
      BY <2>1, <2>2, <3>2, <1>0, StageStep
  <2>4. CASE SessionOf[l] \notin gone
    <3> DEFINE at == CHOOSE i \in SignedAt(l) : TRUE
    <3>1. SignedAt(l) # {} /\ AnswerNow(t, RepeatOf(at, Said[log[at].line], l))
      BY <1>3, <2>4 DEF SignedAnswer, l
    <3>2. at \in SignedAt(l)
      BY <3>1
    <3> HIDE DEF at
    <3>3. Repeats(l, at)
      BY <2>1, <1>1, <3>2, FoundRepeats
    <3> QED
      BY <2>1, <2>2, <3>1, <3>3, RepeatStep DEF l
  <2> QED
    BY <2>3, <2>4
<1>4. CASE SignedMiss(t)
  <2>1. pc[t] = "stage" /\ pc' = [pc EXCEPT ![t] = "guid"] /\ Guid[l] # NoGuid
    BY <1>4 DEF SignedMiss, l
  <2>2. UNCHANGED <<queue, slot, batch, res, serial, poisoned, log, heard, mod,
                    gone, purged, recent, forgot, faults, answer, mine, todo, found>>
    BY <1>4 DEF SignedMiss
  <2>3. AskInv(t)'
    BY <1>0, <2>1, <2>2 DEF AskInv, l
  <2> QED
    BY <1>0, <2>1, <2>2, <2>3, AskedKeeps DEF Staging, Asking
<1>5. CASE GuidRemembered(t)
  <2>1. pc[t] \in Staging /\ pc[t] \in Asking
    BY <1>5 DEF GuidRemembered, Staging, Asking
  <2>2. UNCHANGED <<queue, slot, batch, res, serial, poisoned, log, heard, mod,
                    gone, purged, recent, forgot, found, faults>>
    BY <1>5 DEF GuidRemembered
  <2>3. Repeats(l, Memory(Key(l)).id)
    BY <1>5, <2>1, <1>0, <1>1, FoundRepeats DEF GuidRemembered, l
  <2>4. AnswerNow(t, RepeatOf(Memory(Key(l)).id, Memory(Key(l)).said, l))
    BY <1>5 DEF GuidRemembered, l
  <2> QED
    BY <2>1, <2>2, <2>3, <2>4, <1>0, RepeatStep DEF l
<1>6. CASE GuidForgotten(t)
  <2>1. pc[t] = "guid" /\ pc[t] \in Staging /\ pc[t] \in Asking
    BY <1>6 DEF GuidForgotten, Staging, Asking
  <2>2. UNCHANGED <<queue, slot, batch, res, serial, poisoned, log, heard, mod,
                    gone, purged, recent, forgot, found, faults>>
    BY <1>6 DEF GuidForgotten
  <2>3. CASE Stage(t)
    BY <2>1, <2>2, <2>3, <1>0, StageStep
  <2>4. CASE ~Stage(t)
    <3>1. pc' = [pc EXCEPT ![t] = "lookup"] /\ UNCHANGED <<answer, mine, todo>>
      BY <1>6, <2>4 DEF GuidForgotten
    <3>2. AskInv(t)'
      BY <1>0, <2>1, <3>1 DEF AskInv, l
    <3> QED
      BY <1>0, <2>1, <2>2, <3>1, <3>2, AskedKeeps DEF Staging, Asking
  <2> QED
    BY <2>3, <2>4
<1>7. CASE GuidLogged(t)
  <2> DEFINE i == CHOOSE i \in Logged(l) : TRUE
             said == IF log[i].deleted THEN "forgotten" ELSE "unsigned"
  <2>1. pc[t] = "lookup" /\ pc[t] \in Staging /\ pc[t] \in Asking
    BY <1>7 DEF GuidLogged, Staging, Asking
  <2>2. UNCHANGED <<queue, slot, batch, res, serial, poisoned, log, heard, mod,
                    gone, purged, recent, forgot, faults, answer, mine, todo>>
    BY <1>7 DEF GuidLogged
  <2>3. /\ Logged(l) # {}
        /\ pc' = [pc EXCEPT ![t] = "recall"]
        /\ found' = [found EXCEPT ![t] = [id |-> i, said |-> said]]
    BY <1>7 DEF GuidLogged, l
  <2>4. i \in Logged(l)
    BY <2>3
  <2>5. said \in Said0
    BY DEF Said0
  <2> HIDE DEF i, said
  <2>6. Repeats(l, i)
    BY <2>1, <2>4, <1>0, <1>1, FoundRepeats
  <2>7. i \in Nat
    BY <2>6 DEF Repeats, CommitInv, RoomTypeOK
  <2>8. /\ found' \in [Threads -> [id: Nat, said: Said0]]
        /\ found'[t].id = i
        /\ \A u \in Threads : u # t => found'[u] = found[u]
    BY <1>0, <2>3, <2>5, <2>7
  <2>9. AskInv(t)'
    BY <1>0, <2>1, <2>2, <2>3, <2>6, <2>8 DEF AskInv, l, Repeats, Key, Sender
  <2> QED
    BY <1>0, <2>1, <2>2, <2>3, <2>8, <2>9, AskedKeeps DEF Staging, Asking
<1>8. CASE GuidUnlogged(t)
  BY <1>0, <1>8, StageStep DEF GuidUnlogged, Staging, Asking
<1>12. CASE LineUnread(t)
  <2>1. pc[t] = "lookup" /\ pc[t] \in Staging /\ pc[t] \in Asking
    BY <1>12 DEF LineUnread, Staging, Asking
  <2>2. UNCHANGED <<queue, slot, batch, res, serial, poisoned, log, heard, mod,
                    gone, purged, recent, forgot, answer, mine, todo>>
    BY <1>12 DEF LineUnread
  <2>3. PICK i \in Logged(l) : found' = [found EXCEPT ![t] = [id |-> i, said |-> "unsigned"]]
    BY <1>12 DEF LineUnread, l
  <2>4. pc' = [pc EXCEPT ![t] = "recall"] /\ faults' \in 0..MaxFaults
    BY <1>0, <1>12, ChatCommitAssumption DEF LineUnread, Fault
  <2>5. "unsigned" \in Said0
    BY DEF Said0
  <2>6. Repeats(l, i)
    BY <2>1, <1>0, <1>1, FoundRepeats
  <2>7. i \in Nat
    BY <2>6 DEF Repeats, CommitInv, RoomTypeOK
  <2>8. /\ found' \in [Threads -> [id: Nat, said: Said0]]
        /\ found'[t].id = i
        /\ \A u \in Threads : u # t => found'[u] = found[u]
    BY <1>0, <2>3, <2>5, <2>7
  <2>9. AskInv(t)'
    BY <1>0, <2>1, <2>2, <2>4, <2>6, <2>8 DEF AskInv, l, Repeats, Key, Sender
  <2> QED
    BY <2>1, <2>2, <2>4, <2>8, <2>9, AskedKeeps DEF Staging, Asking
<1>13. CASE SignedFails(t)
  <2>1. pc[t] \in Staging /\ todo[t] # <<>>
    BY <1>13 DEF SignedFails, Staging
  <2>2. UNCHANGED <<queue, slot, batch, res, serial, poisoned, log, heard, mod,
                    gone, purged, recent, forgot, found>>
    BY <1>13 DEF SignedFails
  <2>3. AnswerNow(t, R("failed", 0)) /\ faults' \in 0..MaxFaults
    BY <1>0, <1>13, ChatCommitAssumption DEF SignedFails, Fault
  <2>4. R("failed", 0) \in Result /\ R("failed", 0).kind = "failed"
    BY DEF R, Result, Kinds
  <2>5. /\ recent' \in Seq([key: Keys, id: Nat \ {0}, said: Said0]) /\ RecentInv'
        /\ forgot' \subseteq Keys /\ forgot \subseteq forgot'
        /\ \A key : Known(key) => Known(key)'
    BY <2>2 DEF CommitInv, RoomTypeOK, RecentInv, Backed, Known, KeysIn, Key, Sender
  <2> QED
    BY <2>1, <2>2, <2>3, <2>4, <2>5, AnswerNowKeeps
<1>9. CASE LookupFails(t)
  BY <1>0, <1>9, StageStep, ChatCommitAssumption DEF LookupFails, Fault, Staging, Asking
<1>10. CASE Recall(t)
  <2> DEFINE e == [key |-> Key(l), id |-> found[t].id, said |-> found[t].said]
  <2>1. pc[t] = "recall" /\ pc[t] \in Staging /\ pc[t] \in Asking
    BY <1>10 DEF Recall, Staging, Asking
  <2>2. UNCHANGED <<queue, slot, batch, res, serial, poisoned, log, heard, mod,
                    gone, purged, found, faults>>
    BY <1>10 DEF Recall
  <2>3. RememberAll(<<e>>) /\ AnswerNow(t, RepeatOf(found[t].id, found[t].said, l))
    BY <1>10 DEF Recall, l
  <2>4. Repeats(l, found[t].id)
    BY <2>1 DEF CommitInv, AskInv, l
  <2>5. e \in Entries /\ Backed(e)
    <3>1. found[t].id \in 1..Len(log) /\ Len(log) \in Nat
      BY <2>4 DEF Repeats, CommitInv, RoomTypeOK
    <3>2. Key(l) \in Keys
      BY <1>0, <1>1, <2>1 DEF Keys
    <3>3. e \in Entries
      BY <1>0, <3>1, <3>2 DEF Entries
    <3>4. Guid[log[found[t].id].line] # NoGuid
      BY <2>4 DEF Repeats, Key
    <3> QED
      BY <2>4, <3>1, <3>3, <3>4 DEF Backed, Repeats
  <2> HIDE DEF e
  <2>6. <<e>> \in Seq(Entries) /\ \A n \in 1..Len(<<e>>) : Backed(<<e>>[n])
    BY <2>5
  <2> QED
    BY <1>0, <2>1, <2>2, <2>3, <2>4, <2>6, RepeatStep DEF l
<1>11. CASE SubmitNothing(t)
  <2>1. pc[t] = "stage" /\ pc' = [pc EXCEPT ![t] = "idle"]
    BY <1>11 DEF SubmitNothing
  <2>2. UNCHANGED <<queue, slot, batch, res, serial, poisoned, log, heard, mod,
                    gone, purged, recent, forgot, faults, answer, mine, todo, found>>
    BY <1>11 DEF SubmitNothing
  <2>3. AskInv(t)'
    BY <1>0, <2>1 DEF AskInv, Asking
  <2> QED
    BY <1>0, <2>1, <2>2, <2>3, AskedKeeps DEF Staging, Asking
<1> QED
  BY <1>2, <1>3, <1>4, <1>5, <1>6, <1>7, <1>8, <1>9, <1>10, <1>11, <1>12, <1>13
\* A call starts with lines that were never sent.
LEMMA ChatPublicStep ==
  ASSUME LeadInv, LeadInv', CommitInv, NEW t \in Threads, NEW ls \in Calls,
         ChatPublic(t, ls)
  PROVE  CommitInv'
<1>1. /\ pc[t] = "idle" /\ pc' = [pc EXCEPT ![t] = "stage"]
      /\ todo' = [todo EXCEPT ![t] = ls]
      /\ UNCHANGED <<queue, slot, batch, res, serial, poisoned, log, heard, mod, gone,
                     purged, recent, forgot, faults, answer, mine, found>>
  BY DEF ChatPublic, At, Goto, stateVars, leadVars, roomVars, otherVars
<1>2. todo \in [Threads -> Seq(Lines)] /\ mine[t] = <<>> /\ pc \in [Threads -> PCs]
  BY <1>1 DEF LeadInv, LeadTypeOK, MineInv
<1>3. ls \in Seq(Lines) /\ \A i \in 1..Len(ls) : answer[ls[i]] = NoResult
  <2>1. ls \in Seq(Lines)
    BY CallsAreSequences
  <2>2. \A i \in 1..Len(ls) : ls[i] \in ToSet(ls)
    BY <2>1 DEF ToSet
  <2> QED
    BY <2>1, <2>2 DEF ChatPublic
<1>4. Distinct(ls)
  <2>1. CASE \E l \in Lines : ls = <<l>>
    BY <2>1 DEF Distinct
  <2>2. CASE ls \in [1..2 -> Lines] /\ ls[1] # ls[2]
    <3>1. Len(ls) = 2
      BY <1>3, <2>2
    <3> QED
      BY <2>2, <3>1 DEF Distinct
  <2> QED
    BY <2>1, <2>2 DEF Calls
<1>5. StageInv(t)'
  <2>1. mine'[t] = <<>> /\ todo'[t] = ls /\ answer' = answer
    BY <1>1, <1>2
  <2>2. Distinct(mine'[t]) /\ Distinct(todo'[t])
    BY <1>4, <2>1 DEF Distinct
  <2> QED
    BY <1>3, <2>1, <2>2 DEF StageInv
<1>6. AskInv(t)'
  BY <1>1, <1>2 DEF AskInv, Asking
<1>7. RoomTypeOK' /\ RecentInv' /\ AnswerInv'
  BY <1>1 DEF CommitInv, RoomTypeOK, RecentInv, Backed, AnswerInv, Truthful, Repeats,
              WasHeard, InLog, Key, Sender
<1>8. \A key : Known(key) => Known(key)'
  BY <1>1 DEF Known, KeysIn
<1>9. \A u \in Threads : u # t =>
           mine'[u] = mine[u] /\ todo'[u] = todo[u] /\ found'[u] = found[u]
  BY <1>1, <1>2
<1> QED
  BY <1>1, <1>5, <1>6, <1>7, <1>8, <1>9, StagedStep DEF Staging

-----------------------------------------------------------------------------
(* The queue and its lead (submit_all, lead).                              *)

\* A step that moves lines between the queue and a batch, or the lead.
LEMMA MovedStep ==
  ASSUME LeadInv, LeadInv', CommitInv, NEW t \in Threads,
         UNCHANGED <<answer, todo, found, serial, poisoned, log, recent, heard, gone,
                     mod, purged, forgot, faults>>,
         \A u \in Threads : u # t => /\ pc'[u] = pc[u] /\ mine'[u] = mine[u]
                                     /\ batch'[u] = batch[u] /\ res'[u] = res[u],
         pc[t] \notin Committing,
         pc'[t] \notin Staging \cup Committing \cup {"answer"},
         res' \in [Threads -> Seq(Result)],
         \A l \in Lines : slot[l] # "none" => slot'[l] # "none",
         Distinct(queue'),
         \A i \in 1..Len(queue') : ~InLog(queue'[i]) /\ answer[queue'[i]] = NoResult,
         \A u \in Threads : BatchInv(u)'
  PROVE  CommitInv'
<1> USE DEF CommitInv
<1>1. \A l, id : /\ Truthful(l, id) <=> Truthful(l, id)'
                 /\ Repeats(l, id) <=> Repeats(l, id)'
                 /\ InLog(l) <=> InLog(l)'
  BY DEF Truthful, Repeats, InLog, WasHeard, Key, Sender
<1>2. \A key : Known(key) => Known(key)'
  BY DEF Known, KeysIn
<1>3. RoomTypeOK'
  BY DEF RoomTypeOK
<1>4. ASSUME NEW u \in Threads PROVE StageInv(u)' /\ AskInv(u)' /\ ResInv(u)'
  <2>1. CASE u = t
    BY <2>1 DEF StageInv, AskInv, ResInv, Staging, Asking
  <2>2. CASE u # t
    <3>1. pc'[u] = pc[u] /\ mine'[u] = mine[u] /\ batch'[u] = batch[u] /\ res'[u] = res[u]
          /\ todo'[u] = todo[u] /\ found'[u] = found[u] /\ answer' = answer
      BY <2>2
    <3>2. StageInv(u)'
      BY <3>1 DEF StageInv, Distinct
    <3>3. AskInv(u)'
      BY <3>1, <1>1 DEF AskInv
    <3>4. ResInv(u)'
      BY <3>1, <1>2, ResKept DEF ResInv
    <3> QED
      BY <3>2, <3>3, <3>4
  <2> QED
    BY <2>1, <2>2
<1>5. QueueInv'
  BY <1>1 DEF QueueInv
<1>6. SerialInv'
  BY DEF SerialInv
<1>7. LogInv' /\ RecentInv' /\ ModInv'
  BY DEF LogInv, RecentInv, Backed, ModInv, Key, Sender
<1>8. HeardInv'
  BY <1>2, HeardKept DEF RoomTypeOK
<1>9. AnswerInv'
  BY <1>1 DEF AnswerInv
<1> QED
  BY <1>3, <1>4, <1>5, <1>6, <1>7, <1>8, <1>9

\* Two sequences without anything twice, and with nothing in common.
LEMMA ConcatDistinct ==
  ASSUME NEW S, NEW s \in Seq(S), NEW u \in Seq(S), NEW c, c = s \o u,
         Distinct(s), Distinct(u),
         \A i \in 1..Len(s), j \in 1..Len(u) : s[i] # u[j]
  PROVE  Distinct(c)
<1>1. /\ Len(s) \in Nat /\ Len(u) \in Nat /\ Len(c) = Len(s) + Len(u)
      /\ \A i \in 1..Len(c) : c[i] = IF i <= Len(s) THEN s[i] ELSE u[i - Len(s)]
  BY ConcatProperties
<1>2. ASSUME NEW i \in 1..Len(c)
      PROVE  \/ i \in 1..Len(s) /\ c[i] = s[i]
             \/ i - Len(s) \in 1..Len(u) /\ c[i] = u[i - Len(s)]
  BY <1>1
<1>3. Distinct(c)
  <2> SUFFICES ASSUME NEW i \in 1..Len(c), NEW j \in 1..Len(c), c[i] = c[j]
               PROVE  i = j
    BY DEF Distinct
  <2>1. \/ i \in 1..Len(s) /\ c[i] = s[i]
        \/ i - Len(s) \in 1..Len(u) /\ c[i] = u[i - Len(s)]
    BY <1>2
  <2>2. \/ j \in 1..Len(s) /\ c[j] = s[j]
        \/ j - Len(s) \in 1..Len(u) /\ c[j] = u[j - Len(s)]
    BY <1>2
  <2>3. i \in Nat /\ j \in Nat /\ Len(s) \in Nat
    BY <1>1
  <2> QED
    BY <2>1, <2>2, <2>3 DEF Distinct
<1> QED
  BY <1>3

\* Submit: the lines of a call, which were never sent, join the queue.
LEMMA SubmitStep ==
  ASSUME LeadInv, LeadInv', CommitInv, NEW t \in Threads, Submit(t)
  PROVE  CommitInv'
<1>1. /\ pc[t] = "stage" /\ queue' = queue \o mine[t]
      /\ slot' = [l \in Lines |-> IF l \in ToSet(mine[t]) THEN "waiting" ELSE slot[l]]
      /\ \E a \in {"wait", "first"} : pc' = [pc EXCEPT ![t] = a]
      /\ UNCHANGED <<answer, mine, todo, found, batch, res, serial, poisoned, log,
                     recent, heard, gone, mod, purged, forgot, faults>>
  BY DEF Submit, At, Goto, stageVars, leadVars, roomVars, otherVars
<1>2. /\ queue \in Seq(Lines) /\ mine \in [Threads -> Seq(Lines)] /\ pc \in [Threads -> PCs]
  BY DEF LeadInv, LeadTypeOK
<1>3. \A i \in 1..Len(mine[t]) : /\ mine[t][i] \in Lines /\ slot[mine[t][i]] = "none"
                                 /\ answer[mine[t][i]] = NoResult
                                 /\ ~InLog(mine[t][i])
  BY <1>1, <1>2 DEF LeadInv, MineInv, Staging, CommitInv, StageInv, QueueInv
<1>4. \A i \in 1..Len(queue) : /\ slot[queue[i]] # "none" /\ ~InLog(queue[i])
                               /\ answer[queue[i]] = NoResult
  BY DEF LeadInv, SlotInv, CommitInv, QueueInv
<1>5. Distinct(queue) /\ Distinct(mine[t])
  BY <1>1 DEF CommitInv, QueueInv, StageInv, Staging
<1>6. /\ Distinct(queue')
      /\ \A i \in 1..Len(queue') : \/ \E j \in 1..Len(queue) : queue'[i] = queue[j]
                                   \/ \E j \in 1..Len(mine[t]) : queue'[i] = mine[t][j]
  <2>1. \A i \in 1..Len(queue), j \in 1..Len(mine[t]) : queue[i] # mine[t][j]
    BY <1>3, <1>4
  <2>2. mine[t] \in Seq(Lines)
    BY <1>2
  <2>3. PICK q, m, c : q = queue /\ m = mine[t] /\ c = queue'
    OBVIOUS
  <2>4. /\ q \in Seq(Lines) /\ m \in Seq(Lines) /\ c = q \o m
    BY <1>1, <1>2, <2>2, <2>3
  <2>5. Distinct(q) /\ Distinct(m)
    BY <1>5, <2>3
  <2>6. \A i \in 1..Len(q), j \in 1..Len(m) : q[i] # m[j]
    BY <2>1, <2>3
  <2>7. Distinct(c)
    BY <2>4, <2>5, <2>6, ConcatDistinct, Zenon
  <2>8. \A i \in 1..Len(c) : \/ \E j \in 1..Len(q) : c[i] = q[j]
                             \/ \E j \in 1..Len(m) : c[i] = m[j]
    <3>1. /\ Len(q) \in Nat /\ Len(m) \in Nat /\ Len(c) = Len(q) + Len(m)
          /\ \A i \in 1..Len(c) : c[i] = IF i <= Len(q) THEN q[i] ELSE m[i - Len(q)]
      BY <2>4, ConcatProperties
    <3> SUFFICES ASSUME NEW i \in 1..Len(c)
                 PROVE  \/ \E j \in 1..Len(q) : c[i] = q[j]
                        \/ \E j \in 1..Len(m) : c[i] = m[j]
      OBVIOUS
    <3>2. i \in 1..Len(q) \/ i - Len(q) \in 1..Len(m)
      BY <3>1
    <3> QED
      BY <3>1, <3>2
  <2> QED
    BY <2>3, <2>7, <2>8
<1>7. \A i \in 1..Len(queue') : ~InLog(queue'[i]) /\ answer[queue'[i]] = NoResult
  BY <1>3, <1>4, <1>6
<1>8. \A u \in Threads : u # t => pc'[u] = pc[u]
  BY <1>1, <1>2
<1>9. pc'[t] \in {"wait", "first"}
  BY <1>1, <1>2
<1>10. ASSUME NEW u \in Threads PROVE BatchInv(u)'
  <2>1. BatchInv(u)
    BY DEF CommitInv
  <2>2. \A i \in 1..Len(batch[u]) : slot[batch[u][i]] # "none"
    BY DEF LeadInv, SlotInv
  <2>3. \A i \in 1..Len(batch[u]), j \in 1..Len(queue') : batch[u][i] # queue'[j]
    BY <2>1, <2>2, <1>3, <1>6 DEF BatchInv
  <2>4. pc[t] \notin Carrying /\ pc[t] \notin {"handon", "serial", "append"}
    BY <1>1 DEF Carrying, Committing
  <2>5. u = t => batch[u] = <<>>
    BY <2>1, <2>4 DEF BatchInv
  <2>7. \A l : InLog(l)' <=> InLog(l)
    BY <1>1 DEF InLog
  <2>8. batch'[u] = batch[u] /\ answer' = answer
    BY <1>1
  <2>9. CASE u = t
    <3>1. batch'[u] = <<>>
      BY <2>5, <2>8, <2>9
    <3> QED
      BY <3>1 DEF BatchInv, Distinct
  <2>10. CASE u # t
    BY <2>1, <2>3, <2>7, <2>8, <2>10, <1>8 DEF BatchInv, Distinct
  <2> QED
    BY <2>9, <2>10
<1>11. \A l \in Lines : slot[l] # "none" => slot'[l] # "none"
  BY <1>1
<1>12. pc[t] \notin Committing /\ pc'[t] \notin Staging \cup Committing \cup {"answer"}
  BY <1>1, <1>9 DEF Committing, Staging, Asking
<1>13. res' \in [Threads -> Seq(Result)]
  BY <1>1 DEF CommitInv, RoomTypeOK
<1> QED
  BY <1>1, <1>6, <1>7, <1>8, <1>10, <1>11, <1>12, <1>13, MovedStep
\* A batch that is not touched, with the queue as it was or less of it.
LEMMA BatchKept ==
  ASSUME CommitInv, NEW u \in Threads, UNCHANGED <<answer, log>>,
         batch'[u] = batch[u],
         pc'[u] = pc[u] \/ pc[u] \notin Carrying,
         \A j \in 1..Len(queue') : \E i \in 1..Len(queue) : queue'[j] = queue[i]
  PROVE  BatchInv(u)'
<1>1. BatchInv(u)
  BY DEF CommitInv
<1>2. \A l : InLog(l)' <=> InLog(l)
  BY DEF InLog
<1>3. CASE pc[u] \notin Carrying
  <2>1. batch'[u] = <<>>
    BY <1>1, <1>3 DEF BatchInv
  <2> QED
    BY <2>1 DEF BatchInv, Distinct
<1>4. CASE pc'[u] = pc[u]
  <2>1. \A i \in 1..Len(batch[u]), j \in 1..Len(queue') : batch[u][i] # queue'[j]
    BY <1>1 DEF BatchInv
  <2>2. Distinct(batch'[u])
    BY <1>1 DEF BatchInv
  <2> QED
    BY <1>1, <1>2, <1>4, <2>1, <2>2 DEF BatchInv
<1> QED
  BY <1>3, <1>4

\* SetFirst and Done move the lead, or a thread on to its next line.
LEMMA WaitStep ==
  ASSUME LeadInv, LeadInv', CommitInv, NEW t \in Threads, SetFirst(t) \/ Done(t)
  PROVE  CommitInv'
<1>1. /\ pc[t] \in {"first", "wait"}
      /\ \E a \in {"wait", "idle"} : pc' = [pc EXCEPT ![t] = a]
      /\ \E v \in {"lead", "waiting"} : slot' = [slot EXCEPT ![Head(mine[t])] = v]
      /\ mine' = mine \/ mine' = [mine EXCEPT ![t] = Tail(mine[t])]
      /\ UNCHANGED <<queue, answer, todo, found, batch, res, serial, poisoned, log,
                     recent, heard, gone, mod, purged, forgot, faults>>
  BY DEF SetFirst, Done, Answered, At, Goto, stageVars, leadVars, roomVars, otherVars
<1>2. /\ mine \in [Threads -> Seq(Lines)] /\ pc \in [Threads -> PCs]
      /\ slot \in [Lines -> {"none", "waiting", "lead", "done"}]
  BY DEF LeadInv, LeadTypeOK
<1>3. \A u \in Threads : u # t => pc'[u] = pc[u] /\ mine'[u] = mine[u]
  BY <1>1, <1>2
<1>4. pc'[t] \in {"wait", "idle"}
  BY <1>1, <1>2
<1>5. \A u \in Threads : BatchInv(u)'
  <2>1. \A j \in 1..Len(queue') : \E i \in 1..Len(queue) : queue'[j] = queue[i]
    BY <1>1
  <2>2. pc[t] \notin Carrying
    BY <1>1 DEF Carrying, Committing
  <2> QED
    BY <1>1, <1>3, <2>1, <2>2, BatchKept
<1>6. \A l \in Lines : slot[l] # "none" => slot'[l] # "none"
  BY <1>1, <1>2
<1>7. Distinct(queue') /\ \A i \in 1..Len(queue') : ~InLog(queue'[i]) /\ answer[queue'[i]] = NoResult
  BY <1>1 DEF CommitInv, QueueInv
<1>8. res' \in [Threads -> Seq(Result)]
  BY <1>1 DEF CommitInv, RoomTypeOK
<1>9. pc[t] \notin Committing /\ pc'[t] \notin Staging \cup Committing \cup {"answer"}
  BY <1>1, <1>4 DEF Committing, Staging, Asking
<1> QED
  BY <1>1, <1>3, <1>5, <1>6, <1>7, <1>8, <1>9, MovedStep

\* Lead: a batch comes off the queue.  No other thread has one.
LEMMA LeadTakesStep ==
  ASSUME LeadInv, LeadInv', CommitInv, NEW t \in Threads, Lead(t)
  PROVE  CommitInv'
<1> DEFINE m == Head(mine[t])
<1>1. /\ pc[t] = "wait" /\ slot[m] = "lead" /\ pc' = [pc EXCEPT ![t] = "serial"]
      /\ slot' = [slot EXCEPT ![m] = "waiting"]
      /\ queue' = SubSeq(queue, Len(Batch) + 1, Len(queue))
      /\ batch' = [batch EXCEPT ![t] = Batch]
      /\ UNCHANGED <<answer, mine, todo, found, res, serial, poisoned, log,
                     recent, heard, gone, mod, purged, forgot, faults>>
  BY DEF Lead, At, Goto, stageVars, roomVars, otherVars
<1>2. /\ mine \in [Threads -> Seq(Lines)] /\ pc \in [Threads -> PCs]
      /\ batch \in [Threads -> Seq(Lines)] /\ queue \in Seq(Lines)
      /\ slot \in [Lines -> {"none", "waiting", "lead", "done"}]
  BY DEF LeadInv, LeadTypeOK
<1>3. mine[t] # <<>>
  BY <1>1 DEF LeadInv, MineInv, Staging, Asking
<1>4. m \in Lines
  BY <1>2, <1>3, TailFacts
<1>5. queue # <<>>
  BY <1>1, <1>4 DEF LeadInv, OneLeader, Leads
<1>6. /\ Batch \in Seq(Lines)
      /\ \A i \in 1..Len(Batch) : i \in 1..Len(queue) /\ Batch[i] = queue[i]
      /\ \A i \in 1..Len(queue') : /\ Len(Batch) + i \in 1..Len(queue)
                                   /\ queue'[i] = queue[Len(Batch) + i]
  BY <1>1, <1>5, BatchFacts, ChatCommitAssumption
<1>7. Len(Batch) \in Nat /\ Len(queue) \in Nat /\ Len(queue') \in Nat
  BY <1>2, <1>6 DEF LeadInv, LeadTypeOK
<1> HIDE DEF m
<1>8. Distinct(queue) /\ \A i \in 1..Len(queue) : ~InLog(queue[i]) /\ answer[queue[i]] = NoResult
  BY DEF CommitInv, QueueInv
<1>9. Distinct(queue')
  <2> SUFFICES ASSUME NEW i \in 1..Len(queue'), NEW j \in 1..Len(queue'),
                      queue'[i] = queue'[j]
               PROVE  i = j
    BY DEF Distinct
  <2>1. Len(Batch) + i = Len(Batch) + j
    BY <1>6, <1>8 DEF Distinct
  <2> QED
    BY <1>7, <2>1
<1>10. \A i \in 1..Len(queue') : ~InLog(queue'[i]) /\ answer[queue'[i]] = NoResult
  BY <1>6, <1>8
<1>11. \A u \in Threads : u # t => pc'[u] = pc[u] /\ batch'[u] = batch[u]
  BY <1>1, <1>2
<1>12. pc'[t] = "serial" /\ batch'[t] = Batch /\ answer' = answer
  BY <1>1, <1>2
<1>13. BatchInv(t)'
  <2>1. Distinct(batch'[t])
    BY <1>6, <1>8, <1>12 DEF Distinct
  <2>2. ASSUME NEW i \in 1..Len(Batch), NEW j \in 1..Len(queue')
        PROVE  Batch[i] # queue'[j]
    <3>1. Batch[i] = queue[i] /\ queue'[j] = queue[Len(Batch) + j]
          /\ i \in 1..Len(queue) /\ Len(Batch) + j \in 1..Len(queue)
      BY <1>6
    <3>2. i # Len(Batch) + j
      BY <1>7
    <3> QED
      BY <3>1, <3>2, <1>8 DEF Distinct
  <2>3. \A i \in 1..Len(batch'[t]) : ~InLog(batch'[t][i]) /\ answer'[batch'[t][i]] = NoResult
    BY <1>6, <1>8, <1>12
  <2>4. \A l : InLog(l)' <=> InLog(l)
    BY <1>1 DEF InLog
  <2>5. \A i \in 1..Len(batch'[t]), j \in 1..Len(queue') : batch'[t][i] # queue'[j]
    BY <1>12, <2>2
  <2>6. pc'[t] \in Carrying
    BY <1>12 DEF Carrying
  <2> QED
    BY <2>1, <2>3, <2>4, <2>5, <2>6 DEF BatchInv
<1>14. ASSUME NEW u \in Threads PROVE BatchInv(u)'
  <2>1. CASE u = t
    BY <2>1, <1>13
  <2>2. CASE u # t
    BY <2>2, <1>1, <1>6, <1>11, BatchKept
  <2> QED
    BY <2>1, <2>2
<1>15. \A l \in Lines : slot[l] # "none" => slot'[l] # "none"
  BY <1>1, <1>2
<1>16. res' \in [Threads -> Seq(Result)]
  BY <1>1 DEF CommitInv, RoomTypeOK
<1>17. pc[t] \notin Committing /\ pc'[t] \notin Staging \cup Committing \cup {"answer"}
  BY <1>1, <1>12 DEF Committing, Staging, Asking
<1> QED
  BY <1>1, <1>9, <1>10, <1>11, <1>14, <1>15, <1>16, <1>17, MovedStep

\* HandOn: the batch is done with.
LEMMA HandOnStep ==
  ASSUME LeadInv, LeadInv', CommitInv, NEW t \in Threads, HandOn(t)
  PROVE  CommitInv'
<1>1. /\ pc[t] = "handon"
      /\ \E a \in {"wait", "idle"} : pc' = [pc EXCEPT ![t] = a]
      /\ slot' = slot \/ slot' = [slot EXCEPT ![Head(queue)] = "lead"]
      /\ mine' = [mine EXCEPT ![t] = Tail(mine[t])]
      /\ batch' = [batch EXCEPT ![t] = <<>>]
      /\ res' = [res EXCEPT ![t] = <<>>]
      /\ UNCHANGED <<queue, answer, todo, found, serial, poisoned, log,
                     recent, heard, gone, mod, purged, forgot, faults>>
  BY DEF HandOn, Answered, At, Goto, stageVars, roomVars, otherVars
<1>2. /\ mine \in [Threads -> Seq(Lines)] /\ pc \in [Threads -> PCs]
      /\ batch \in [Threads -> Seq(Lines)]
      /\ slot \in [Lines -> {"none", "waiting", "lead", "done"}]
      /\ res \in [Threads -> Seq(Result)]
  BY DEF LeadInv, LeadTypeOK, CommitInv, RoomTypeOK
<1>3. \A u \in Threads : u # t => /\ pc'[u] = pc[u] /\ mine'[u] = mine[u]
                                  /\ batch'[u] = batch[u] /\ res'[u] = res[u]
  BY <1>1, <1>2
<1>4. pc'[t] \in {"wait", "idle"} /\ batch'[t] = <<>>
  BY <1>1, <1>2
<1>5. ASSUME NEW u \in Threads PROVE BatchInv(u)'
  <2>1. CASE u = t
    BY <2>1, <1>4 DEF BatchInv, Distinct
  <2>2. CASE u # t
    BY <2>2, <1>1, <1>3, BatchKept
  <2> QED
    BY <2>1, <2>2
<1>6. \A l \in Lines : slot[l] # "none" => slot'[l] # "none"
  BY <1>1, <1>2
<1>7. Distinct(queue') /\ \A i \in 1..Len(queue') : ~InLog(queue'[i]) /\ answer[queue'[i]] = NoResult
  BY <1>1 DEF CommitInv, QueueInv
<1>8. res' \in [Threads -> Seq(Result)]
  <2>1. <<>> \in Seq(Result)
    OBVIOUS
  <2> QED
    BY <1>1, <1>2, <2>1
<1>9. pc[t] \notin Committing /\ pc'[t] \notin Staging \cup Committing \cup {"answer"}
  BY <1>1, <1>4 DEF Committing, Staging, Asking
<1> QED
  BY <1>1, <1>3, <1>5, <1>6, <1>7, <1>8, <1>9, MovedStep
\* While a thread has a batch no other has one, and none is committing.
LEMMA OneCarrier ==
  ASSUME LeadInv, CommitInv, NEW t \in Threads, NEW u \in Threads, u # t,
         pc[t] \in Carrying
  PROVE  pc[u] \notin Carrying /\ batch[u] = <<>>
<1>1. t \in Leaders
  BY DEF Leaders, Carrying, Committing
<1>2. pc[u] \in Carrying => u \in Leaders
  BY DEF Leaders, Carrying, Committing
<1>3. pc[u] \notin Carrying
  BY <1>1, <1>2 DEF LeadInv, OneLeader
<1> QED
  BY <1>3 DEF CommitInv, BatchInv

\* Answer: the lines of a batch are given their results.
LEMMA AnswerStep ==
  ASSUME LeadInv, LeadInv', CommitInv, NEW t \in Threads, Answer(t)
  PROVE  CommitInv'
<1> USE DEF CommitInv
<1>1. PICK b : b = batch[t]
  OBVIOUS
<1> DEFINE place(l) == {i \in 1..Len(b) : b[i] = l}
<1>2. /\ pc[t] = "answer" /\ pc' = [pc EXCEPT ![t] = "handon"]
      /\ slot' = [l \in Lines |-> IF place(l) # {} /\ l # Head(mine[t])
                                  THEN "done" ELSE slot[l]]
      /\ answer' = [l \in Lines |-> IF place(l) # {}
                                    THEN res[t][CHOOSE i \in place(l) : TRUE]
                                    ELSE answer[l]]
      /\ UNCHANGED <<queue, mine, todo, found, batch, res, serial, poisoned, log,
                     recent, heard, gone, mod, purged, forgot, faults>>
  BY <1>1 DEF Answer, At, Goto, stageVars, leadVars, roomVars, otherVars
<1>3. /\ pc \in [Threads -> PCs] /\ b \in Seq(Lines) /\ Len(b) \in Nat
      /\ slot \in [Lines -> {"none", "waiting", "lead", "done"}]
      /\ answer \in [Lines -> Result] /\ res[t] \in Seq(Result)
  <2>1. batch \in [Threads -> Seq(Lines)] /\ res \in [Threads -> Seq(Result)]
    BY DEF LeadInv, LeadTypeOK, RoomTypeOK
  <2>2. b \in Seq(Lines) /\ res[t] \in Seq(Result)
    BY <1>1, <2>1
  <2>3. Len(b) \in Nat
    BY <2>2
  <2> QED
    BY <2>2, <2>3 DEF LeadInv, LeadTypeOK, RoomTypeOK
<1>4. Distinct(b) /\ ResOK("answer", b, res[t]) /\ Len(res[t]) = Len(b)
  BY <1>1, <1>2 DEF BatchInv, ResInv, ResOK
<1>5. \A i \in 1..Len(b) : /\ b[i] \in Lines /\ slot[b[i]] # "none"
                           /\ res[t][i] \in Result
  BY <1>1, <1>3, <1>4 DEF LeadInv, SlotInv
<1>6. \A l \in Lines : \/ answer'[l] = answer[l] /\ \A i \in 1..Len(b) : b[i] # l
                       \/ \E i \in 1..Len(b) : l = b[i] /\ answer'[l] = res[t][i]
  <2> SUFFICES ASSUME NEW l \in Lines
               PROVE  \/ answer'[l] = answer[l] /\ \A i \in 1..Len(b) : b[i] # l
                      \/ \E i \in 1..Len(b) : l = b[i] /\ answer'[l] = res[t][i]
    OBVIOUS
  <2>1. CASE place(l) = {}
    BY <2>1, <1>2
  <2>2. CASE place(l) # {}
    <3> DEFINE k == CHOOSE i \in place(l) : TRUE
    <3>1. k \in place(l)
      BY <2>2
    <3>2. answer'[l] = res[t][k]
      BY <1>2, <2>2
    <3> HIDE DEF k
    <3> QED
      BY <3>1, <3>2
  <2> QED
    BY <2>1, <2>2
<1> HIDE DEF place
<1>7. \A l \in Lines : slot[l] = "none" => answer'[l] = answer[l]
  BY <1>5, <1>6
<1>8. \A l, id : /\ Truthful(l, id) <=> Truthful(l, id)'
                 /\ Repeats(l, id) <=> Repeats(l, id)'
                 /\ InLog(l) <=> InLog(l)'
  BY <1>2 DEF Truthful, Repeats, InLog, WasHeard, Key, Sender
<1>9. RoomTypeOK'
  <2>1. answer' \in [Lines -> Result]
    <3>1. \A l \in Lines : answer'[l] \in Result
      BY <1>3, <1>5, <1>6
    <3>2. answer' = [l \in Lines |-> answer'[l]]
      BY <1>2
    <3> QED
      BY <3>1, <3>2
  <2> QED
    BY <1>2, <2>1 DEF RoomTypeOK
<1>10. ASSUME NEW u \in Threads PROVE StageInv(u)' /\ AskInv(u)' /\ BatchInv(u)' /\ ResInv(u)'
  <2>1. CASE u = t
    <3>1. pc'[u] = "handon"
      BY <2>1, <1>2, <1>3
    <3>2. BatchInv(u)
      OBVIOUS
    <3>3. BatchInv(u)'
      BY <1>2, <3>1, <3>2 DEF BatchInv, Carrying, Distinct
    <3> QED
      BY <3>1, <3>3 DEF StageInv, AskInv, ResInv, Staging, Asking, Committing
  <2>2. CASE u # t
    <3>1. pc[u] \notin Carrying /\ batch[u] = <<>> /\ pc'[u] = pc[u] /\ batch' = batch
      BY <2>2, <1>2, <1>3, OneCarrier DEF Carrying
    <3>2. BatchInv(u)'
      BY <3>1 DEF BatchInv, Distinct
    <3>3. ResInv(u)'
      BY <3>1 DEF ResInv, Carrying
    <3>4. AskInv(u)'
      BY <1>2, <3>1, <1>8 DEF AskInv
    <3>5. pc[u] \in Staging =>
            /\ \A i \in 1..Len(mine[u]) : mine[u][i] \in Lines /\ slot[mine[u][i]] = "none"
            /\ \A i \in 1..Len(todo[u]) : todo[u][i] \in Lines /\ slot[todo[u][i]] = "none"
      BY DEF LeadInv, LeadTypeOK, MineInv
    <3>6. mine'[u] = mine[u] /\ todo'[u] = todo[u] /\ StageInv(u)
      BY <1>2
    <3>7. StageInv(u)'
      BY <1>7, <3>1, <3>5, <3>6 DEF StageInv
    <3> QED
      BY <3>2, <3>3, <3>4, <3>7
  <2> QED
    BY <2>1, <2>2
<1>11. QueueInv'
  <2>1. \A i \in 1..Len(queue) : queue[i] \in Lines /\ \A j \in 1..Len(b) : b[j] # queue[i]
    BY <1>1 DEF LeadInv, LeadTypeOK, BatchInv
  <2>2. \A i \in 1..Len(queue) : answer'[queue[i]] = answer[queue[i]]
    BY <1>6, <2>1
  <2>3. \A l \in Lines : slot[l] # "none" => slot'[l] # "none"
    BY <1>2
  <2>4. Distinct(queue') /\ queue' = queue
    BY <1>2 DEF QueueInv
  <2> QED
    BY <1>8, <2>2, <2>3, <2>4 DEF QueueInv
<1>12. SerialInv'
  BY <1>2, <1>3 DEF SerialInv, Committing
<1>13. LogInv' /\ RecentInv' /\ ModInv'
  BY <1>2 DEF LogInv, RecentInv, Backed, ModInv, Key, Sender
<1>14. HeardInv'
  <2>1. \A key : Known(key) => Known(key)'
    BY <1>2 DEF Known, KeysIn
  <2> QED
    BY <1>2, <2>1, HeardKept DEF RoomTypeOK
<1>15. AnswerInv'
  <2>1. \A i \in 1..Len(b) :
          /\ res[t][i].kind = "ok" => Truthful(b[i], res[t][i].id)
          /\ res[t][i].kind \in {"gone", "equivocation", "failed"} => ~InLog(b[i])
    BY <1>4 DEF ResOK, LineInv
  <2> QED
    BY <1>6, <1>8, <2>1 DEF AnswerInv
<1> QED
  BY <1>9, <1>10, <1>11, <1>12, <1>13, <1>14, <1>15

-----------------------------------------------------------------------------
(* The steps of a commit (chat_commit_batch).                              *)

\* The log and what was heard only grow.
Grows ==
  /\ Len(log) \in Nat /\ Len(log') \in Nat /\ Len(log) <= Len(log')
  /\ \A i \in 1..Len(log) : log'[i].line = log[i].line
  /\ Len(heard) \in Nat /\ Len(heard') \in Nat /\ Len(heard) <= Len(heard')
  /\ \A h \in 1..Len(heard) : heard'[h] = heard[h]

\* What was true of a line's id stays true.
LEMMA GrowsKeeps ==
  ASSUME Grows
  PROVE  \A l, id : /\ Repeats(l, id) => Repeats(l, id)'
                    /\ Truthful(l, id) => Truthful(l, id)'
                    /\ InLog(l) => InLog(l)'
<1>1. \A l, id : Repeats(l, id) => Repeats(l, id)'
  BY DEF Grows, Repeats, Key, Sender
<1>2. \A id : WasHeard(id) => WasHeard(id)'
  BY DEF Grows, WasHeard
<1>3. \A id \in 1..Len(log) : id \in 1..Len(log') /\ log'[id].line = log[id].line
  BY DEF Grows
<1>4. \A l, id : Truthful(l, id) => Truthful(l, id)'
  BY <1>1, <1>2, <1>3 DEF Truthful
<1>5. \A l : InLog(l) => InLog(l)'
  BY <1>3 DEF InLog
<1> QED
  BY <1>1, <1>4, <1>5

\* A step of the commit that thread `t` leads.
LEMMA CommitStep ==
  ASSUME LeadInv, LeadInv', CommitInv, NEW t \in Threads,
         NEW a \in Committing \cup {"answer"},
         pc[t] \in {"serial"} \cup Committing, pc' = [pc EXCEPT ![t] = a],
         UNCHANGED <<queue, slot, answer, mine, todo, found, batch, mod>>,
         Grows,
         \A i \in 1..Len(log') :
           i \in 1..Len(log) \/ \E k \in 1..Len(batch[t]) : log'[i].line = batch[t][k],
         a = "append" => pc[t] = "serial" /\ log' = log,
         RoomTypeOK', SerialInv', ResInv(t)', LogInv', RecentInv', HeardInv'
  PROVE  CommitInv'
<1> USE DEF CommitInv
<1>1. pc'[t] = a /\ \A u \in Threads : u # t => pc'[u] = pc[u]
  BY DEF LeadInv, LeadTypeOK
<1>2. \A l, id : /\ Repeats(l, id) => Repeats(l, id)'
                 /\ Truthful(l, id) => Truthful(l, id)'
  BY GrowsKeeps
<1>3. \A l : InLog(l)' => InLog(l) \/ \E k \in 1..Len(batch[t]) : l = batch[t][k]
  BY DEF InLog, Grows
<1>4. pc[t] \in Carrying
  BY DEF Carrying
<1>5. \A k \in 1..Len(batch[t]) : /\ batch[t][k] \in Lines /\ slot[batch[t][k]] # "none"
                                  /\ answer[batch[t][k]] = NoResult
                                  /\ \A i \in 1..Len(queue) : batch[t][k] # queue[i]
  <2>1. \A k \in 1..Len(batch[t]) : batch[t][k] \in Lines /\ slot[batch[t][k]] # "none"
    BY DEF LeadInv, LeadTypeOK, SlotInv
  <2>2. BatchInv(t) /\ pc[t] # "handon"
    BY DEF Committing
  <2> QED
    BY <2>1, <2>2 DEF BatchInv
<1>6. ASSUME NEW u \in Threads PROVE StageInv(u)' /\ AskInv(u)' /\ BatchInv(u)' /\ ResInv(u)'
  <2>1. CASE u = t
    <3>1. BatchInv(u)'
      <4>1. batch' = batch /\ queue' = queue /\ answer' = answer
        OBVIOUS
      <4>2. pc'[u] = a /\ a # "handon" /\ a \in Carrying /\ a # "serial"
        BY <2>1, <1>1 DEF Carrying, Committing
      <4>3. a = "append" => \A i \in 1..Len(batch[u]) : ~InLog(batch[u][i])'
        <5> SUFFICES ASSUME a = "append" PROVE \A i \in 1..Len(batch[u]) : ~InLog(batch[u][i])'
          OBVIOUS
        <5>1. pc[u] = "serial" /\ log' = log
          BY <2>1
        <5> QED
          BY <4>1, <5>1 DEF BatchInv, InLog
      <4>4. BatchInv(u) /\ \A i \in 1..Len(batch[u]) : answer[batch[u][i]] = NoResult
        BY <2>1, <1>5
      <4> QED
        BY <4>1, <4>2, <4>3, <4>4 DEF BatchInv, Distinct
    <3> QED
      BY <2>1, <3>1, <1>1 DEF StageInv, AskInv, Staging, Asking, Committing
  <2>2. CASE u # t
    <3>1. pc[u] \notin Carrying /\ batch[u] = <<>> /\ pc'[u] = pc[u] /\ batch' = batch
      BY <2>2, <1>1, <1>4, OneCarrier
    <3>2. BatchInv(u)'
      BY <3>1 DEF BatchInv, Distinct
    <3>3. ResInv(u)'
      BY <3>1 DEF ResInv, Carrying
    <3>4. AskInv(u)'
      BY <3>1, <1>2 DEF AskInv
    <3>5. mine' = mine /\ todo' = todo /\ answer' = answer /\ StageInv(u)
      OBVIOUS
    <3>6. StageInv(u)'
      BY <3>1, <3>5 DEF StageInv, Distinct
    <3> QED
      BY <3>2, <3>3, <3>4, <3>6
  <2> QED
    BY <2>1, <2>2
<1>7. QueueInv'
  <2>1. queue' = queue /\ slot' = slot /\ answer' = answer
    OBVIOUS
  <2>2. \A i \in 1..Len(queue) : ~InLog(queue[i])'
    BY <1>3, <1>5, <2>1 DEF QueueInv
  <2>3. \A l \in Lines : InLog(l)' => slot[l] # "none"
    BY <1>3, <1>5 DEF QueueInv
  <2> QED
    BY <2>1, <2>2, <2>3 DEF QueueInv, Distinct
<1>8. ModInv'
  BY DEF ModInv, Grows
<1>9. AnswerInv'
  <2>1. answer' = answer
    OBVIOUS
  <2>2. ASSUME NEW l \in Lines, answer[l].kind \in {"gone", "equivocation", "failed"}
        PROVE  ~InLog(l)'
    <3>1. ~InLog(l)
      BY <2>2 DEF AnswerInv
    <3>2. \A k \in 1..Len(batch[t]) : answer[batch[t][k]].kind = "none"
      BY <1>5 DEF NoResult, R
    <3> QED
      BY <1>3, <2>2, <3>1, <3>2
  <2> QED
    BY <1>2, <2>1, <2>2 DEF AnswerInv
<1> QED
  BY <1>6, <1>7, <1>8, <1>9
\* Nothing is logged, heard or forgotten.
LEMMA GrowsNot ==
  ASSUME CommitInv, UNCHANGED <<log, heard>>
  PROVE  Grows /\ \A i \in 1..Len(log') : i \in 1..Len(log)
BY DEF Grows, CommitInv, RoomTypeOK

\* What does not depend on a commit's results, when its step leaves the room
\* alone.
LEMMA RoomKept ==
  ASSUME CommitInv, UNCHANGED <<log, heard, recent, forgot>>
  PROVE  LogInv' /\ RecentInv' /\ HeardInv'
<1>1. LogInv' /\ RecentInv'
  BY DEF CommitInv, LogInv, RecentInv, Backed, Key, Sender
<1>2. \A key : Known(key) => Known(key)'
  BY DEF Known, KeysIn
<1> QED
  BY <1>1, <1>2, HeardKept DEF CommitInv, RoomTypeOK

\* The steps that end a commit early: every line is told what became of it.
LEMMA CommitFailsStep ==
  ASSUME LeadInv, LeadInv', CommitInv, NEW t \in Threads,
         StoreFails(t) \/ CommitPanics(t) \/ CheckPoisoned(t)
  PROVE  CommitInv'
<1>1. PICK b, r : b = batch[t] /\ r = res[t]
  OBVIOUS
<1>2. /\ pc[t] \in {"serial"} \cup Committing /\ pc' = [pc EXCEPT ![t] = "answer"]
      /\ UNCHANGED <<queue, slot, answer, mine, todo, found, batch, mod, log, heard,
                     recent, forgot, gone, purged>>
      /\ faults' = faults \/ (faults < MaxFaults /\ faults' = faults + 1)
      /\ poisoned' = poisoned \/ poisoned' = TRUE
      /\ IF pc[t] = "serial" THEN serial' = serial ELSE serial' = NoThread
  BY DEF StoreFails, CommitPanics, CheckPoisoned, Panicked, Fault, At, Goto, stateVars,
         stageVars, Committing
<1>3. \/ /\ pc[t] = "append"
         /\ res' = [res EXCEPT ![t] = [i \in 1..Len(r) |->
                      IF r[i].kind \in {"live", "repeat"} THEN R("failed", 0) ELSE r[i]]]
      \/ res' = [res EXCEPT ![t] = [i \in 1..Len(b) |-> R("panicked", 0)]]
  BY <1>1 DEF StoreFails, CommitPanics, CheckPoisoned, Panicked, At
<1>4. /\ pc \in [Threads -> PCs] /\ res \in [Threads -> Seq(Result)]
      /\ b \in Seq(Lines) /\ Len(b) \in Nat /\ r \in Seq(Result) /\ Len(r) \in Nat
  <2>1. /\ batch \in [Threads -> Seq(Lines)] /\ res \in [Threads -> Seq(Result)]
        /\ pc \in [Threads -> PCs]
    BY DEF LeadInv, LeadTypeOK, CommitInv, RoomTypeOK
  <2>2. b \in Seq(Lines) /\ r \in Seq(Result)
    BY <1>1, <2>1
  <2> QED
    BY <2>1, <2>2
<1>5. R("failed", 0) \in Result /\ R("panicked", 0) \in Result
  BY DEF R, Result, Kinds
<1>6. PICK q : /\ q \in Seq(Result) /\ res' = [res EXCEPT ![t] = q] /\ Len(q) = Len(b)
               /\ \A i \in 1..Len(b) :
                    \/ q[i] = R("panicked", 0)
                    \/ /\ pc[t] = "append"
                       /\ q[i] = IF r[i].kind \in {"live", "repeat"} THEN R("failed", 0) ELSE r[i]
  <2>1. CASE res' = [res EXCEPT ![t] = [i \in 1..Len(b) |-> R("panicked", 0)]]
    <3> DEFINE q == [i \in 1..Len(b) |-> R("panicked", 0)]
    <3>1. q \in Seq(Result) /\ Len(q) = Len(b) /\ \A i \in 1..Len(b) : q[i] = R("panicked", 0)
      <4>1. q \in [1..Len(b) -> Result]
        BY <1>5
      <4> QED
        BY <1>4, <4>1, SeqDef
    <3>2. res' = [res EXCEPT ![t] = q]
      BY <2>1
    <3> HIDE DEF q
    <3> QED
      BY <3>1, <3>2
  <2>2. CASE /\ pc[t] = "append"
             /\ res' = [res EXCEPT ![t] = [i \in 1..Len(r) |->
                      IF r[i].kind \in {"live", "repeat"} THEN R("failed", 0) ELSE r[i]]]
    <3> DEFINE q == [i \in 1..Len(r) |->
                      IF r[i].kind \in {"live", "repeat"} THEN R("failed", 0) ELSE r[i]]
    <3>1. Len(r) = Len(b)
      BY <1>1, <2>2 DEF CommitInv, ResInv, ResOK, Committing
    <3>2. /\ q \in Seq(Result) /\ Len(q) = Len(b)
          /\ \A i \in 1..Len(b) : q[i] = IF r[i].kind \in {"live", "repeat"} THEN R("failed", 0) ELSE r[i]
      <4>1. q \in [1..Len(r) -> Result]
        BY <1>4, <1>5
      <4> QED
        BY <1>4, <3>1, <4>1, SeqDef
    <3>3. res' = [res EXCEPT ![t] = q]
      BY <2>2
    <3> HIDE DEF q
    <3> QED
      BY <3>2, <3>3, <2>2
  <2> QED
    BY <1>3, <2>1, <2>2
<1>7. RoomTypeOK'
  <2>1. res' \in [Threads -> Seq(Result)]
    BY <1>4, <1>6
  <2>2. faults' \in 0..MaxFaults
    BY <1>2, ChatCommitAssumption DEF CommitInv, RoomTypeOK
  <2>3. serial' \in Threads \cup {NoThread} /\ poisoned' \in BOOLEAN
    BY <1>2 DEF CommitInv, RoomTypeOK
  <2> QED
    BY <1>2, <2>1, <2>2, <2>3 DEF CommitInv, RoomTypeOK
<1>8. SerialInv'
  <2>1. pc'[t] = "answer" /\ \A u \in Threads : u # t => pc'[u] = pc[u]
    BY <1>2, <1>4
  <2>2. ASSUME NEW u \in Threads PROVE pc'[u] \in Committing <=> serial' = u
    <3>1. pc[u] \in Committing <=> serial = u
      BY DEF CommitInv, SerialInv
    <3>2. pc[t] \in Committing <=> serial = t
      BY DEF CommitInv, SerialInv
    <3> QED
      BY <1>2, <2>1, <3>1, <3>2, ChatCommitAssumption DEF Committing
  <2> QED
    BY <2>2 DEF SerialInv
<1>9. ResInv(t)'
  <2>1. pc'[t] = "answer" /\ res'[t] = q /\ batch'[t] = b
    BY <1>1, <1>2, <1>4, <1>6
  <2>2. \A l, id : /\ Truthful(l, id) => Truthful(l, id)'
                   /\ InLog(l)' => InLog(l)
    BY <1>2 DEF Truthful, Repeats, InLog, WasHeard, Key, Sender
  <2>3. ASSUME NEW i \in 1..Len(b)
        PROVE  /\ q[i].kind \in {"gone", "ok", "equivocation", "failed", "panicked"}
               /\ q[i].kind = "ok" => Truthful(b[i], q[i].id)
               /\ q[i].kind \in {"gone", "equivocation", "failed"} => ~InLog(b[i])
    <3>1. CASE q[i] = R("panicked", 0)
      BY <3>1 DEF R
    <3>2. CASE /\ pc[t] = "append"
               /\ q[i] = IF r[i].kind \in {"live", "repeat"} THEN R("failed", 0) ELSE r[i]
      <4>1. LineInv("append", b, r, i)
        BY <1>1, <3>2 DEF CommitInv, ResInv, ResOK, Committing
      <4>2. ~InLog(b[i])
        BY <1>1, <3>2 DEF CommitInv, BatchInv
      <4>3. /\ r[i].kind \in {"gone", "live", "ok", "equivocation", "repeat"}
            /\ r[i].kind = "ok" => Truthful(b[i], r[i].id)
        BY <4>1 DEF LineInv, KindsAt
      <4>4. R("failed", 0).kind = "failed"
        BY DEF R
      <4> QED
        BY <3>2, <4>2, <4>3, <4>4
    <3> QED
      BY <1>6, <3>1, <3>2
  <2>4. ASSUME NEW i \in 1..Len(b) PROVE LineInv("answer", b, q, i)'
    BY <2>2, <2>3 DEF LineInv, KindsAt
  <2>5. \A i, j \in 1..Len(b) : PairInv(b, q, i, j)'
    BY <2>3 DEF PairInv
  <2>6. ResOK("answer", b, q)'
    BY <1>6, <2>4, <2>5 DEF ResOK
  <2> QED
    BY <2>1, <2>6 DEF ResInv
<1>10. LogInv' /\ RecentInv' /\ HeardInv'
  BY <1>2, RoomKept
<1>11. Grows /\ \A i \in 1..Len(log') : i \in 1..Len(log)
  BY <1>2, GrowsNot
<1> QED
  BY <1>2, <1>7, <1>8, <1>9, <1>10, <1>11, CommitStep
\* Verdict, with its first line alike named: none of a line whose session is
\* gone.
LEMMA VerdictFacts ==
  ASSUME NEW b, NEW i \in Nat \ {0}, SessionOf[b[i]] \notin gone
  PROVE  \E f \in 1..i :
           /\ Key(b[f]) = Key(b[i]) /\ SessionOf[b[f]] \notin gone
           /\ \A k \in 1..i :
                Key(b[k]) = Key(b[i]) /\ SessionOf[b[k]] \notin gone => f <= k
           /\ Verdict(b, i) =
                IF Guid[b[i]] = NoGuid THEN R("live", 0)
                ELSE IF Remembered(Key(b[i]))
                     THEN RepeatOf(Memory(Key(b[i])).id, Memory(Key(b[i])).said, b[i])
                ELSE IF f = i THEN R("live", 0)
                ELSE IF RepeatOf(0, Said[b[f]], b[i]).kind = "ok" THEN R("repeat", f)
                ELSE R("equivocation", 0)
<1> DEFINE alike == {j \in 1..i : SessionOf[b[j]] \notin gone /\ Key(b[j]) = Key(b[i])}
           first == CHOOSE j \in alike : \A k \in alike : j <= k
<1>1. alike # {} /\ alike \in SUBSET Nat
  OBVIOUS
<1>2. \E j \in alike : \A k \in alike : j <= k
  <2> HIDE DEF alike
  <2> QED
    BY <1>1, LeastNat
<1>3. first \in alike /\ \A k \in alike : first <= k
  <2> HIDE DEF alike
  <2> QED
    BY <1>2
<1>4. Verdict(b, i) =
        IF SessionOf[b[i]] \in gone THEN R("gone", 0)
        ELSE IF Guid[b[i]] = NoGuid THEN R("live", 0)
        ELSE IF Remembered(Key(b[i]))
             THEN RepeatOf(Memory(Key(b[i])).id, Memory(Key(b[i])).said, b[i])
        ELSE IF first = i THEN R("live", 0)
        ELSE IF RepeatOf(0, Said[b[first]], b[i]).kind = "ok" THEN R("repeat", first)
        ELSE R("equivocation", 0)
  BY Zenon DEF Verdict
<1>5. first \in 1..i /\ Key(b[first]) = Key(b[i]) /\ SessionOf[b[first]] \notin gone
      /\ \A k \in 1..i :
           Key(b[k]) = Key(b[i]) /\ SessionOf[b[k]] \notin gone => first <= k
  <2> HIDE DEF first
  <2> QED
    BY <1>3
<1> HIDE DEF first
<1> QED
  BY <1>4, <1>5

\* What Check makes of a batch that is in no log: a line goes on to the log
\* only if its guid was not heard before, and once.
LEMMA CheckFacts ==
  ASSUME CommitInv, NEW b \in Seq(Lines), NEW q,
         \A i \in 1..Len(b) : ~InLog(b[i]),
         q = [i \in 1..Len(b) |-> Verdict(b, i)]
  PROVE  q \in Seq(Result) /\ ResOK("append", b, q)
<1>1. Len(b) \in Nat /\ \A i \in 1..Len(b) : b[i] \in Lines /\ q[i] = Verdict(b, i)
  OBVIOUS
<1> DEFINE Is(i, f) ==
             /\ f \in 1..i /\ Key(b[f]) = Key(b[i]) /\ SessionOf[b[f]] \notin gone
             /\ \A k \in 1..i :
                  Key(b[k]) = Key(b[i]) /\ SessionOf[b[k]] \notin gone => f <= k
             /\ q[i] =
                  IF Guid[b[i]] = NoGuid THEN R("live", 0)
                  ELSE IF Remembered(Key(b[i]))
                       THEN RepeatOf(Memory(Key(b[i])).id, Memory(Key(b[i])).said, b[i])
                  ELSE IF f = i THEN R("live", 0)
                  ELSE IF RepeatOf(0, Said[b[f]], b[i]).kind = "ok" THEN R("repeat", f)
                  ELSE R("equivocation", 0)
<1>2. ASSUME NEW i \in 1..Len(b), SessionOf[b[i]] \notin gone PROVE \E f : Is(i, f)
  <2>1. i \in Nat \ {0}
    BY <1>1
  <2> QED
    BY <1>1, <1>2, <2>1, VerdictFacts
<1>10. ASSUME NEW i \in 1..Len(b), SessionOf[b[i]] \in gone PROVE q[i] = R("gone", 0)
  BY <1>1, <1>10 DEF Verdict
<1>3. /\ R("gone", 0).kind = "gone" /\ R("live", 0).kind = "live"
      /\ R("equivocation", 0).kind = "equivocation"
      /\ \A f : R("repeat", f).kind = "repeat" /\ R("repeat", f).id = f
  BY DEF R
<1>4. ASSUME NEW i \in 1..Len(b), Guid[b[i]] # NoGuid, Remembered(Key(b[i]))
      PROVE  LET r == RepeatOf(Memory(Key(b[i])).id, Memory(Key(b[i])).said, b[i])
             IN  /\ r \in Result /\ r.kind \in {"ok", "equivocation"}
                 /\ r.kind = "ok" => Repeats(b[i], r.id)
  <2>1. Repeats(b[i], Memory(Key(b[i])).id)
    BY <1>1, <1>4, FoundRepeats
  <2>2. Memory(Key(b[i])).id \in Nat
    BY <2>1 DEF Repeats, CommitInv, RoomTypeOK
  <2> QED
    BY <2>1, <2>2, RepeatOfFacts
<1>5. ASSUME NEW l, Guid[l] # NoGuid, ~Remembered(Key(l)) PROVE Unheard(l)
  <2>1. Key(l) \notin KeysIn(recent)
    BY <1>5 DEF Remembered, KeysIn
  <2> SUFFICES ASSUME NEW h \in 1..Len(heard), heard[h].kind = "line",
                      Key(log[heard[h].id].line) = Key(l)
               PROVE  Key(l) \in forgot
    BY DEF Unheard
  <2>2. Guid[log[heard[h].id].line] # NoGuid
    BY <1>5 DEF Key
  <2>3. Known(Key(log[heard[h].id].line))
    BY <2>2 DEF CommitInv, HeardInv
  <2> QED
    BY <2>1, <2>3 DEF Known
<1>6. ASSUME NEW i \in 1..Len(b) PROVE q[i] \in Result /\ LineInv("append", b, q, i)
  <2>2. CASE SessionOf[b[i]] \in gone
    <3>1. q[i] = R("gone", 0)
      BY <1>10, <2>2
    <3> QED
      BY <1>3, <3>1 DEF LineInv, KindsAt, Result, Kinds, R
  <2>1. SUFFICES ASSUME NEW f, SessionOf[b[i]] \notin gone, Is(i, f)
        PROVE  q[i] \in Result /\ LineInv("append", b, q, i)
    BY <1>2, <2>2
  <2>3. CASE SessionOf[b[i]] \notin gone /\ Guid[b[i]] = NoGuid
    <3>1. q[i] = R("live", 0)
      BY <2>1, <2>3
    <3> QED
      BY <1>3, <2>3, <3>1 DEF LineInv, KindsAt, Unheard, Result, Kinds, R
  <2>4. CASE SessionOf[b[i]] \notin gone /\ Guid[b[i]] # NoGuid /\ Remembered(Key(b[i]))
    <3>1. /\ q[i] \in Result /\ q[i].kind \in {"ok", "equivocation"}
          /\ q[i].kind = "ok" => Repeats(b[i], q[i].id)
      BY <1>4, <2>1, <2>4
    <3> QED
      BY <3>1 DEF LineInv, KindsAt, Truthful
  <2>5. CASE SessionOf[b[i]] \notin gone /\ Guid[b[i]] # NoGuid /\ ~Remembered(Key(b[i]))
    <3>1. f \in 1..Len(b) /\ f \in 1..f /\ Key(b[f]) = Key(b[i]) /\ f \in Nat
      BY <1>1, <2>1
    <3>2. CASE f = i
      <4>1. q[i] = R("live", 0) /\ Unheard(b[i])
        BY <1>5, <2>1, <2>5, <3>2
      <4> QED
        BY <1>3, <4>1 DEF LineInv, KindsAt, Result, Kinds, R
    <3>3. CASE f # i /\ RepeatOf(0, Said[b[f]], b[i]).kind = "ok"
      <4>1. q[i] = R("repeat", f)
        BY <2>1, <2>5, <3>3
      <4>2. q[f].kind \in {"gone", "live"}
        <5>1. PICK g : Is(f, g)
          BY <1>2, <2>1, <3>1
        <5>2. g = f
          <6>1. /\ g \in 1..f /\ g \in 1..i /\ Key(b[g]) = Key(b[i])
                /\ SessionOf[b[g]] \notin gone
            BY <5>1, <2>1, <3>1
          <6>2. f <= g
            BY <6>1, <2>1
          <6> QED
            BY <3>1, <6>1, <6>2
        <5>3. Guid[b[f]] # NoGuid /\ ~Remembered(Key(b[f]))
          BY <2>5, <3>1 DEF Key
        <5>4. q[f] = R("live", 0)
          BY <5>1, <5>2, <5>3
        <5> QED
          BY <5>4, <1>3
      <4>3. q[i].kind = "repeat" /\ q[i].id = f /\ q[i] \in Result
        BY <4>1, <3>1 DEF R, Result, Kinds
      <4> QED
        BY <2>5, <3>1, <4>2, <4>3 DEF LineInv, KindsAt
    <3>4. CASE f # i /\ RepeatOf(0, Said[b[f]], b[i]).kind # "ok"
      <4>1. q[i] = R("equivocation", 0)
        BY <2>1, <2>5, <3>4
      <4> QED
        BY <1>3, <4>1 DEF LineInv, KindsAt, Result, Kinds, R
    <3> QED
      BY <3>2, <3>3, <3>4
  <2> QED
    BY <2>2, <2>3, <2>4, <2>5
<1>7. ASSUME NEW i \in 1..Len(b), NEW j \in 1..Len(b), i < j,
             q[i].kind \in {"live", "new"}, q[j].kind \in {"live", "new"},
             Guid[b[j]] # NoGuid, Key(b[i]) = Key(b[j])
      PROVE  FALSE
  <2>0. SessionOf[b[i]] \notin gone /\ SessionOf[b[j]] \notin gone
    BY <1>3, <1>7, <1>10
  <2>1. PICK f : Is(j, f)
    BY <1>2, <2>0
  <2>2. i \in 1..j /\ f <= i /\ f # j
    BY <1>1, <1>7, <2>0, <2>1
  <2>3. ~Remembered(Key(b[j]))
    BY <1>4, <1>7, <2>1
  <2>4. q[j] \in {R("repeat", f), R("equivocation", 0)}
    BY <1>7, <2>1, <2>2, <2>3
  <2> QED
    BY <1>3, <1>7, <2>4
<1>8. ASSUME NEW i \in 1..Len(b), NEW j \in 1..Len(b) PROVE PairInv(b, q, i, j)
  <2>1. q[i].kind # "new" /\ q[j].kind # "new"
    BY <1>6 DEF LineInv, KindsAt
  <2>2. ASSUME q[i].kind \in {"live", "new"}, q[j].kind \in {"live", "new"},
               Guid[b[i]] # NoGuid, Key(b[i]) = Key(b[j])
        PROVE  i = j
    <3>1. Guid[b[j]] # NoGuid
      BY <2>2 DEF Key
    <3>2. ~(i < j) /\ ~(j < i)
      BY <1>7, <2>2, <3>1
    <3> QED
      BY <1>1, <3>2
  <2> QED
    BY <2>1, <2>2 DEF PairInv
<1>9. Len(q) = Len(b) /\ q \in Seq(Result)
  <2>1. q \in [1..Len(b) -> Result]
    BY <1>6
  <2> QED
    BY <1>1, <2>1, SeqDef
<1> QED
  BY <1>6, <1>8, <1>9 DEF ResOK

\* Check, under the serial that nobody held.
LEMMA CheckStep ==
  ASSUME LeadInv, LeadInv', CommitInv, NEW t \in Threads, Check(t)
  PROVE  CommitInv'
<1>1. PICK b, q : b = batch[t] /\ q = [i \in 1..Len(b) |-> Verdict(b, i)]
  OBVIOUS
<1>2. /\ pc[t] = "serial" /\ serial = NoThread /\ serial' = t
      /\ pc' = [pc EXCEPT ![t] = "append"] /\ res' = [res EXCEPT ![t] = q]
      /\ UNCHANGED <<queue, slot, answer, mine, todo, found, batch, mod, log, heard,
                     recent, forgot, gone, purged, poisoned, faults>>
  BY <1>1 DEF Check, At, Goto, stateVars, stageVars, otherVars
<1>3. /\ pc \in [Threads -> PCs] /\ res \in [Threads -> Seq(Result)] /\ b \in Seq(Lines)
  <2>1. batch \in [Threads -> Seq(Lines)]
    BY DEF LeadInv, LeadTypeOK
  <2>2. b \in Seq(Lines)
    BY <1>1, <2>1
  <2> QED
    BY <2>2 DEF LeadInv, LeadTypeOK, CommitInv, RoomTypeOK
<1>4. \A i \in 1..Len(b) : ~InLog(b[i])
  BY <1>1, <1>2 DEF CommitInv, BatchInv
<1>5. q \in Seq(Result) /\ ResOK("append", b, q)
  BY <1>1, <1>3, <1>4, CheckFacts
<1>6. RoomTypeOK'
  <2>1. res' \in [Threads -> Seq(Result)]
    BY <1>2, <1>3, <1>5
  <2> QED
    BY <1>2, <2>1 DEF CommitInv, RoomTypeOK
<1>7. SerialInv'
  <2>1. ASSUME NEW u \in Threads PROVE pc'[u] \in Committing <=> serial' = u
    <3>1. pc[u] \notin Committing
      BY <1>2, ChatCommitAssumption DEF CommitInv, SerialInv
    <3> QED
      BY <1>2, <1>3, <3>1 DEF Committing
  <2> QED
    BY <2>1 DEF SerialInv
<1>8. \A key : Known(key) => Known(key)'
  BY <1>2 DEF Known, KeysIn
<1>9. ResOK("append", b, q)'
  BY <1>2, <1>5, <1>8, ResKept
<1>10. ResInv(t)'
  <2>1. pc'[t] = "append" /\ res'[t] = q /\ batch'[t] = b
    BY <1>1, <1>2, <1>3
  <2> QED
    BY <1>9, <2>1 DEF ResInv
<1>11. LogInv' /\ RecentInv' /\ HeardInv'
  BY <1>2, RoomKept
<1>12. Grows /\ \A i \in 1..Len(log') : i \in 1..Len(log)
  BY <1>2, GrowsNot
<1> QED
  BY <1>2, <1>6, <1>7, <1>10, <1>11, <1>12, CommitStep DEF Committing
\* What an ascending sequence of a batch's places is.
LEMMA AscendingFacts ==
  ASSUME NEW n \in Nat, NEW S \in SUBSET (1..n), NEW s \in Ascending(S)
  PROVE  /\ s \in Seq(S) /\ Len(s) \in Nat
         /\ \A i \in 1..Len(s) : s[i] \in S
         /\ \A i \in S : \E k \in 1..Len(s) : s[k] = i
         /\ \A i, k \in 1..Len(s) : i < k => s[i] < s[k]
         /\ Distinct(s)
<1>1. IsFiniteSet(S)
  <2>1. 1 \in Int /\ n \in Int
    OBVIOUS
  <2>2. IsFiniteSet(1..n)
    BY <2>1, FS_Interval
  <2> QED
    BY <2>2, FS_Subset
<1>2. Cardinality(S) \in Nat
  BY <1>1, FS_CardinalityType
<1>3. PICK c : c \in Nat /\ c = Cardinality(S)
  BY <1>2
<1>4. /\ s \in [1..c -> S]
      /\ \A i \in S : \E k \in DOMAIN s : s[k] = i
      /\ \A m, k \in DOMAIN s : m < k => s[m] < s[k]
  BY <1>3 DEF Ascending
<1>5. s \in Seq(S) /\ Len(s) = c /\ DOMAIN s = 1..c
  BY <1>3, <1>4, SeqDef
<1>6. \A i, k \in 1..c : i < k => s[i] < s[k]
  BY <1>4, <1>5
<1>7. Distinct(s)
  <2> SUFFICES ASSUME NEW i \in 1..c, NEW k \in 1..c, s[i] = s[k], i # k PROVE FALSE
    BY <1>5 DEF Distinct
  <2>1. i < k \/ k < i
    BY <1>3
  <2>2. s[i] \in S /\ s[k] \in S
    BY <1>4
  <2>3. s[i] \in 1..n /\ s[k] \in 1..n
    BY <2>2
  <2> QED
    BY <1>6, <2>1, <2>3
<1> QED
  BY <1>3, <1>4, <1>5, <1>6, <1>7

\* What the log is with lines added.
LEMMA Appended ==
  ASSUME NEW S, NEW s \in Seq(S), NEW u \in Seq(S), NEW c, c = s \o u
  PROVE  /\ c \in Seq(S) /\ Len(c) = Len(s) + Len(u)
         /\ \A i \in 1..Len(c) : c[i] = IF i <= Len(s) THEN s[i] ELSE u[i - Len(s)]
BY ConcatProperties

\* The lines of a batch at the places `s` were logged, after the N lines of
\* the log, and its results `r` became `q`.
PlacesOK(b, r, s) ==
  /\ Len(s) \in Nat /\ Distinct(s)
  /\ \A n \in 1..Len(s) : /\ s[n] \in 1..Len(b) /\ r[s[n]].kind = "live"
                          /\ Logged(b[s[n]]) = {}
  /\ \A i, k \in 1..Len(s) : i < k => s[i] < s[k]

LinesAdded(b, s, N) ==
  /\ \A i \in 1..N : log'[i] = log[i]
  /\ \A n \in 1..Len(s) : log'[N + n].line = b[s[n]] /\ N + n \in 1..Len(log')
  /\ \A i \in 1..Len(log') : i \in 1..N \/ \E n \in 1..Len(s) : i = N + n

Outcome(b, r, q, s, N) ==
  \A i \in 1..Len(b) :
    \/ r[i].kind # "live" /\ q[i] = r[i]
    \/ \E n \in 1..Len(s) : s[n] = i /\ q[i] = R("new", N + n)
    \/ r[i].kind = "live" /\ \E k \in Logged(b[i]) : q[i] = R("known", k)

\* The results stay true, and the log has each line and guid once.
LEMMA AppendedResults ==
  ASSUME CommitInv, Grows, UNCHANGED <<heard, recent, forgot>>,
         NEW b \in Seq(Lines), NEW r, NEW q, NEW s, NEW N \in Nat, N = Len(log),
         Distinct(b), ResOK("append", b, r),
         \A i \in 1..Len(b) : ~InLog(b[i]),
         Len(q) = Len(b),
         PlacesOK(b, r, s), LinesAdded(b, s, N), Outcome(b, r, q, s, N)
  PROVE  ResOK("remember", b, q)' /\ LogInv'
<1>1. Len(b) \in Nat /\ \A i \in 1..Len(b) : b[i] \in Lines
  OBVIOUS
<1>2. /\ \A n : R("new", n).kind = "new" /\ R("new", n).id = n
      /\ \A n : R("known", n).kind = "known" /\ R("known", n).id = n
  BY DEF R
<1>3. ASSUME NEW i \in 1..Len(b)
      PROVE  /\ r[i].kind \in {"gone", "live", "ok", "equivocation", "repeat"}
             /\ r[i].kind = "ok" => Truthful(b[i], r[i].id)
             /\ r[i].kind = "live" => Unheard(b[i])
             /\ r[i].kind = "repeat" =>
                  /\ r[i].id \in 1..Len(b)
                  /\ Guid[b[i]] # NoGuid /\ Key(b[r[i].id]) = Key(b[i])
                  /\ r[r[i].id].kind \in {"gone", "live", "new", "known", "ok"}
  BY DEF ResOK, LineInv, KindsAt
<1>4. \A i, j \in 1..Len(b) :
        r[i].kind = "live" /\ r[j].kind = "live" /\ Guid[b[i]] # NoGuid /\ Key(b[i]) = Key(b[j])
          => i = j
  BY DEF ResOK, PairInv
<1>5. \A l, id : /\ Repeats(l, id) => Repeats(l, id)'
                 /\ Truthful(l, id) => Truthful(l, id)'
  BY GrowsKeeps
<1>6. \A h \in 1..Len(heard) : heard[h].id \in 1..N /\ log'[heard[h].id] = log[heard[h].id]
  BY DEF CommitInv, HeardInv, LinesAdded
<1>7. \A l : Unheard(l) => Unheard(l)'
  BY <1>6 DEF Unheard, Key, Sender
<1>8. ASSUME NEW i \in 1..Len(b), r[i].kind # "live" PROVE ~InLog(b[i])'
  <2> SUFFICES ASSUME NEW k \in 1..Len(log'), log'[k].line = b[i] PROVE FALSE
    BY DEF InLog
  <2>1. CASE k \in 1..N
    BY <2>1 DEF InLog, LinesAdded
  <2>2. CASE \E n \in 1..Len(s) : k = N + n
    <3>1. PICK n \in 1..Len(s) : k = N + n
      BY <2>2
    <3>2. b[s[n]] = b[i] /\ s[n] \in 1..Len(b) /\ r[s[n]].kind = "live"
      BY <3>1 DEF PlacesOK, LinesAdded
    <3> QED
      BY <1>8, <3>2 DEF Distinct
  <2> QED
    BY <2>1, <2>2 DEF LinesAdded
<1>9. ASSUME NEW i \in 1..Len(b) PROVE LineInv("remember", b, q, i)'
  <2>1. CASE r[i].kind # "live" /\ q[i] = r[i]
    <3>1. r[i].kind \in {"gone", "ok", "equivocation", "repeat"} /\ ~InLog(b[i])'
      BY <1>3, <1>8, <2>1
    <3>2. r[i].kind = "ok" => Truthful(b[i], r[i].id)'
      BY <1>3, <1>5
    <3>3. ASSUME r[i].kind = "repeat" PROVE q[r[i].id].kind \in {"gone", "live", "new", "known", "ok"}
      <4>1. r[i].id \in 1..Len(b) /\ r[r[i].id].kind \in {"gone", "live", "new", "known", "ok"}
        BY <1>3, <3>3
      <4> QED
        BY <1>2, <4>1 DEF Outcome
    <3>4. Key(b[i])' = Key(b[i]) /\ Key(b[r[i].id])' = Key(b[r[i].id])
      BY DEF Key, Sender
    <3> QED
      BY <1>3, <2>1, <3>1, <3>2, <3>3, <3>4 DEF LineInv, KindsAt
  <2>2. CASE \E n \in 1..Len(s) : s[n] = i /\ q[i] = R("new", N + n)
    <3>1. PICK n \in 1..Len(s) : s[n] = i /\ q[i] = R("new", N + n)
      BY <2>2
    <3>2. /\ q[i].kind = "new" /\ q[i].id = N + n /\ Unheard(b[i])'
          /\ N + n \in 1..Len(log') /\ log'[N + n].line = b[i]
      <4>1. r[i].kind = "live"
        BY <3>1 DEF PlacesOK
      <4>2. N + n \in 1..Len(log') /\ log'[N + n].line = b[i]
        BY <3>1 DEF LinesAdded
      <4> QED
        BY <1>2, <1>3, <1>7, <3>1, <4>1, <4>2
    <3>3. \A h \in 1..Len(heard) : heard[h].id < N + n
      <4>1. n \in Nat \ {0}
        BY DEF PlacesOK
      <4> QED
        BY <1>6, <4>1
    <3> QED
      BY <3>2, <3>3 DEF LineInv, KindsAt
  <2>3. CASE \E k \in Logged(b[i]) : q[i] = R("known", k)
    <3>1. PICK k \in Logged(b[i]) : q[i] = R("known", k)
      BY <2>3
    <3>2. q[i].kind = "known" /\ q[i].id = k
      BY <1>2, <3>1
    <3>3. Repeats(b[i], k)'
      BY <1>5, <3>1 DEF Logged, Repeats
    <3> QED
      BY <3>2, <3>3 DEF LineInv, KindsAt
  <2> QED
    BY <2>1, <2>2, <2>3 DEF Outcome
<1>10. ASSUME NEW i \in 1..Len(b), q[i].kind = "new"
       PROVE  r[i].kind = "live" /\ \E n \in 1..Len(s) : s[n] = i /\ q[i].id = N + n
  <2>1. ~(r[i].kind # "live" /\ q[i] = r[i])
    BY <1>3, <1>10
  <2>2. ~ \E k \in Logged(b[i]) : q[i] = R("known", k)
    BY <1>2, <1>10
  <2>3. PICK n \in 1..Len(s) : s[n] = i /\ q[i] = R("new", N + n)
    BY <2>1, <2>2 DEF Outcome
  <2>4. r[i].kind = "live"
    BY <2>3 DEF PlacesOK
  <2> QED
    BY <1>2, <2>3, <2>4
<1>11. ASSUME NEW i \in 1..Len(b), NEW j \in 1..Len(b) PROVE PairInv(b, q, i, j)'
  <2>1. ASSUME q[i].kind = "new", q[j].kind = "new", i < j PROVE q[i].id < q[j].id
    <3>1. PICK n \in 1..Len(s) : s[n] = i /\ q[i].id = N + n
      BY <1>10, <2>1
    <3>2. PICK m \in 1..Len(s) : s[m] = j /\ q[j].id = N + m
      BY <1>10, <2>1
    <3>3. ~(m < n) /\ m # n
      BY <1>1, <2>1, <3>1, <3>2 DEF PlacesOK
    <3>4. m \in Nat /\ n \in Nat
      BY DEF PlacesOK
    <3> QED
      BY <3>1, <3>2, <3>3, <3>4
  <2>2. q[i].kind # "live" /\ q[j].kind # "live"
    BY <1>9 DEF LineInv, KindsAt
  <2>3. ASSUME q[i].kind = "new", q[j].kind = "new", Guid[b[i]] # NoGuid, Key(b[i]) = Key(b[j])
        PROVE  i = j
    BY <1>4, <1>10, <2>3
  <2>4. Key(b[i])' = Key(b[i]) /\ Key(b[j])' = Key(b[j])
    BY DEF Key, Sender
  <2> QED
    BY <2>1, <2>2, <2>3, <2>4 DEF PairInv
<1>12. LogInv'
  <2> DEFINE Alike(l, m) == l = m \/ (Guid[l] # NoGuid /\ Sender(l) \in Kept /\ Key(l) = Key(m))
  <2>1. \A l, m : Alike(l, m) => Alike(m, l)
    BY DEF Key
  <2>2. ASSUME NEW i \in 1..N, NEW n \in 1..Len(s), Alike(log'[i].line, log'[N + n].line)
        PROVE  FALSE
    <3>1. log'[i].line = log[i].line /\ log'[N + n].line = b[s[n]] /\ s[n] \in 1..Len(b)
      BY DEF PlacesOK, LinesAdded
    <3>2. log[i].line # b[s[n]]
      BY <3>1 DEF InLog
    <3>3. Alike(b[s[n]], log[i].line)
      BY <2>1, <2>2, <3>1
    <3>4. i \in Logged(b[s[n]])
      BY <3>2, <3>3 DEF Logged
    <3> QED
      BY <3>4 DEF PlacesOK
  <2>3. ASSUME NEW m \in 1..Len(s), NEW n \in 1..Len(s), Alike(log'[N + m].line, log'[N + n].line)
        PROVE  m = n
    <3>1. /\ log'[N + m].line = b[s[m]] /\ log'[N + n].line = b[s[n]]
          /\ s[m] \in 1..Len(b) /\ s[n] \in 1..Len(b)
          /\ r[s[m]].kind = "live" /\ r[s[n]].kind = "live"
      BY DEF PlacesOK, LinesAdded
    <3>2. CASE b[s[m]] = b[s[n]]
      <4>1. s[m] = s[n]
        BY <3>1, <3>2 DEF Distinct
      <4> QED
        BY <4>1 DEF Distinct, PlacesOK
    <3>3. CASE b[s[m]] # b[s[n]]
      <4>1. Guid[b[s[m]]] # NoGuid /\ Key(b[s[m]]) = Key(b[s[n]])
        BY <2>3, <3>1, <3>3
      <4>2. s[m] = s[n]
        BY <1>4, <3>1, <4>1
      <4> QED
        BY <4>2 DEF Distinct, PlacesOK
    <3> QED
      BY <3>2, <3>3
  <2>4. ASSUME NEW i \in 1..N, NEW j \in 1..N, Alike(log'[i].line, log'[j].line)
        PROVE  i = j
    BY <2>4 DEF CommitInv, LogInv, LinesAdded
  <2>5. ASSUME NEW i \in 1..Len(log'), NEW j \in 1..Len(log'), Alike(log'[i].line, log'[j].line)
        PROVE  i = j
    <3> HIDE DEF Alike
    <3>1. \A k \in 1..Len(log') : k \in 1..N \/ \E n \in 1..Len(s) : k = N + n
      BY DEF LinesAdded
    <3>2. CASE i \in 1..N /\ j \in 1..N
      BY <2>4, <2>5, <3>2
    <3>3. CASE i \in 1..N /\ \E n \in 1..Len(s) : j = N + n
      <4>1. PICK n \in 1..Len(s) : j = N + n
        BY <3>3
      <4> QED
        BY <2>2, <2>5, <3>3, <4>1
    <3>4. CASE j \in 1..N /\ \E n \in 1..Len(s) : i = N + n
      <4>1. PICK n \in 1..Len(s) : i = N + n
        BY <3>4
      <4>2. Alike(log'[j].line, log'[N + n].line)
        BY <2>1, <2>5, <4>1
      <4> QED
        BY <2>2, <3>4, <4>2
    <3>5. CASE (\E n \in 1..Len(s) : i = N + n) /\ \E n \in 1..Len(s) : j = N + n
      <4>1. PICK n \in 1..Len(s) : i = N + n
        BY <3>5
      <4>2. PICK m \in 1..Len(s) : j = N + m
        BY <3>5
      <4> QED
        BY <2>3, <2>5, <4>1, <4>2
    <3> QED
      BY <3>1, <3>2, <3>3, <3>4, <3>5
  <2>6. \A l : Key(l)' = Key(l) /\ Sender(l)' = Sender(l)
    BY DEF Key, Sender
  <2> QED
    BY <2>5, <2>6 DEF LogInv
<1> QED
  BY <1>9, <1>11, <1>12 DEF ResOK

\* append_all: the lines that are not in the log yet join it, in the order
\* of the batch; the others have the id of the line they repeat.
LEMMA AppendStep ==
  ASSUME LeadInv, LeadInv', CommitInv, NEW t \in Threads, AppendAll(t)
  PROVE  CommitInv'
<1> DEFINE b == batch[t]
           r == res[t]
           N == Len(log)
           live == {i \in 1..Len(b) : r[i].kind \in {"live"}}
           fresh == {i \in live : Logged(b[i]) = {}}
           known(i) == CHOOSE k \in Logged(b[i]) : TRUE
<1>2. /\ pc[t] = "append" /\ pc' = [pc EXCEPT ![t] = "remember"]
      /\ UNCHANGED <<queue, slot, answer, mine, todo, found, batch, mod, heard, serial,
                     recent, forgot, gone, purged, poisoned, faults>>
  BY DEF AppendAll, At, Goto, stateVars, stageVars, otherVars
<1>3. PICK s \in Ascending(fresh) :
        /\ log' = log \o [n \in 1..Len(s) |-> [line |-> b[s[n]], deleted |-> FALSE]]
        /\ res' = [res EXCEPT ![t] = [i \in 1..Len(r) |->
             IF i \notin live THEN r[i]
             ELSE IF {n \in 1..Len(s) : s[n] = i} # {}
                  THEN R("new", NewId(CHOOSE n \in {n \in 1..Len(s) : s[n] = i} : TRUE))
             ELSE R("known", known(i))]]
  BY Zenon DEF AppendAll, Places
<1>1. b = batch[t] /\ r = res[t] /\ N = Len(log)
  OBVIOUS
<1> HIDE DEF b, r, N
<1>4. /\ pc \in [Threads -> PCs] /\ res \in [Threads -> Seq(Result)]
      /\ b \in Seq(Lines) /\ Len(b) \in Nat /\ r \in Seq(Result)
      /\ log \in Seq([line: Lines, deleted: BOOLEAN]) /\ N \in Nat /\ Len(r) = Len(b)
      /\ Distinct(b) /\ ResOK("append", b, r)
      /\ \A i \in 1..Len(b) : b[i] \in Lines /\ ~InLog(b[i])
  <2>1. /\ batch \in [Threads -> Seq(Lines)] /\ res \in [Threads -> Seq(Result)]
        /\ pc \in [Threads -> PCs] /\ log \in Seq([line: Lines, deleted: BOOLEAN])
    BY DEF LeadInv, LeadTypeOK, CommitInv, RoomTypeOK
  <2>2. b \in Seq(Lines) /\ r \in Seq(Result) /\ N \in Nat
    BY <1>1, <2>1
  <2>3. Distinct(b) /\ \A i \in 1..Len(b) : ~InLog(b[i])
    BY <1>1, <1>2 DEF CommitInv, BatchInv
  <2>4. ResOK("append", b, r)
    BY <1>1, <1>2 DEF CommitInv, ResInv, Committing
  <2>5. Len(r) = Len(b)
    BY <2>4 DEF ResOK
  <2>6. Len(b) \in Nat /\ \A i \in 1..Len(b) : b[i] \in Lines
    BY <2>2
  <2> QED
    BY <2>1, <2>2, <2>3, <2>4, <2>5, <2>6
<1>5. /\ s \in Seq(fresh) /\ Len(s) \in Nat
      /\ \A i \in 1..Len(s) : s[i] \in fresh
      /\ \A i \in fresh : \E k \in 1..Len(s) : s[k] = i
      /\ \A i, k \in 1..Len(s) : i < k => s[i] < s[k]
      /\ Distinct(s)
  <2>1. fresh \in SUBSET (1..Len(b))
    OBVIOUS
  <2> HIDE DEF fresh
  <2> QED
    BY <1>4, <2>1, AscendingFacts
<1>6. /\ Len(log') = N + Len(s) /\ Len(log') \in Nat
      /\ log' \in Seq([line: Lines, deleted: BOOLEAN])
      /\ \A i \in 1..N : log'[i] = log[i] /\ i \in 1..Len(log')
      /\ \A n \in 1..Len(s) : log'[N + n].line = b[s[n]] /\ N + n \in 1..Len(log')
      /\ \A i \in 1..Len(log') : i \in 1..N \/ \E n \in 1..Len(s) : i = N + n
  <2> DEFINE added == [n \in 1..Len(s) |-> [line |-> b[s[n]], deleted |-> FALSE]]
  <2>1. \A n \in 1..Len(s) : [line |-> b[s[n]], deleted |-> FALSE] \in [line: Lines, deleted: BOOLEAN]
    BY <1>4, <1>5
  <2>2. added \in Seq([line: Lines, deleted: BOOLEAN]) /\ Len(added) = Len(s)
    <3>1. added \in [1..Len(s) -> [line: Lines, deleted: BOOLEAN]]
      BY <2>1
    <3> QED
      BY <1>5, <3>1, SeqDef
  <2>3. \A n \in 1..Len(s) : added[n].line = b[s[n]]
    OBVIOUS
  <2>4. log' = log \o added
    BY <1>3
  <2> HIDE DEF added
  <2> DEFINE L == [line: Lines, deleted: BOOLEAN]
  <2>9. log \in Seq(L) /\ added \in Seq(L)
    BY <1>4, <2>2
  <2> HIDE DEF L
  <2>10. /\ log' \in Seq(L) /\ Len(log') = Len(log) + Len(added)
         /\ \A i \in 1..Len(log') : log'[i] = IF i <= Len(log) THEN log[i] ELSE added[i - Len(log)]
    BY <2>4, <2>9, Appended
  <2>5. /\ log' \in Seq([line: Lines, deleted: BOOLEAN]) /\ Len(log') = N + Len(s)
        /\ \A i \in 1..Len(log') : log'[i] = IF i <= N THEN log[i] ELSE added[i - N]
    BY <1>1, <2>2, <2>10 DEF L
  <2>6. \A i \in 1..N : log'[i] = log[i] /\ i \in 1..Len(log')
    BY <1>4, <1>5, <2>5
  <2>7. ASSUME NEW n \in 1..Len(s) PROVE log'[N + n].line = b[s[n]] /\ N + n \in 1..Len(log')
    <3>1. N + n \in 1..Len(log') /\ ~(N + n <= N) /\ (N + n) - N = n
      BY <1>4, <1>5, <2>5
    <3> QED
      BY <2>3, <2>5, <3>1
  <2>8. ASSUME NEW i \in 1..Len(log') PROVE i \in 1..N \/ \E n \in 1..Len(s) : i = N + n
    <3>1. i \in 1..N \/ (i - N \in 1..Len(s) /\ i = N + (i - N))
      BY <1>4, <1>5, <2>5
    <3> QED
      BY <3>1
  <2> QED
    BY <1>4, <1>5, <2>5, <2>6, <2>7, <2>8
<1>7. PICK q : /\ q \in Seq(Result) /\ res' = [res EXCEPT ![t] = q] /\ Len(q) = Len(b)
               /\ \A i \in 1..Len(b) :
                    \/ i \notin live /\ q[i] = r[i]
                    \/ i \in fresh /\ \E n \in 1..Len(s) : s[n] = i /\ q[i] = R("new", N + n)
                    \/ i \in live /\ \E k \in Logged(b[i]) : q[i] = R("known", k)
  <2> DEFINE at(i) == CHOOSE n \in {n \in 1..Len(s) : s[n] = i} : TRUE
             out(i) == IF i \notin live THEN r[i]
                       ELSE IF {n \in 1..Len(s) : s[n] = i} # {} THEN R("new", NewId(at(i)))
                       ELSE R("known", known(i))
             q == [i \in 1..Len(r) |-> out(i)]
  <2>1. ASSUME NEW i \in 1..Len(b)
        PROVE  \/ i \notin live /\ out(i) = r[i]
               \/ i \in fresh /\ \E n \in 1..Len(s) : s[n] = i /\ out(i) = R("new", N + n)
               \/ i \in live /\ \E k \in Logged(b[i]) : out(i) = R("known", k)
    <3>1. CASE i \notin live
      BY <3>1
    <3>2. CASE i \in live /\ {n \in 1..Len(s) : s[n] = i} # {}
      <4>1. at(i) \in {n \in 1..Len(s) : s[n] = i}
        BY <3>2
      <4>2. out(i) = R("new", N + at(i))
        BY <1>1, <3>2 DEF NewId
      <4> HIDE DEF at, out
      <4>3. at(i) \in 1..Len(s) /\ s[at(i)] = i
        BY <4>1
      <4>4. i \in fresh
        BY <1>5, <4>3
      <4> QED
        BY <4>2, <4>3, <4>4
    <3>3. CASE i \in live /\ {n \in 1..Len(s) : s[n] = i} = {}
      <4>1. i \notin fresh
        BY <1>5, <3>3
      <4>2. Logged(b[i]) # {}
        BY <3>3, <4>1
      <4>3. known(i) \in Logged(b[i])
        BY <4>2
      <4>4. out(i) = R("known", known(i))
        BY <3>3
      <4> QED
        BY <3>3, <4>3, <4>4
    <3> QED
      BY <3>1, <3>2, <3>3
  <2>2. ASSUME NEW i \in 1..Len(b) PROVE out(i) \in Result
    <3>1. r[i] \in Result
      BY <1>4
    <3>2. \A n \in 1..Len(s) : R("new", N + n) \in Result
      BY <1>4, <1>5 DEF R, Result, Kinds
    <3>3. \A k \in Logged(b[i]) : R("known", k) \in Result
      BY <1>4 DEF Logged, R, Result, Kinds
    <3> HIDE DEF out
    <3> QED
      BY <2>1, <3>1, <3>2, <3>3
  <2>3. res' = [res EXCEPT ![t] = q]
    BY <1>3
  <2> HIDE DEF out
  <2>4. q \in Seq(Result) /\ Len(q) = Len(b)
    <3>1. q \in [1..Len(b) -> Result]
      BY <1>4, <2>2
    <3> QED
      BY <1>4, <3>1, SeqDef
  <2>5. \A i \in 1..Len(b) : q[i] = out(i)
    BY <1>4
  <2> HIDE DEF q
  <2> QED
    BY <2>1, <2>3, <2>4, <2>5
<1>11. Grows
  BY <1>1, <1>2, <1>4, <1>5, <1>6 DEF Grows, CommitInv, RoomTypeOK
<1>12. RoomTypeOK'
  <2>1. res' \in [Threads -> Seq(Result)]
    BY <1>4, <1>7
  <2> QED
    BY <1>2, <1>6, <2>1 DEF CommitInv, RoomTypeOK
<1>13. SerialInv'
  BY <1>2, <1>4 DEF CommitInv, SerialInv, Committing
<1>14. \A key : Known(key) => Known(key)'
  BY <1>2 DEF Known, KeysIn
<1>15. HeardInv'
  BY <1>1, <1>2, <1>4, <1>6, <1>14, <1>11, HeardKept DEF CommitInv, Grows
<1>16. RecentInv'
  BY <1>1, <1>2, <1>6 DEF CommitInv, RecentInv, Backed, Key, Sender
<1>17. batch'[t] = b /\ res'[t] = q /\ pc'[t] = "remember"
  BY <1>1, <1>2, <1>4, <1>7
<1>18. PICK b0, r0, n0 : b0 = b /\ r0 = r /\ n0 = N
  OBVIOUS
<1>19. PlacesOK(b, r, s)
  BY <1>5 DEF PlacesOK
<1>20. Outcome(b, r, q, s, N)
  BY <1>7 DEF Outcome
<1>21. LinesAdded(b, s, N)
  BY <1>6 DEF LinesAdded
<1> HIDE DEF fresh, live, known
<1>22. ResOK("remember", b0, q)' /\ LogInv'
  <2>1. b0 \in Seq(Lines) /\ n0 \in Nat /\ n0 = Len(log) /\ Distinct(b0) /\ Len(q) = Len(b0)
    BY <1>1, <1>4, <1>7, <1>18
  <2>2. ResOK("append", b0, r0) /\ \A i \in 1..Len(b0) : ~InLog(b0[i])
    BY <1>4, <1>18
  <2>3. PlacesOK(b0, r0, s) /\ LinesAdded(b0, s, n0) /\ Outcome(b0, r0, q, s, n0)
    BY <1>18, <1>19, <1>20, <1>21
  <2> QED
    BY <1>2, <1>11, <2>1, <2>2, <2>3, AppendedResults
<1>23. ResInv(t)'
  BY <1>17, <1>18, <1>22 DEF ResInv
<1>24. \A i \in 1..Len(log') :
         i \in 1..Len(log) \/ \E k \in 1..Len(batch[t]) : log'[i].line = batch[t][k]
  <2>1. ASSUME NEW n \in 1..Len(s) PROVE \E k \in 1..Len(b) : log'[N + n].line = b[k]
    BY <1>6, <1>19 DEF PlacesOK
  <2>2. ASSUME NEW i \in 1..Len(log')
        PROVE  i \in 1..N \/ \E k \in 1..Len(b) : log'[i].line = b[k]
    <3>1. i \in 1..N \/ \E n \in 1..Len(s) : i = N + n
      BY <1>6
    <3> QED
      BY ONLY <2>1, <3>1
  <2>3. N = Len(log) /\ b = batch[t]
    BY <1>1
  <2> QED
    BY ONLY <2>2, <2>3
<1>25. pc[t] \in {"serial"} \cup Committing /\ "remember" \in Committing \cup {"answer"}
  BY <1>2 DEF Committing
<1> QED
  BY <1>2, <1>11, <1>12, <1>13, <1>15, <1>16, <1>22, <1>23, <1>24, <1>25, CommitStep
\* The guids of what is new are remembered, and what the log had already is
\* answered with its id.
LEMMA RememberedResults ==
  ASSUME UNCHANGED <<log, heard>>, forgot \subseteq forgot',
         \A key : Known(key) => Known(key)',
         NEW b, NEW r, NEW q, ResOK("remember", b, r), Len(q) = Len(b),
         \A i \in 1..Len(b) :
           q[i] = IF r[i].kind = "known" THEN R("ok", r[i].id) ELSE r[i],
         \A i \in 1..Len(b) :
           r[i].kind = "new" /\ Guid[b[i]] # NoGuid => Known(Key(b[i]))'
  PROVE  ResOK("relay", b, q)'
<1>1. \A l, id : /\ Truthful(l, id) <=> Truthful(l, id)'
                 /\ Repeats(l, id) <=> Repeats(l, id)'
                 /\ InLog(l) <=> InLog(l)'
  BY DEF Truthful, Repeats, InLog, WasHeard, Key, Sender
<1>2. \A l : Unheard(l) => Unheard(l)'
  BY DEF Unheard, Key, Sender
<1>3. \A id : R("ok", id).kind = "ok" /\ R("ok", id).id = id
  BY DEF R
<1>4. \A l : Key(l)' = Key(l)
  BY DEF Key, Sender
<1>5. ASSUME NEW i \in 1..Len(b) PROVE LineInv("relay", b, q, i)'
  <2>1. LineInv("remember", b, r, i)
    BY DEF ResOK
  <2>2. CASE r[i].kind = "known"
    <3>1. q[i].kind = "ok" /\ q[i].id = r[i].id /\ Repeats(b[i], r[i].id)
      BY <1>3, <2>1, <2>2 DEF LineInv
    <3>2. Truthful(b[i], q[i].id)'
      BY <1>1, <3>1 DEF Truthful
    <3> QED
      BY <3>1, <3>2 DEF LineInv, KindsAt
  <2>3. CASE r[i].kind # "known"
    <3>1. q[i] = r[i]
      BY <2>3
    <3>2. r[i].kind \in {"gone", "new", "ok", "equivocation", "repeat"}
      BY <2>1, <2>3 DEF LineInv, KindsAt
    <3>3. ASSUME r[i].kind = "repeat"
          PROVE  /\ r[i].id \in 1..Len(b)
                 /\ Guid[b[i]] # NoGuid /\ Key(b[r[i].id]) = Key(b[i])
                 /\ q[r[i].id].kind \in {"gone", "live", "new", "known", "ok"}
      <4>1. /\ r[i].id \in 1..Len(b)
            /\ Guid[b[i]] # NoGuid /\ Key(b[r[i].id]) = Key(b[i])
            /\ r[r[i].id].kind \in {"gone", "live", "new", "known", "ok"}
        BY <2>1, <3>3 DEF LineInv
      <4> QED
        BY <1>3, <4>1
    <3>4. ASSUME r[i].kind = "new"
          PROVE  /\ r[i].id \in 1..Len(log) /\ log[r[i].id].line = b[i]
                 /\ \A h \in 1..Len(heard) : heard[h].id < r[i].id
                 /\ Guid[b[i]] # NoGuid => Known(Key(b[i]))'
      BY <2>1, <3>4 DEF LineInv
    <3>5. /\ r[i].kind = "ok" => Truthful(b[i], r[i].id)'
          /\ r[i].kind \in {"gone", "equivocation", "failed", "repeat"} => ~InLog(b[i])'
          /\ r[i].kind \in {"live", "new"} => Unheard(b[i])'
      BY <1>1, <1>2, <2>1 DEF LineInv
    <3> QED
      BY <1>4, <3>1, <3>2, <3>3, <3>4, <3>5 DEF LineInv, KindsAt
  <2> QED
    BY <2>2, <2>3
<1>6. ASSUME NEW i \in 1..Len(b), NEW j \in 1..Len(b) PROVE PairInv(b, q, i, j)'
  <2>1. PairInv(b, r, i, j)
    BY DEF ResOK
  <2> QED
    BY <1>3, <1>4, <2>1 DEF PairInv
<1> QED
  BY <1>5, <1>6 DEF ResOK

\* RememberLines.
LEMMA RememberStep ==
  ASSUME LeadInv, LeadInv', CommitInv, NEW t \in Threads, RememberLines(t)
  PROVE  CommitInv'
<1> DEFINE b == batch[t]
           r == res[t]
           logged == {i \in {i \in 1..Len(b) : r[i].kind \in {"new", "known"}} : Guid[b[i]] # NoGuid}
           entry(i) == [key |-> Key(b[i]), id |-> r[i].id, said |-> Said[b[i]]]
           q == [i \in 1..Len(r) |-> IF r[i].kind = "known" THEN R("ok", r[i].id) ELSE r[i]]
<1>1. b = batch[t] /\ r = res[t]
  OBVIOUS
<1>2. /\ pc[t] = "remember" /\ pc' = [pc EXCEPT ![t] = "relay"]
      /\ UNCHANGED <<queue, slot, answer, mine, todo, found, batch, mod, log, heard, serial,
                     gone, purged, poisoned, faults>>
      /\ res' = [res EXCEPT ![t] = q]
  BY DEF RememberLines, At, Goto, stateVars, stageVars
<1>3. PICK s \in Ascending(logged) : RememberAll([n \in 1..Len(s) |-> entry(s[n])])
  BY Zenon DEF RememberLines, Places
<1> HIDE DEF b, r
<1>4. /\ pc \in [Threads -> PCs] /\ res \in [Threads -> Seq(Result)]
      /\ b \in Seq(Lines) /\ Len(b) \in Nat /\ r \in Seq(Result) /\ Len(r) = Len(b)
      /\ ResOK("remember", b, r)
  <2>1. /\ batch \in [Threads -> Seq(Lines)] /\ res \in [Threads -> Seq(Result)]
        /\ pc \in [Threads -> PCs]
    BY DEF LeadInv, LeadTypeOK, CommitInv, RoomTypeOK
  <2>2. b \in Seq(Lines) /\ r \in Seq(Result)
    BY <1>1, <2>1
  <2>3. ResOK("remember", b, r)
    BY <1>1, <1>2 DEF CommitInv, ResInv, Committing
  <2>4. Len(r) = Len(b)
    BY <2>3 DEF ResOK
  <2> QED
    BY <2>1, <2>2, <2>3, <2>4
<1>5. /\ Len(s) \in Nat
      /\ \A n \in 1..Len(s) : s[n] \in logged
      /\ \A i \in logged : \E n \in 1..Len(s) : s[n] = i
  <2>1. logged \in SUBSET (1..Len(b))
    OBVIOUS
  <2> HIDE DEF logged
  <2> QED
    BY <1>4, <2>1, AscendingFacts
<1>6. ASSUME NEW i \in logged PROVE entry(i) \in Entries /\ Backed(entry(i))
  <2>1. /\ i \in 1..Len(b) /\ b[i] \in Lines /\ Guid[b[i]] # NoGuid
        /\ r[i].kind \in {"new", "known"} /\ LineInv("remember", b, r, i)
    BY <1>4 DEF ResOK
  <2>2. r[i].id \in 1..Len(log) /\ Key(log[r[i].id].line) = Key(b[i])
    BY <2>1 DEF LineInv, Repeats
  <2>3. Guid[log[r[i].id].line] # NoGuid
    BY <2>1, <2>2 DEF Key
  <2>4. Key(b[i]) \in Keys /\ Said[b[i]] \in Said0
    BY <2>1 DEF Keys, Said0
  <2>5. r[i].id \in Nat \ {0}
    BY <2>2 DEF CommitInv, RoomTypeOK
  <2> QED
    BY <2>2, <2>3, <2>4, <2>5 DEF Entries, Backed
<1> DEFINE es == [n \in 1..Len(s) |-> entry(s[n])]
<1>7. es \in Seq(Entries) /\ Len(es) = Len(s) /\ \A n \in 1..Len(s) : es[n] = entry(s[n])
  <2>1. \A n \in 1..Len(s) : entry(s[n]) \in Entries
    BY <1>5, <1>6
  <2> HIDE DEF entry
  <2>2. es \in [1..Len(s) -> Entries]
    BY <2>1
  <2> QED
    BY <1>5, <2>2, SeqDef
<1>8. RememberAll(es) /\ UNCHANGED log /\ \A n \in 1..Len(es) : Backed(es[n])
  <2>1. \A n \in 1..Len(s) : Backed(entry(s[n]))
    BY <1>5, <1>6
  <2> HIDE DEF entry
  <2> QED
    BY <1>2, <1>3, <1>7, <2>1
<1>9. PICK es0, b0, r0 : es0 = es /\ b0 = b /\ r0 = r
  OBVIOUS
<1>10. /\ recent' \in Seq(Entries) /\ RecentInv'
       /\ forgot' \subseteq Keys /\ forgot \subseteq forgot'
       /\ \A key : Known(key) => Known(key)'
       /\ \A n \in 1..Len(es0) : Known(es0[n].key)'
  <2>1. es0 \in Seq(Entries) /\ RememberAll(es0) /\ \A n \in 1..Len(es0) : Backed(es0[n])
    <3> HIDE DEF es
    <3> QED
      BY <1>7, <1>8, <1>9
  <2> QED
    BY <1>2, <2>1, RememberAllKeeps
<1>11. ASSUME NEW i \in 1..Len(b0), r0[i].kind = "new", Guid[b0[i]] # NoGuid
       PROVE  Known(Key(b0[i]))'
  <2>1. i \in logged
    BY <1>9, <1>11
  <2>2. PICK n \in 1..Len(s) : s[n] = i
    BY <1>5, <2>1
  <2>3. es0[n].key = Key(b0[i]) /\ n \in 1..Len(es0)
    BY <1>7, <1>9, <2>2
  <2>4. Known(es0[n].key)'
    BY <1>10, <2>3
  <2>5. Key(b0[i])' = Key(b0[i])
    BY DEF Key, Sender
  <2> QED
    BY <2>3, <2>4, <2>5
<1>12. PICK q0 : q0 = q
  OBVIOUS
<1>13. /\ q0 \in Seq(Result) /\ Len(q0) = Len(b0)
       /\ \A i \in 1..Len(b0) :
            q0[i] = IF r0[i].kind = "known" THEN R("ok", r0[i].id) ELSE r0[i]
  <2>5. \A x \in Result : R("ok", x.id) \in Result
    BY DEF Result, R, Kinds
  <2>1. \A i \in 1..Len(r) : r[i] \in Result /\ R("ok", r[i].id) \in Result
    BY <1>4, <2>5
  <2>2. q \in [1..Len(r) -> Result]
    BY <2>1
  <2>3. q \in Seq(Result) /\ Len(q) = Len(b)
    BY SMTT(30), <1>4, <2>2, SeqDef
  <2>4. \A i \in 1..Len(b) : q[i] = IF r[i].kind = "known" THEN R("ok", r[i].id) ELSE r[i]
    BY <1>4
  <2> HIDE DEF q
  <2> QED
    BY <1>9, <1>12, <2>3, <2>4
<1>14. ResOK("relay", b0, q0)'
  <2>1. ResOK("remember", b0, r0)
    BY <1>4, <1>9
  <2>2. forgot \subseteq forgot' /\ \A key : Known(key) => Known(key)'
    BY <1>10
  <2> QED
    BY <1>2, <1>11, <1>13, <2>1, <2>2, RememberedResults
<1> HIDE DEF q
<1>15. ResInv(t)'
  <2>1. pc'[t] = "relay" /\ res'[t] = q0 /\ batch'[t] = b0
    BY <1>1, <1>2, <1>4, <1>9, <1>12
  <2> QED
    BY <1>14, <2>1 DEF ResInv
<1>16. RoomTypeOK'
  <2>1. res' \in [Threads -> Seq(Result)]
    BY <1>2, <1>4, <1>12, <1>13
  <2>2. recent' \in Seq([key: Keys, id: Nat \ {0}, said: Said0]) /\ forgot' \subseteq Keys
    BY <1>10 DEF Entries
  <2> QED
    BY <1>2, <2>1, <2>2 DEF CommitInv, RoomTypeOK
<1>17. SerialInv'
  BY <1>2, <1>4 DEF CommitInv, SerialInv, Committing
<1>18. LogInv'
  BY <1>2 DEF CommitInv, LogInv, Key, Sender
<1>19. Grows /\ \A i \in 1..Len(log') : i \in 1..Len(log)
  BY <1>2, GrowsNot
<1>20. HeardInv'
  BY <1>2, <1>10, <1>19, HeardKept DEF CommitInv, Grows
<1>21. pc[t] \in {"serial"} \cup Committing /\ "relay" \in Committing \cup {"answer"}
  BY <1>2 DEF Committing
<1> QED
  BY <1>2, <1>10, <1>15, <1>16, <1>17, <1>18, <1>19, <1>20, <1>21, CommitStep

\* One line is relayed: the first of the batch that is new.
LEMMA RelayedOne ==
  ASSUME CommitInv, Grows, UNCHANGED <<log, recent, forgot>>,
         NEW b, NEW r, NEW q, NEW i \in 1..Len(b), ResOK("relay", b, r), Len(b) \in Nat,
         r[i].kind = "new", \A j \in 1..Len(b) : r[j].kind = "new" => i <= j,
         Len(q) = Len(b), q[i].kind = "ok", q[i].id = r[i].id,
         \A j \in 1..Len(b) : j # i => q[j] = r[j],
         Len(heard') = Len(heard) + 1,
         heard'[Len(heard) + 1].kind = "line", heard'[Len(heard) + 1].id = r[i].id
  PROVE  ResOK("relay", b, q)' /\ HeardInv'
<1> DEFINE N == Len(heard)
<1>1. /\ N \in Nat /\ N + 1 \in 1..Len(heard')
      /\ \A h \in 1..N : heard'[h] = heard[h] /\ h \in 1..Len(heard')
      /\ \A h \in 1..Len(heard') : h \in 1..N \/ h = N + 1
  BY DEF Grows
<1>2. \A l : Key(l)' = Key(l) /\ Sender(l)' = Sender(l)
  BY DEF Key, Sender
<1>3. /\ r[i].id \in 1..Len(log) /\ log[r[i].id].line = b[i]
      /\ \A h \in 1..N : heard[h].id < r[i].id
      /\ Guid[b[i]] # NoGuid => Known(Key(b[i]))
      /\ Unheard(b[i])
  BY DEF ResOK, LineInv
<1>4. \A l, id : /\ Repeats(l, id) => Repeats(l, id)'
                 /\ Truthful(l, id) => Truthful(l, id)'
                 /\ InLog(l)' => InLog(l)
  BY GrowsKeeps DEF InLog
<1>5. \A key : Known(key) <=> Known(key)'
  BY DEF Known, KeysIn
<1>6. ASSUME NEW j \in 1..Len(b), j # i, r[j].kind = "new"
      PROVE  i < j /\ r[i].id < r[j].id /\ ~(Guid[b[j]] # NoGuid /\ Key(b[i]) = Key(b[j]))
  <2>1. i < j
    BY <1>6
  <2>2. PairInv(b, r, i, j)
    BY DEF ResOK
  <2>3. Key(b[i]) = Key(b[j]) => Guid[b[i]] = Guid[b[j]]
    BY DEF Key
  <2> QED
    BY <1>6, <2>1, <2>2, <2>3 DEF PairInv
<1>7. ASSUME NEW j \in 1..Len(b) PROVE LineInv("relay", b, q, j)'
  <2>1. CASE j = i
    <3>1. WasHeard(r[i].id)'
      BY <1>1 DEF WasHeard
    <3>2. Truthful(b[i], r[i].id)'
      BY <1>3, <3>1 DEF Truthful
    <3> QED
      BY <2>1, <3>2 DEF LineInv, KindsAt
  <2>2. CASE j # i
    <3>1. q[j] = r[j] /\ LineInv("relay", b, r, j)
      BY <2>2 DEF ResOK
    <3>2. ASSUME r[j].kind = "new"
          PROVE  /\ Unheard(b[j])'
                 /\ \A h \in 1..Len(heard') : heard'[h].id < r[j].id
      <4>1. i < j /\ r[i].id < r[j].id /\ ~(Guid[b[j]] # NoGuid /\ Key(b[i]) = Key(b[j]))
        BY <1>6, <2>2, <3>2
      <4>2. Unheard(b[j]) /\ \A h \in 1..N : heard[h].id < r[j].id
        BY <3>1, <3>2 DEF LineInv
      <4>3. Unheard(b[j])'
        BY <1>1, <1>2, <1>3, <4>1, <4>2 DEF Unheard
      <4> QED
        BY <1>1, <4>1, <4>2, <4>3
    <3>3. ASSUME r[j].kind = "new"
          PROVE  /\ r[j].id \in 1..Len(log) /\ log[r[j].id].line = b[j]
                 /\ Guid[b[j]] # NoGuid => Known(Key(b[j]))
      BY <3>1, <3>3 DEF LineInv
    <3>4. ASSUME r[j].kind = "repeat"
          PROVE  /\ r[j].id \in 1..Len(b)
                 /\ Guid[b[j]] # NoGuid /\ Key(b[r[j].id]) = Key(b[j])
                 /\ q[r[j].id].kind \in {"gone", "live", "new", "known", "ok"}
      <4>1. /\ r[j].id \in 1..Len(b)
            /\ Guid[b[j]] # NoGuid /\ Key(b[r[j].id]) = Key(b[j])
            /\ r[r[j].id].kind \in {"gone", "live", "new", "known", "ok"}
        BY <3>1, <3>4 DEF LineInv
      <4> QED
        BY <4>1
    <3>5. /\ r[j].kind \in {"gone", "new", "ok", "equivocation", "repeat"}
          /\ r[j].kind = "ok" => Truthful(b[j], r[j].id)'
          /\ r[j].kind \in {"gone", "equivocation", "failed", "repeat"} => ~InLog(b[j])'
      BY <1>4, <3>1 DEF LineInv, KindsAt
    <3>6. \A k : Key(b[k])' = Key(b[k])
      BY <1>2
    <3>7. log' = log
      OBVIOUS
    <3> QED
      BY <1>5, <3>1, <3>2, <3>3, <3>4, <3>5, <3>6, <3>7 DEF LineInv, KindsAt
  <2> QED
    BY <2>1, <2>2
<1>8. ASSUME NEW j \in 1..Len(b), NEW k \in 1..Len(b) PROVE PairInv(b, q, j, k)'
  <2>1. PairInv(b, r, j, k)
    BY DEF ResOK
  <2>2. /\ q[j].kind = "new" => q[j] = r[j]
        /\ q[k].kind = "new" => q[k] = r[k]
        /\ q[j].kind # "live" /\ q[k].kind # "live"
    BY <1>7 DEF LineInv, KindsAt
  <2> QED
    BY <1>2, <2>1, <2>2 DEF PairInv
<1>9. HeardInOrder'
  <2> SUFFICES ASSUME NEW h \in 1..Len(heard'), NEW k \in 1..Len(heard'),
                      h < k, heard'[k].kind = "line"
               PROVE  IF heard'[h].kind = "line" THEN heard'[h].id < heard'[k].id
                                                 ELSE heard'[h].id # heard'[k].id
    BY DEF HeardInOrder
  <2>1. h \in 1..N
    BY <1>1
  <2>2. CASE k \in 1..N
    BY <1>1, <2>1, <2>2 DEF CommitInv, HeardInv, HeardInOrder
  <2>3. CASE k = N + 1
    <3>1. heard'[h].id < heard'[k].id /\ heard[h].id \in 1..Len(log)
      BY <1>1, <1>3, <2>1, <2>3 DEF CommitInv, HeardInv
    <3>2. heard'[h].id # heard'[k].id
      BY <1>1, <1>3, <2>1, <2>3, <3>1
    <3> QED
      BY <3>1, <3>2
  <2> QED
    BY <1>1, <2>2, <2>3
<1>10. ASSUME NEW h \in 1..Len(heard')
       PROVE  /\ heard'[h].id \in 1..Len(log)
              /\ heard'[h].kind = "line" /\ Guid[log[heard'[h].id].line] # NoGuid =>
                   Known(Key(log[heard'[h].id].line))
  <2>1. CASE h \in 1..N
    BY <1>1, <2>1 DEF CommitInv, HeardInv
  <2>2. CASE h = N + 1
    BY <1>1, <1>3, <2>2
  <2> QED
    BY <1>1, <2>1, <2>2
<1>11. ASSUME NEW h \in 1..Len(heard'), NEW k \in 1..Len(heard'),
              h < k, heard'[h].kind = "line", heard'[k].kind = "line",
              Guid[log[heard'[h].id].line] # NoGuid,
              Key(log[heard'[h].id].line) = Key(log[heard'[k].id].line)
       PROVE  Key(log[heard'[h].id].line) \in forgot
  <2>1. h \in 1..N /\ heard'[h] = heard[h]
    BY <1>1, <1>11
  <2>2. CASE k \in 1..N
    BY <1>1, <1>11, <2>1, <2>2 DEF CommitInv, HeardInv
  <2>3. CASE k = N + 1
    <3>1. log[heard'[k].id].line = b[i]
      BY <1>3, <2>3
    <3>2. Guid[b[i]] # NoGuid /\ Key(log[heard[h].id].line) = Key(b[i])
      BY <1>11, <2>1, <3>1 DEF Key
    <3> QED
      BY <1>3, <1>11, <2>1, <3>2 DEF Unheard
  <2> QED
    BY <1>1, <2>2, <2>3
<1>12. HeardInv'
  BY <1>2, <1>5, <1>9, <1>10, <1>11 DEF HeardInv
<1> QED
  BY <1>7, <1>8, <1>12 DEF ResOK
\* Relay.
LEMMA RelayStep ==
  ASSUME LeadInv, LeadInv', CommitInv, NEW t \in Threads, Relay(t)
  PROVE  CommitInv'
<1> DEFINE unheard == {i \in 1..Len(batch[t]) : res[t][i].kind \in {"new"}}
           first == CHOOSE i \in unheard : \A j \in unheard : i <= j
<1>1. /\ pc[t] = "relay" /\ unheard # {}
      /\ heard' = Append(heard, [kind |-> "line", id |-> res[t][first].id])
      /\ res' = [res EXCEPT ![t] = [res[t] EXCEPT ![first] = [res[t][first] EXCEPT !.kind = "ok"]]]
      /\ UNCHANGED <<queue, slot, answer, mine, todo, found, batch, mod, log, serial, pc,
                     recent, forgot, gone, purged, poisoned, faults>>
  BY Zenon DEF Relay, Places, At, stateVars, stageVars, otherVars
<1>2. unheard \in SUBSET Nat
  <2>1. batch \in [Threads -> Seq(Lines)]
    BY DEF LeadInv, LeadTypeOK
  <2>2. Len(batch[t]) \in Nat
    BY <2>1
  <2> QED
    BY <2>2
<1>3. first \in unheard /\ \A j \in unheard : first <= j
  <2> HIDE DEF unheard
  <2>1. \E i \in unheard : \A j \in unheard : i <= j
    BY <1>1, <1>2, LeastNat
  <2> QED
    BY <2>1
<1> HIDE DEF first
<1>4. PICK b, r, i : b = batch[t] /\ r = res[t] /\ i = first
  OBVIOUS
<1>5. /\ pc \in [Threads -> PCs] /\ res \in [Threads -> Seq(Result)]
      /\ b \in Seq(Lines) /\ Len(b) \in Nat /\ r \in Seq(Result) /\ Len(r) = Len(b)
      /\ ResOK("relay", b, r)
  <2>1. /\ batch \in [Threads -> Seq(Lines)] /\ res \in [Threads -> Seq(Result)]
        /\ pc \in [Threads -> PCs]
    BY DEF LeadInv, LeadTypeOK, CommitInv, RoomTypeOK
  <2>2. b \in Seq(Lines) /\ r \in Seq(Result)
    BY <1>4, <2>1
  <2>3. ResOK("relay", b, r)
    BY <1>1, <1>4 DEF CommitInv, ResInv, Committing
  <2>4. Len(r) = Len(b)
    BY <2>3 DEF ResOK
  <2> QED
    BY <2>1, <2>2, <2>3, <2>4
<1>6. i \in 1..Len(b) /\ r[i].kind = "new" /\ \A j \in 1..Len(b) : r[j].kind = "new" => i <= j
  BY <1>3, <1>4
<1>7. PICK q : q = [r EXCEPT ![i] = [r[i] EXCEPT !.kind = "ok"]]
  OBVIOUS
<1>8. /\ q \in Seq(Result) /\ Len(q) = Len(b) /\ q[i].kind = "ok" /\ q[i].id = r[i].id
      /\ \A j \in 1..Len(b) : j # i => q[j] = r[j]
  <2>1. \A x \in Result : [x EXCEPT !.kind = "ok"] \in Result
                          /\ [x EXCEPT !.kind = "ok"].kind = "ok" /\ [x EXCEPT !.kind = "ok"].id = x.id
    BY DEF Result, Kinds
  <2>2. r[i] \in Result
    BY <1>5, <1>6
  <2>3. PICK x : x = [r[i] EXCEPT !.kind = "ok"]
    OBVIOUS
  <2>4. x \in Result /\ x.kind = "ok" /\ x.id = r[i].id
    BY <2>1, <2>2, <2>3
  <2>5. q = [r EXCEPT ![i] = x]
    BY <1>7, <2>3
  <2> QED
    BY <1>5, <1>6, <2>4, <2>5
<1>9. PICK x : x = [kind |-> "line", id |-> r[i].id]
  OBVIOUS
<1>10. heard' = Append(heard, x) /\ x.kind = "line" /\ x.id = r[i].id /\ r[i].id \in Nat \ {0}
  <2>1. r[i].id \in 1..Len(log)
    BY <1>5, <1>6 DEF ResOK, LineInv
  <2>2. Len(log) \in Nat
    BY DEF CommitInv, RoomTypeOK
  <2> QED
    BY <1>1, <1>4, <1>9, <2>1, <2>2
<1>11. heard' \in Seq([kind: {"line", "redacted"}, id: Nat \ {0}])
  <2>1. heard \in Seq([kind: {"line", "redacted"}, id: Nat \ {0}])
    BY DEF CommitInv, RoomTypeOK
  <2>2. x \in [kind: {"line", "redacted"}, id: Nat \ {0}]
    BY <1>9, <1>10
  <2> QED
    BY <1>10, <2>1, <2>2
<1>12. Grows
  BY <1>1, <1>10 DEF Grows, CommitInv, RoomTypeOK
<1>13. /\ Len(heard') = Len(heard) + 1
       /\ heard'[Len(heard) + 1].kind = "line" /\ heard'[Len(heard) + 1].id = r[i].id
  BY <1>10 DEF CommitInv, RoomTypeOK
<1>14. ResOK("relay", b, q)' /\ HeardInv'
  BY <1>1, <1>5, <1>6, <1>8, <1>12, <1>13, RelayedOne
<1>15. res' = [res EXCEPT ![t] = q]
  BY <1>1, <1>4, <1>7
<1>16. ResInv(t)'
  <2>1. pc'[t] = "relay" /\ res'[t] = q /\ batch'[t] = b
    BY <1>1, <1>4, <1>5, <1>15
  <2> QED
    BY <1>14, <2>1 DEF ResInv
<1>17. RoomTypeOK'
  <2>1. res' \in [Threads -> Seq(Result)]
    BY <1>5, <1>8, <1>15
  <2> QED
    BY <1>1, <1>11, <2>1 DEF CommitInv, RoomTypeOK
<1>18. SerialInv' /\ LogInv' /\ RecentInv'
  BY <1>1 DEF CommitInv, SerialInv, LogInv, RecentInv, Backed, Key, Sender
<1>19. /\ pc[t] \in {"serial"} \cup Committing /\ "relay" \in Committing \cup {"answer"}
       /\ pc' = [pc EXCEPT ![t] = "relay"]
  BY <1>1, <1>5 DEF Committing
<1>20. \A k \in 1..Len(log') : k \in 1..Len(log)
  BY <1>1
<1> QED
  BY <1>1, <1>12, <1>14, <1>16, <1>17, <1>18, <1>19, <1>20, CommitStep

\* Relayed: a repeat in the batch is answered as the line it repeats.
LEMMA RelayedStep ==
  ASSUME LeadInv, LeadInv', CommitInv, NEW t \in Threads, Relayed(t)
  PROVE  CommitInv'
<1> DEFINE rr == res[t]
           qq == [i \in 1..Len(rr) |-> IF rr[i].kind = "repeat" THEN rr[rr[i].id] ELSE rr[i]]
<1>1. /\ pc[t] = "relay" /\ pc' = [pc EXCEPT ![t] = "answer"]
      /\ serial' = NoThread
      /\ res' = [res EXCEPT ![t] = qq]
      /\ UNCHANGED <<queue, slot, answer, mine, todo, found, batch, mod, log, heard,
                     recent, forgot, gone, purged, poisoned, faults>>
  BY DEF Relayed, At, Goto, stateVars, stageVars, otherVars
<1>2. \A i \in 1..Len(batch[t]) : rr[i].kind # "new"
  BY DEF Relayed, Places
<1>3. PICK b, r, q : b = batch[t] /\ r = rr /\ q = qq
  OBVIOUS
<1>4. Len(q) = Len(r) /\ q = [i \in 1..Len(r) |-> IF r[i].kind = "repeat" THEN r[r[i].id] ELSE r[i]]
  <2>1. rr \in Seq(Result)
    BY DEF CommitInv, RoomTypeOK
  <2>2. Len(rr) \in Nat
    BY <2>1
  <2> QED
    BY <1>3, <2>2
<1> HIDE DEF rr, qq
<1>5. /\ pc \in [Threads -> PCs] /\ res \in [Threads -> Seq(Result)]
      /\ b \in Seq(Lines) /\ Len(b) \in Nat /\ r \in Seq(Result) /\ Len(r) = Len(b)
      /\ ResOK("relay", b, r)
  <2>1. /\ batch \in [Threads -> Seq(Lines)] /\ res \in [Threads -> Seq(Result)]
        /\ pc \in [Threads -> PCs]
    BY DEF LeadInv, LeadTypeOK, CommitInv, RoomTypeOK
  <2>2. b \in Seq(Lines) /\ r \in Seq(Result)
    BY <1>3, <2>1 DEF rr
  <2>3. ResOK("relay", b, r)
    BY <1>1, <1>3 DEF CommitInv, ResInv, Committing, rr
  <2>4. Len(r) = Len(b)
    BY <2>3 DEF ResOK
  <2> QED
    BY <2>1, <2>2, <2>3, <2>4
<1>6. ASSUME NEW i \in 1..Len(b)
      PROVE  /\ r[i].kind \in {"gone", "ok", "equivocation", "repeat"}
             /\ r[i].kind = "ok" => Truthful(b[i], r[i].id)
             /\ r[i].kind \in {"gone", "equivocation", "repeat"} => ~InLog(b[i])
             /\ r[i].kind = "repeat" =>
                  /\ r[i].id \in 1..Len(b)
                  /\ Guid[b[i]] # NoGuid /\ Key(b[r[i].id]) = Key(b[i])
                  /\ r[r[i].id].kind \in {"gone", "live", "new", "known", "ok"}
  <2>1. r[i].kind # "new" /\ LineInv("relay", b, r, i)
    BY <1>2, <1>3, <1>5 DEF ResOK
  <2> QED
    BY <2>1 DEF LineInv, KindsAt
<1>7. ASSUME NEW i \in 1..Len(b)
      PROVE  /\ q[i] \in Result /\ q[i].kind \in {"gone", "ok", "equivocation"}
             /\ q[i].kind = "ok" => Truthful(b[i], q[i].id)
             /\ q[i].kind \in {"gone", "equivocation"} => ~InLog(b[i])
  <2>1. CASE r[i].kind # "repeat"
    <3>1. q[i] = r[i] /\ r[i] \in Result
      BY <1>4, <1>5, <2>1
    <3> QED
      BY <1>6, <2>1, <3>1
  <2>2. CASE r[i].kind = "repeat"
    <3>1. PICK j \in 1..Len(b) : j = r[i].id
      BY <1>6, <2>2
    <3>2. q[i] = r[j] /\ r[j] \in Result
      BY <1>4, <1>5, <2>2, <3>1
    <3>3. Guid[b[i]] # NoGuid /\ Key(b[j]) = Key(b[i]) /\ r[j].kind \in {"gone", "ok"}
      BY <1>6, <2>2, <3>1
    <3>4. r[j].kind = "ok" => Repeats(b[i], r[j].id)
      BY <1>6, <3>3 DEF Truthful, Repeats
    <3> QED
      BY <1>6, <2>2, <3>2, <3>3, <3>4 DEF Truthful
  <2> QED
    BY <2>1, <2>2
<1>8. \A l, id : /\ Truthful(l, id) => Truthful(l, id)'
                 /\ InLog(l)' => InLog(l)
  BY <1>1 DEF Truthful, Repeats, InLog, WasHeard, Key, Sender
<1>9. ASSUME NEW i \in 1..Len(b) PROVE LineInv("answer", b, q, i)'
  BY <1>7, <1>8 DEF LineInv, KindsAt
<1>10. \A i, j \in 1..Len(b) : PairInv(b, q, i, j)'
  BY <1>7 DEF PairInv
<1>11. ResOK("answer", b, q)'
  BY <1>4, <1>5, <1>9, <1>10 DEF ResOK
<1>12. q \in Seq(Result)
  <2>1. q \in [1..Len(b) -> Result]
    BY <1>4, <1>5, <1>7
  <2> QED
    BY <1>5, <2>1, SeqDef
<1>13. ResInv(t)'
  <2>1. pc'[t] = "answer" /\ res'[t] = q /\ batch'[t] = b
    BY <1>1, <1>3, <1>5
  <2> QED
    BY <1>11, <2>1 DEF ResInv
<1>14. RoomTypeOK'
  <2>1. res' \in [Threads -> Seq(Result)]
    BY <1>1, <1>3, <1>5, <1>12
  <2> QED
    BY <1>1, <2>1 DEF CommitInv, RoomTypeOK
<1>15. SerialInv'
  <2>1. ASSUME NEW u \in Threads PROVE pc'[u] \notin Committing /\ serial' # u
    <3>1. serial = t /\ (pc[u] \in Committing <=> serial = u)
      BY <1>1 DEF CommitInv, SerialInv, Committing
    <3> QED
      BY <1>1, <1>5, <3>1, ChatCommitAssumption DEF Committing
  <2> QED
    BY <2>1 DEF SerialInv
<1>16. LogInv' /\ RecentInv' /\ HeardInv'
  BY <1>1, RoomKept
<1>17. Grows /\ \A i \in 1..Len(log') : i \in 1..Len(log)
  BY <1>1, GrowsNot
<1>18. pc[t] \in {"serial"} \cup Committing
  BY <1>1 DEF Committing
<1> QED
  BY <1>1, <1>13, <1>14, <1>15, <1>16, <1>17, <1>18, CommitStep

-----------------------------------------------------------------------------
(* The steps that move no thread.                                          *)

\* The log has the lines it had, and what was heard stays heard.
SameLines ==
  /\ Len(log') = Len(log)
  /\ \A i \in 1..Len(log) : log'[i].line = log[i].line

LEMMA SeqParts ==
  ASSUME NEW S, NEW s \in Seq(S)
  PROVE  Len(s) \in Nat /\ \A i \in 1..Len(s) : s[i] \in S
OBVIOUS

LEMMA SeqFromFun ==
  ASSUME NEW S, NEW n \in Nat, NEW f \in [1..n -> S]
  PROVE  f \in Seq(S) /\ Len(f) = n
BY SeqDef

LEMMA SeqSame ==
  ASSUME NEW S, NEW s \in Seq(S), NEW u \in Seq(S), Len(s) = Len(u),
         \A i \in 1..Len(s) : s[i] = u[i]
  PROVE  s = u
OBVIOUS

\* The results of a batch, when nothing is heard.
LEMMA ResKeptLines ==
  ASSUME CommitInv, SameLines, UNCHANGED heard, forgot \subseteq forgot',
         \A key : Known(key) => Known(key)',
         NEW p, NEW b, NEW r, ResOK(p, b, r)
  PROVE  ResOK(p, b, r)'
<1>1. \A l, id : /\ Truthful(l, id) <=> Truthful(l, id)'
                 /\ Repeats(l, id) <=> Repeats(l, id)'
                 /\ InLog(l) <=> InLog(l)'
  BY DEF SameLines, Truthful, Repeats, InLog, WasHeard, Key, Sender
<1>2. \A h \in 1..Len(heard) : log'[heard[h].id].line = log[heard[h].id].line
  BY DEF SameLines, CommitInv, HeardInv
<1>3. \A l : Unheard(l) => Unheard(l)'
  BY <1>2 DEF Unheard, Key, Sender
<1>4. \A l : Key(l)' = Key(l)
  BY DEF Key, Sender
<1>5. ASSUME NEW i \in 1..Len(b), LineInv(p, b, r, i) PROVE LineInv(p, b, r, i)'
  <2>1. r[i].kind = "new" =>
          /\ r[i].id \in 1..Len(log') /\ log'[r[i].id].line = b[i]
          /\ \A h \in 1..Len(heard') : heard'[h].id < r[i].id
          /\ p = "relay" /\ Guid[b[i]] # NoGuid => Known(Key(b[i]))'
    BY <1>4, <1>5 DEF LineInv, SameLines
  <2> QED
    BY <1>1, <1>3, <1>4, <1>5, <2>1 DEF LineInv, KindsAt
<1>6. \A i, j \in 1..Len(b) : PairInv(b, r, i, j) => PairInv(b, r, i, j)'
  BY <1>4 DEF PairInv
<1> QED
  BY <1>5, <1>6 DEF ResOK

\* The results of a batch that is committed no more, whatever is heard.
LEMMA ResAnswered ==
  ASSUME SameLines, Grows, NEW b, NEW r, ResOK("answer", b, r)
  PROVE  ResOK("answer", b, r)'
<1>1. \A l, id : /\ Truthful(l, id) => Truthful(l, id)'
                 /\ InLog(l)' => InLog(l)
  BY GrowsKeeps DEF SameLines, InLog
<1>2. ASSUME NEW i \in 1..Len(b)
      PROVE  /\ r[i].kind \in {"gone", "ok", "equivocation", "failed", "panicked"}
             /\ r[i].kind = "ok" => Truthful(b[i], r[i].id)
             /\ r[i].kind \in {"gone", "equivocation", "failed"} => ~InLog(b[i])
  BY DEF ResOK, LineInv, KindsAt
<1>3. \A i \in 1..Len(b) : LineInv("answer", b, r, i)'
  BY <1>1, <1>2 DEF LineInv, KindsAt
<1>4. \A i, j \in 1..Len(b) : PairInv(b, r, i, j)'
  BY <1>2 DEF PairInv
<1> QED
  BY <1>3, <1>4 DEF ResOK

\* A step that moves no thread and logs no line.
LEMMA QuietStep ==
  ASSUME CommitInv, SameLines, Grows,
         UNCHANGED <<queue, slot, answer, pc, mine, todo, found, batch, res, serial>>,
         UNCHANGED heard \/ serial = NoThread,
         forgot \subseteq forgot', \A key : Known(key) => Known(key)',
         RoomTypeOK', RecentInv', HeardInv', ModInv'
  PROVE  CommitInv'
<1> USE DEF CommitInv
<1>1. \A l, id : /\ Repeats(l, id) => Repeats(l, id)'
                 /\ Truthful(l, id) => Truthful(l, id)'
                 /\ InLog(l)' <=> InLog(l)
  BY GrowsKeeps DEF SameLines, InLog
<1>2. ASSUME NEW t \in Threads PROVE StageInv(t)' /\ AskInv(t)' /\ BatchInv(t)' /\ ResInv(t)'
  <2>1. StageInv(t)'
    BY DEF StageInv, Distinct
  <2>2. AskInv(t)'
    BY <1>1 DEF AskInv
  <2>3. BatchInv(t)'
    <3>1. BatchInv(t) /\ batch' = batch /\ queue' = queue /\ answer' = answer /\ pc' = pc
      OBVIOUS
    <3>2. \A l : InLog(l)' <=> InLog(l)
      BY <1>1
    <3>3. pc[t] \in {"serial", "append"} => \A i \in 1..Len(batch[t]) : ~InLog(batch[t][i])'
      BY <3>1, <3>2 DEF BatchInv
    <3> QED
      BY <3>1, <3>3 DEF BatchInv, Distinct
  <2>4. ResInv(t)'
    <3>1. PICK p, b, r : p = pc[t] /\ b = batch[t] /\ r = res[t]
      OBVIOUS
    <3>2. p = pc'[t] /\ b = batch'[t] /\ r = res'[t]
      BY <3>1
    <3>3. CASE p \notin Committing \cup {"answer"}
      BY <3>2, <3>3 DEF ResInv
    <3>4. CASE p \in Committing \cup {"answer"} /\ UNCHANGED heard
      <4>1. ResOK(p, b, r)
        BY <3>1, <3>4 DEF ResInv
      <4>2. ResOK(p, b, r)'
        BY <3>4, <4>1, ResKeptLines
      <4> QED
        BY <3>2, <4>2 DEF ResInv
    <3>5. CASE p \in Committing \cup {"answer"} /\ serial = NoThread
      <4>1. ResOK(p, b, r)
        BY <3>1, <3>5 DEF ResInv
      <4>2. p = "answer"
        BY <3>1, <3>5, ChatCommitAssumption DEF SerialInv
      <4>3. ResOK(p, b, r)'
        BY <4>1, <4>2, ResAnswered
      <4> QED
        BY <3>2, <4>3 DEF ResInv
    <3> QED
      BY <3>3, <3>4, <3>5
  <2> QED
    BY <2>1, <2>2, <2>3, <2>4
<1>3. QueueInv' /\ SerialInv'
  BY <1>1 DEF QueueInv, SerialInv, Distinct
<1>4. LogInv'
  BY DEF LogInv, SameLines, Key, Sender
<1>5. AnswerInv'
  BY <1>1 DEF AnswerInv
<1> QED
  BY <1>2, <1>3, <1>4, <1>5

\* A session ends, a moderator chooses or fails, or nothing happens.
LEMMA IdleStep ==
  ASSUME CommitInv,
         UNCHANGED <<queue, slot, answer, pc, mine, todo, found, batch, res, serial,
                     poisoned, log, recent, heard, purged, forgot>>,
         gone' \subseteq Sessions, faults' \in 0..MaxFaults,
         mod' \in [ids: SUBSET Nat, whose: SUBSET Kept], ModInv'
  PROVE  CommitInv'
<1>1. RoomTypeOK'
  BY DEF CommitInv, RoomTypeOK
<1>2. SameLines /\ Grows
  BY GrowsNot DEF SameLines
<1>3. RecentInv' /\ HeardInv'
  BY RoomKept
<1>4. \A key : Known(key) => Known(key)'
  BY DEF Known, KeysIn
<1> QED
  BY <1>1, <1>2, <1>3, <1>4, QuietStep

\* Leave, ChooseLine, ChooseSender, TombstoneFails and stuttering.
LEMMA OtherStep ==
  ASSUME CommitInv,
         \/ \E x \in Sessions : Leave(x)
         \/ \E p \in Kept : ChooseSender(p)
         \/ \E i \in 1..Len(log) : ChooseLine(i)
         \/ TombstoneFails
         \/ UNCHANGED vars
  PROVE  CommitInv'
<1> USE DEF commitVars, stateVars, stageVars, leadVars, roomVars, otherVars
<1>1. /\ mod \in [ids: SUBSET Nat, whose: SUBSET Kept] /\ ModInv /\ gone \subseteq Sessions
      /\ faults \in 0..MaxFaults /\ Len(log) \in Nat
  BY DEF CommitInv, RoomTypeOK
<1>2. ASSUME NEW x \in Sessions, Leave(x) PROVE CommitInv'
  <2>1. gone' \subseteq Sessions
    BY <1>1, <1>2 DEF Leave
  <2>2. UNCHANGED mod /\ UNCHANGED faults /\ ModInv'
    BY <1>1, <1>2 DEF Leave, ModInv
  <2> QED
    BY <1>1, <1>2, <2>1, <2>2, IdleStep DEF Leave
<1>3. ASSUME NEW p \in Kept, ChooseSender(p) PROVE CommitInv'
  <2>1. Undeleted(p) \subseteq 1..Len(log)
    BY DEF Undeleted
  <2>2. mod'.ids = Undeleted(p) /\ mod' \in [ids: SUBSET Nat, whose: SUBSET Kept] /\ log' = log
    BY <1>1, <1>3, <2>1 DEF ChooseSender
  <2>3. ModInv'
    BY <2>1, <2>2 DEF ModInv
  <2> QED
    BY <1>1, <1>3, <2>2, <2>3, IdleStep DEF ChooseSender
<1>4. ASSUME NEW i \in 1..Len(log), ChooseLine(i) PROVE CommitInv'
  <2>1. mod'.ids = {i} /\ mod' \in [ids: SUBSET Nat, whose: SUBSET Kept] /\ log' = log
    BY <1>1, <1>4 DEF ChooseLine
  <2>2. ModInv'
    BY <2>1 DEF ModInv
  <2> QED
    BY <1>1, <1>4, <2>1, <2>2, IdleStep DEF ChooseLine
<1>5. ASSUME TombstoneFails PROVE CommitInv'
  <2>1. mod' = [ids |-> {}, whose |-> {}]
    BY <1>5 DEF TombstoneFails, Idle
  <2>2. mod' \in [ids: SUBSET Nat, whose: SUBSET Kept] /\ ModInv'
    BY <2>1 DEF ModInv
  <2>3. faults' \in 0..MaxFaults
    BY <1>1, <1>5, ChatCommitAssumption DEF TombstoneFails, Fault
  <2> QED
    BY <1>1, <1>5, <2>2, <2>3, IdleStep DEF TombstoneFails
<1>6. ASSUME UNCHANGED vars PROVE CommitInv'
  <2>1. ModInv'
    BY <1>1, <1>6 DEF ModInv, vars
  <2> QED
    BY <1>1, <1>6, <2>1, IdleStep DEF vars
<1> QED
  BY <1>2, <1>3, <1>4, <1>5, <1>6

\* Expire: what is remembered no more is forgotten.
LEMMA ExpireStep ==
  ASSUME CommitInv, Expire
  PROVE  CommitInv'
<1>1. /\ recent # <<>> /\ recent' = Tail(recent) /\ forgot' = forgot \cup {Head(recent).key}
      /\ UNCHANGED <<queue, slot, answer, pc, mine, todo, found, batch, res, serial,
                     poisoned, log, heard, purged, gone, mod, faults>>
  BY DEF Expire, commitVars, stateVars, stageVars, leadVars
<1>2. recent \in Seq(Entries)
  BY DEF CommitInv, RoomTypeOK, Entries
<1>3. /\ recent' \in Seq(Entries) /\ Len(recent) \in Nat /\ Len(recent') = Len(recent) - 1
      /\ \A k \in 1..Len(recent') : k + 1 \in 1..Len(recent) /\ recent'[k] = recent[k + 1]
      /\ Head(recent) = recent[1] /\ recent[1] \in Entries
  BY <1>1, <1>2, TailFacts
<1>4. forgot \subseteq forgot' /\ forgot' \subseteq Keys
  BY <1>1, <1>3 DEF CommitInv, RoomTypeOK, Entries
<1>5. ASSUME NEW key, Known(key) PROVE Known(key)'
  <2>1. CASE key \in forgot
    BY <1>4, <2>1 DEF Known
  <2>2. CASE key \in KeysIn(recent)
    <3>1. PICK k \in 1..Len(recent) : recent[k].key = key
      BY <2>2 DEF KeysIn
    <3>2. CASE k = 1
      BY <1>1, <1>3, <3>1, <3>2 DEF Known
    <3>3. CASE k # 1
      <4>1. k - 1 \in 1..Len(recent') /\ recent'[k - 1] = recent[k]
        BY <1>3, <3>3
      <4> QED
        BY <3>1, <4>1 DEF Known, KeysIn
    <3> QED
      BY <3>2, <3>3
  <2> QED
    BY <1>5, <2>1, <2>2 DEF Known
<1>6. RecentInv'
  <2>1. \A e : Backed(e)' <=> Backed(e)
    BY <1>1 DEF Backed, Key, Sender
  <2> QED
    BY <1>3, <2>1 DEF CommitInv, RecentInv
<1>7. RoomTypeOK'
  BY <1>1, <1>3, <1>4 DEF CommitInv, RoomTypeOK, Entries
<1>8. SameLines /\ Grows
  BY <1>1, GrowsNot DEF SameLines
<1>9. HeardInv' /\ ModInv'
  <2>1. HeardInv'
    BY <1>1, <1>4, <1>5, <1>8, HeardKept DEF CommitInv, Grows
  <2> QED
    BY <1>1, <2>1 DEF CommitInv, ModInv
<1> QED
  BY <1>1, <1>4, <1>5, <1>6, <1>7, <1>8, <1>9, QuietStep

\* Restart: nothing is under way, and what was remembered is forgotten.
LEMMA RestartStep ==
  ASSUME LeadInv, CommitInv, Restart
  PROVE  CommitInv'
<1>1. /\ queue' = <<>> /\ pc' = AllIdle /\ batch' = Empty /\ res' = Empty
      /\ slot' = [l \in Lines |-> IF slot[l] = "none" THEN "none" ELSE "waiting"]
      /\ found' = NotFound /\ serial' = NoThread /\ poisoned' = FALSE /\ recent' = <<>>
      /\ gone' = {x \in Sessions : SenderOf[x] \notin Kept}
      /\ mod' = [ids |-> {}, whose |-> {}] /\ purged' = {}
      /\ forgot' = forgot \cup KeysIn(recent)
      /\ faults < MaxFaults /\ faults' = faults + 1
      /\ UNCHANGED <<answer, log, heard>>
  BY DEF Restart, Fault, Idle
<1>2. \A t \in Threads : pc'[t] = "idle" /\ batch'[t] = <<>> /\ res'[t] = <<>>
  BY <1>1 DEF AllIdle, Empty
<1>3. KeysIn(recent) \subseteq Keys
  <2>1. recent \in Seq(Entries)
    BY DEF CommitInv, RoomTypeOK, Entries
  <2>2. \A k \in 1..Len(recent) : recent[k] \in Entries
    BY <2>1
  <2>3. \A e \in Entries : e.key \in Keys
    BY DEF Entries
  <2> QED
    BY <2>2, <2>3 DEF KeysIn
<1>4. RoomTypeOK'
  <2>1. answer' \in [Lines -> Result] /\ res' \in [Threads -> Seq(Result)]
    BY <1>1 DEF CommitInv, RoomTypeOK, Empty
  <2>2. found' \in [Threads -> [id: Nat, said: Said0]]
    BY <1>1 DEF NotFound, Said0
  <2>3. /\ log' \in Seq([line: Lines, deleted: BOOLEAN])
        /\ recent' \in Seq([key: Keys, id: Nat \ {0}, said: Said0])
        /\ heard' \in Seq([kind: {"line", "redacted"}, id: Nat \ {0}])
    BY <1>1 DEF CommitInv, RoomTypeOK
  <2>4. /\ serial' \in Threads \cup {NoThread} /\ poisoned' \in BOOLEAN
        /\ gone' \subseteq Sessions /\ purged' \subseteq Kept
        /\ mod' \in [ids: SUBSET Nat, whose: SUBSET Kept]
    BY <1>1
  <2>5. forgot' \subseteq Keys
    BY <1>1, <1>3 DEF CommitInv, RoomTypeOK
  <2>6. faults' \in 0..MaxFaults
    BY <1>1, ChatCommitAssumption DEF CommitInv, RoomTypeOK
  <2> QED
    BY <2>1, <2>2, <2>3, <2>4, <2>5, <2>6 DEF RoomTypeOK
<1>5. ASSUME NEW t \in Threads PROVE StageInv(t)' /\ AskInv(t)' /\ BatchInv(t)' /\ ResInv(t)'
  BY <1>2 DEF StageInv, AskInv, BatchInv, ResInv, Staging, Asking, Committing, Distinct
<1>6. \A l, id : /\ Repeats(l, id) <=> Repeats(l, id)'
                 /\ Truthful(l, id) <=> Truthful(l, id)'
                 /\ InLog(l)' <=> InLog(l)
  BY <1>1 DEF Truthful, Repeats, InLog, WasHeard, Key, Sender
<1>7. QueueInv'
  <2>1. \A l \in Lines : InLog(l)' => slot'[l] # "none"
    BY <1>1, <1>6 DEF CommitInv, QueueInv
  <2> QED
    BY <1>1, <2>1 DEF QueueInv, Distinct
<1>8. SerialInv'
  BY <1>1, <1>2, ChatCommitAssumption DEF SerialInv, Committing
<1>9. LogInv' /\ RecentInv' /\ ModInv'
  BY <1>1 DEF CommitInv, LogInv, RecentInv, ModInv, Key, Sender
<1>10. HeardInv'
  <2>1. \A key : Known(key) => Known(key)'
    BY <1>1 DEF Known
  <2>2. forgot \subseteq forgot'
    BY <1>1
  <2> QED
    BY <1>1, <2>1, <2>2, HeardKept DEF CommitInv, RoomTypeOK
<1>11. AnswerInv'
  BY <1>1, <1>6 DEF CommitInv, AnswerInv
<1> QED
  BY <1>4, <1>5, <1>7, <1>8, <1>9, <1>10, <1>11 DEF CommitInv

\* TombstoneLines: no line is relayed meanwhile, so none is heard after its
\* redaction.
LEMMA TombstoneStep ==
  ASSUME CommitInv, TombstoneLines
  PROVE  CommitInv'
<1> DEFINE N == Len(heard)
<1>1. /\ mod.ids # {} => serial = NoThread
      /\ log' = [i \in 1..Len(log) |-> [log[i] EXCEPT !.deleted = @ \/ i \in mod.ids]]
      /\ recent' = [k \in 1..Len(recent) |->
                      [recent[k] EXCEPT !.said = IF recent[k].id \in mod.ids
                                                 THEN "forgotten" ELSE @]]
      /\ mod' = [ids |-> {}, whose |-> {}] /\ purged' = purged \cup mod.whose
      /\ UNCHANGED <<queue, slot, answer, pc, mine, todo, found, batch, res, serial,
                     poisoned, gone, forgot, faults>>
  BY DEF TombstoneLines, Tombstone, Idle, commitVars, stateVars, stageVars, leadVars
<1>2. PICK s \in Ascending(mod.ids) :
        heard' = heard \o [n \in 1..Len(s) |-> [kind |-> "redacted", id |-> s[n]]]
  BY DEF TombstoneLines, Tombstone
<1>3. /\ Len(log) \in Nat /\ mod.ids \in SUBSET (1..Len(log))
      /\ log \in Seq([line: Lines, deleted: BOOLEAN])
      /\ recent \in Seq([key: Keys, id: Nat \ {0}, said: Said0])
      /\ heard \in Seq([kind: {"line", "redacted"}, id: Nat \ {0}])
  BY DEF CommitInv, RoomTypeOK, ModInv
<1>4. Len(s) \in Nat /\ \A n \in 1..Len(s) : s[n] \in mod.ids
  BY <1>3, AscendingFacts
<1>5. /\ log' \in Seq([line: Lines, deleted: BOOLEAN]) /\ SameLines
  <2>1. \A i \in 1..Len(log) : log[i] \in [line: Lines, deleted: BOOLEAN]
    BY <1>3, SeqParts
  <2>2. \A i \in 1..Len(log) : /\ log'[i] \in [line: Lines, deleted: BOOLEAN]
                               /\ log'[i].line = log[i].line
    BY <1>1, <2>1
  <2>3. log' \in [1..Len(log) -> [line: Lines, deleted: BOOLEAN]]
    <3>1. log' = [i \in 1..Len(log) |-> log'[i]]
      BY <1>1
    <3> QED
      BY <2>2, <3>1
  <2>4. Len(log') = Len(log) /\ log' \in Seq([line: Lines, deleted: BOOLEAN])
    BY <1>3, <2>3, SeqFromFun
  <2> QED
    BY <2>2, <2>4 DEF SameLines
<1>6. /\ recent' \in Seq([key: Keys, id: Nat \ {0}, said: Said0]) /\ Len(recent') = Len(recent)
      /\ \A k \in 1..Len(recent) : recent'[k].key = recent[k].key /\ recent'[k].id = recent[k].id
  <2>1. \A k \in 1..Len(recent) : recent[k] \in [key: Keys, id: Nat \ {0}, said: Said0]
    BY <1>3, SeqParts
  <2>2. "forgotten" \in Said0
    BY DEF Said0
  <2>3. \A k \in 1..Len(recent) : /\ recent'[k] \in [key: Keys, id: Nat \ {0}, said: Said0]
                                  /\ recent'[k].key = recent[k].key /\ recent'[k].id = recent[k].id
    BY <1>1, <2>1, <2>2
  <2>4. recent' \in [1..Len(recent) -> [key: Keys, id: Nat \ {0}, said: Said0]]
    <3>1. recent' = [k \in 1..Len(recent) |-> recent'[k]]
      BY <1>1
    <3> QED
      BY <2>3, <3>1
  <2>5. Len(recent) \in Nat
    BY <1>3, SeqParts
  <2>6. recent' \in Seq([key: Keys, id: Nat \ {0}, said: Said0]) /\ Len(recent') = Len(recent)
    BY <2>4, <2>5, SeqFromFun
  <2> QED
    BY <2>3, <2>6
<1>7. /\ heard' \in Seq([kind: {"line", "redacted"}, id: Nat \ {0}])
      /\ Len(heard') = N + Len(s) /\ N \in Nat
      /\ \A h \in 1..N : heard'[h] = heard[h]
      /\ \A h \in 1..Len(heard') :
           h \in 1..N \/ (heard'[h].kind = "redacted" /\ heard'[h].id \in mod.ids)
  <2> DEFINE told == [n \in 1..Len(s) |-> [kind |-> "redacted", id |-> s[n]]]
             E == [kind: {"line", "redacted"}, id: Nat \ {0}]
  <2>1. \A n \in 1..Len(s) : s[n] \in Nat \ {0}
    BY <1>3, <1>4
  <2>2. told \in [1..Len(s) -> E]
    BY <2>1
  <2>3. told \in Seq(E) /\ Len(told) = Len(s)
    BY <1>4, <2>2, SeqDef
  <2>4. \A n \in 1..Len(s) : told[n].kind = "redacted" /\ told[n].id \in mod.ids
    BY <1>4
  <2>5. heard' = heard \o told /\ heard \in Seq(E)
    BY <1>2, <1>3
  <2> HIDE DEF told, E
  <2>6. /\ heard' \in Seq(E) /\ Len(heard') = N + Len(told)
        /\ \A h \in 1..Len(heard') : heard'[h] = IF h <= N THEN heard[h] ELSE told[h - N]
    <3>1. PICK c, d, e : c = heard' /\ d = heard /\ e = told
      OBVIOUS
    <3>2. d \in Seq(E) /\ e \in Seq(E) /\ c = d \o e
      BY <2>3, <2>5, <3>1
    <3>3. /\ c \in Seq(E) /\ Len(c) = Len(d) + Len(e)
          /\ \A i \in 1..Len(c) : c[i] = IF i <= Len(d) THEN d[i] ELSE e[i - Len(d)]
      BY <3>2, Appended
    <3> QED
      BY <3>1, <3>3
  <2>7. N \in Nat
    BY <2>5
  <2> HIDE DEF N
  <2>8. ASSUME NEW h \in 1..Len(heard'), h \notin 1..N PROVE h - N \in 1..Len(s) /\ ~(h <= N)
    BY <1>4, <2>3, <2>6, <2>7, <2>8
  <2>9. \A h \in 1..N : h \in 1..Len(heard')
    BY <1>4, <2>3, <2>6, <2>7
  <2>10. \A h \in 1..N : heard'[h] = heard[h]
    BY <2>6, <2>7, <2>9
  <2>11. ASSUME NEW h \in 1..Len(heard'), h \notin 1..N
         PROVE  heard'[h].kind = "redacted" /\ heard'[h].id \in mod.ids
    <3>1. h - N \in 1..Len(s) /\ heard'[h] = told[h - N]
      BY <2>6, <2>8, <2>11
    <3> QED
      BY <2>4, <3>1
  <2>12. heard' \in Seq([kind: {"line", "redacted"}, id: Nat \ {0}])
    BY <2>6 DEF E
  <2> QED
    BY <2>3, <2>6, <2>7, <2>10, <2>11, <2>12
<1>8. RoomTypeOK'
  <2>1. mod' \in [ids: SUBSET Nat, whose: SUBSET Kept] /\ purged' \subseteq Kept
    BY <1>1 DEF CommitInv, RoomTypeOK
  <2> QED
    BY <1>1, <1>5, <1>6, <1>7, <2>1 DEF CommitInv, RoomTypeOK
<1>9. \A key : Known(key) <=> Known(key)'
  BY <1>1, <1>6 DEF Known, KeysIn
<1>10. Grows
  <2>1. Len(log') \in Nat /\ Len(log) <= Len(log')
    BY <1>3, <1>5 DEF SameLines
  <2>2. Len(heard') \in Nat /\ Len(heard) <= Len(heard')
    BY <1>4, <1>7
  <2> QED
    BY <1>3, <1>5, <1>7, <2>1, <2>2 DEF Grows, SameLines
<1>11. RecentInv'
  <2>1. \A l : Key(l)' = Key(l)
    BY DEF Key, Sender
  <2> QED
    BY <1>5, <1>6, <2>1 DEF CommitInv, RecentInv, Backed, SameLines
<1>12. HeardInv'
  <2>1. \A h \in 1..N : heard[h].id \in 1..Len(log) /\ log'[heard[h].id].line = log[heard[h].id].line
    BY <1>5 DEF CommitInv, HeardInv, SameLines
  <2>2. \A h \in 1..Len(heard') : heard'[h].kind = "line" => h \in 1..N /\ heard'[h] = heard[h]
    BY <1>7
  <2>3. HeardInOrder'
    <3> SUFFICES ASSUME NEW h \in 1..Len(heard'), NEW k \in 1..Len(heard'),
                        h < k, heard'[k].kind = "line"
                 PROVE  IF heard'[h].kind = "line" THEN heard'[h].id < heard'[k].id
                                                   ELSE heard'[h].id # heard'[k].id
      BY DEF HeardInOrder
    <3>1. k \in 1..N /\ h \in 1..N
      BY <1>7, <2>2
    <3>2. heard'[h] = heard[h] /\ heard'[k] = heard[k]
      BY <1>7, <3>1
    <3> QED
      BY <3>1, <3>2 DEF CommitInv, HeardInv, HeardInOrder
  <2>4. \A h \in 1..Len(heard') : heard'[h].id \in 1..Len(log')
    BY <1>3, <1>5, <1>7, <2>1 DEF SameLines
  <2>5. \A l : Key(l)' = Key(l)
    BY DEF Key, Sender
  <2>6. \A h \in 1..N :
          heard[h].kind = "line" /\ Guid[log[heard[h].id].line] # NoGuid =>
            Known(Key(log[heard[h].id].line))
    BY DEF CommitInv, HeardInv
  <2>7. \A i, j \in 1..N :
          /\ i < j /\ heard[i].kind = "line" /\ heard[j].kind = "line"
          /\ Guid[log[heard[i].id].line] # NoGuid
          /\ Key(log[heard[i].id].line) = Key(log[heard[j].id].line)
          => Key(log[heard[i].id].line) \in forgot
    BY DEF CommitInv, HeardInv
  <2>8. ASSUME NEW h \in 1..Len(heard'), heard'[h].kind = "line",
               NEW l, l = log'[heard'[h].id].line, Guid[l] # NoGuid
        PROVE  Known(Key(l))'
    <3>1. h \in 1..N /\ heard'[h] = heard[h] /\ log'[heard'[h].id].line = log[heard[h].id].line
      BY <2>1, <2>2, <2>8
    <3>2. Known(Key(log[heard[h].id].line))
      BY <2>6, <2>8, <3>1
    <3> QED
      BY <1>9, <2>5, <2>8, <3>1, <3>2
  <2>9. ASSUME NEW i \in 1..Len(heard'), NEW j \in 1..Len(heard'),
               i < j, heard'[i].kind = "line", heard'[j].kind = "line",
               NEW l, l = log'[heard'[i].id].line, NEW m, m = log'[heard'[j].id].line,
               Guid[l] # NoGuid, Key(l) = Key(m)
        PROVE  Key(l) \in forgot'
    <3>1. i \in 1..N /\ heard'[i] = heard[i] /\ log'[heard'[i].id].line = log[heard[i].id].line
      BY <2>1, <2>2, <2>9
    <3>2. j \in 1..N /\ heard'[j] = heard[j] /\ log'[heard'[j].id].line = log[heard[j].id].line
      BY <2>1, <2>2, <2>9
    <3> QED
      BY <1>1, <2>7, <2>9, <3>1, <3>2
  <2> HIDE DEF N
  <2> QED
    BY <2>3, <2>4, <2>5, <2>8, <2>9 DEF HeardInv
<1>13. UNCHANGED heard \/ serial = NoThread
  <2>1. CASE mod.ids # {}
    BY <1>1, <2>1
  <2>2. CASE mod.ids = {}
    <3>1. Len(s) = 0
      BY <1>4, <2>2
    <3>2. Len(heard') = N /\ \A h \in 1..N : heard'[h] = heard[h]
      BY <1>7, <3>1
    <3>3. heard' = heard
      BY <1>3, <1>7, <3>2, SeqSame
    <3> QED
      BY <3>3
  <2> QED
    BY <2>1, <2>2
<1>14. ModInv'
  BY <1>1 DEF ModInv
<1> QED
  BY <1>1, <1>5, <1>8, <1>9, <1>10, <1>11, <1>12, <1>13, <1>14, QuietStep

-----------------------------------------------------------------------------
(* The theorems.                                                           *)

\* Every step keeps CommitInv.
LEMMA CommitInvStep ==
  ASSUME LeadInv, LeadInv', CommitInv, [Next]_vars
  PROVE  CommitInv'
<1>1. ASSUME NEW t \in Threads, NEW ls \in Calls, ChatPublic(t, ls) PROVE CommitInv'
  BY <1>1, ChatPublicStep
<1>2. ASSUME NEW t \in Threads, ThreadStep(t) PROVE CommitInv'
  <2>1. CASE \/ StageUnnamed(t) \/ SignedAnswer(t) \/ SignedMiss(t)
             \/ GuidRemembered(t) \/ GuidForgotten(t) \/ GuidLogged(t) \/ GuidUnlogged(t)
             \/ Recall(t) \/ SubmitNothing(t)
    BY <2>1, StagingStep
  <2>2. CASE Submit(t)
    BY <2>2, SubmitStep
  <2>3. CASE SetFirst(t) \/ Done(t)
    BY <2>3, WaitStep
  <2>4. CASE Lead(t)
    BY <2>4, LeadTakesStep
  <2>5. CASE Check(t)
    BY <2>5, CheckStep
  <2>6. CASE CheckPoisoned(t)
    BY <2>6, CommitFailsStep
  <2>7. CASE AppendAll(t)
    BY <2>7, AppendStep
  <2>8. CASE RememberLines(t)
    BY <2>8, RememberStep
  <2>9. CASE Relay(t)
    BY <2>9, RelayStep
  <2>10. CASE Relayed(t)
    BY <2>10, RelayedStep
  <2>11. CASE Answer(t)
    BY <2>11, AnswerStep
  <2>12. CASE HandOn(t)
    BY <2>12, HandOnStep
  <2> QED
    BY <1>2, <2>1, <2>2, <2>3, <2>4, <2>5, <2>6, <2>7, <2>8, <2>9, <2>10, <2>11, <2>12
       DEF ThreadStep
<1>3. ASSUME NEW t \in Threads,
             \/ SignedFails(t) \/ LookupFails(t) \/ LineUnread(t)
             \/ StoreFails(t) \/ CommitPanics(t)
      PROVE  CommitInv'
  <2>1. CASE SignedFails(t) \/ LookupFails(t) \/ LineUnread(t)
    BY <2>1, StagingStep
  <2>2. CASE StoreFails(t) \/ CommitPanics(t)
    BY <2>2, CommitFailsStep
  <2> QED
    BY <1>3, <2>1, <2>2
<1>4. CASE \/ \E x \in Sessions : Leave(x)
           \/ \E p \in Kept : ChooseSender(p)
           \/ \E i \in 1..Len(log) : ChooseLine(i)
           \/ TombstoneFails
           \/ UNCHANGED vars
  BY <1>4, OtherStep
<1>5. CASE TombstoneLines
  BY <1>5, TombstoneStep
<1>6. CASE Expire
  BY <1>6, ExpireStep
<1>7. CASE Restart
  BY <1>7, RestartStep
<1> QED
  BY <1>1, <1>2, <1>3, <1>4, <1>5, <1>6, <1>7 DEF Next

\* CommitInv, with LeadInv, is an invariant of the room: what was logged,
\* relayed and answered agree at every step of every thread, moderator and
\* restart (chat_public_lines, lead, chat_commit_batch, tombstone_lines).
THEOREM CommitInvariant == Spec => [](LeadInv /\ CommitInv)
<1>1. Init => LeadInv /\ CommitInv
  BY LeadInit, CommitInit
<1>2. LeadInv /\ CommitInv /\ [Next]_vars => (LeadInv /\ CommitInv)'
  BY ChatCommitAssumption, LeadStep, CommitInvStep
<1> QED
  BY <1>1, <1>2, PTL DEF Spec

\* Every variable has its type, whatever the threads do.
THEOREM ChatTypeCorrect == Spec => []TypeOK
<1>1. LeadInv /\ CommitInv => TypeOK
  BY DEF LeadInv, LeadTypeOK, CommitInv, RoomTypeOK, TypeOK
<1> QED
  BY <1>1, CommitInvariant, PTL

\* Readers hear lines in the order of the log, and never a line after its
\* redaction: for any number of threads, sessions and lines, and any faults.
THEOREM ReadersHearInOrder == Spec => []HeardInOrder
<1>1. CommitInv => HeardInOrder
  BY DEF CommitInv, HeardInv
<1> QED
  BY <1>1, CommitInvariant, PTL

\* A line sent again under its guid is heard once, unless the room forgot the
\* guid of a sender the log keeps none for.
THEOREM LinesHeardOnce == Spec => []HeardOnce
<1>1. ASSUME CommitInv PROVE HeardOnce
  <2> SUFFICES ASSUME NEW i \in 1..Len(heard), NEW j \in 1..Len(heard),
                      NEW l, l = log[heard[i].id].line, NEW m, m = log[heard[j].id].line,
                      i < j, heard[i].kind = "line", heard[j].kind = "line"
               PROVE  l # m /\ (Guid[l] # NoGuid /\ Key(l) = Key(m)
                                  => Key(l) \in forgot /\ Sender(l) \notin Kept)
    BY DEF HeardOnce
  <2>1. heard[i].id \in 1..Len(log) /\ heard[j].id \in 1..Len(log) /\ heard[i].id < heard[j].id
    BY <1>1 DEF CommitInv, HeardInv, HeardInOrder
  <2>2. heard[i].id # heard[j].id
    BY <1>1, <2>1 DEF CommitInv, RoomTypeOK
  <2>3. ~(l = m \/ (Guid[l] # NoGuid /\ Sender(l) \in Kept /\ Key(l) = Key(m)))
    BY <1>1, <2>1, <2>2 DEF CommitInv, LogInv
  <2>4. Guid[l] # NoGuid /\ Key(l) = Key(m) => Key(l) \in forgot
    BY <1>1 DEF CommitInv, HeardInv
  <2> QED
    BY <2>3, <2>4
<1> QED
  BY <1>1, CommitInvariant, PTL

\* An answer is true: a line answered with an id is the line logged there
\* and relayed, or repeats it, and a line that was refused is in no log.
THEOREM AnswersAreTrue == Spec => []AnsweredTruly
<1>1. ASSUME CommitInv PROVE AnsweredTruly
  <2> SUFFICES ASSUME NEW l \in Lines
               PROVE  /\ answer[l].kind = "ok" =>
                           /\ answer[l].id \in 1..Len(log)
                           /\ \/ /\ log[answer[l].id].line = l
                                 /\ [kind |-> "line", id |-> answer[l].id] \in ToSet(heard)
                              \/ Guid[l] # NoGuid /\ Key(log[answer[l].id].line) = Key(l)
                      /\ answer[l].kind \in {"gone", "equivocation", "failed"} =>
                           \A i \in 1..Len(log) : log[i].line # l
    BY DEF AnsweredTruly
  <2>1. /\ answer[l].kind = "ok" => Truthful(l, answer[l].id)
        /\ answer[l].kind \in {"gone", "equivocation", "failed"} => ~InLog(l)
    BY <1>1 DEF CommitInv, AnswerInv
  <2>2. ASSUME NEW id, WasHeard(id) PROVE [kind |-> "line", id |-> id] \in ToSet(heard)
    <3>1. PICK h \in 1..Len(heard) : heard[h].kind = "line" /\ heard[h].id = id
      BY <2>2 DEF WasHeard
    <3>2. heard \in Seq([kind: {"line", "redacted"}, id: Nat \ {0}])
      BY <1>1 DEF CommitInv, RoomTypeOK
    <3>3. heard[h] \in [kind: {"line", "redacted"}, id: Nat \ {0}]
      BY <3>2, SeqParts
    <3>5. h \in DOMAIN heard
      BY <3>2
    <3>4. heard[h] = [kind |-> "line", id |-> id]
      BY <3>1, <3>3
    <3> QED
      BY <3>4, <3>5 DEF ToSet
  <2>3. CASE answer[l].kind = "ok"
    BY <2>1, <2>2, <2>3 DEF Truthful, Repeats
  <2>4. CASE answer[l].kind # "ok"
    BY <2>1, <2>4 DEF InLog
  <2> QED
    BY <2>3, <2>4
<1> QED
  BY <1>1, CommitInvariant, PTL
=============================================================================
