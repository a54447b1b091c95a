------------------------- MODULE ChatCommit_proofs -------------------------
(***************************************************************************)
(* OneLeader, for any number of threads and lines and any batch size.      *)
(*                                                                         *)
(* OneLeader is not inductive.  It needs to know that a line still being   *)
(* staged has no slot yet, so that queueing it takes the lead from nobody, *)
(* and that a thread about to set its first line's slot to Lead has that   *)
(* line at the head of the queue.                                          *)
(***************************************************************************)
EXTENDS ChatCommit, SequenceTheorems, TLAPS

LeadTypeOK ==
  /\ queue \in Seq(Lines)
  /\ leading \in BOOLEAN
  /\ slot \in [Lines -> {"none", "waiting", "lead", "done"}]
  /\ pc \in [Threads -> PCs]
  /\ todo \in [Threads -> Seq(Lines)]
  /\ mine \in [Threads -> Seq(Lines)]
  /\ batch \in [Threads -> Seq(Lines)]

Asking == {"guid", "lookup", "recall"}

Staging == {"stage"} \cup Asking

\* A thread's lines are its own, and have no slot while they are staged.
MineInv(t) ==
  /\ \A i \in 1..Len(mine[t]) : ThreadOf[mine[t][i]] = t
  /\ \A i \in 1..Len(todo[t]) : ThreadOf[todo[t][i]] = t
  /\ pc[t] \in Staging =>
       /\ \A i \in 1..Len(mine[t]) : slot[mine[t][i]] = "none"
       /\ \A i \in 1..Len(todo[t]) : slot[todo[t][i]] = "none"
  /\ pc[t] = "idle" => mine[t] = <<>>
  /\ pc[t] \notin Staging \cup {"idle"} => mine[t] # <<>>
  /\ pc[t] \in Asking => todo[t] # <<>>
  /\ pc[t] = "first" => queue # <<>> /\ Head(queue) = Head(mine[t])

\* A line in the queue, or in a batch, has a slot.
SlotInv ==
  /\ \A i \in 1..Len(queue) : slot[queue[i]] # "none"
  /\ \A t \in Threads : \A i \in 1..Len(batch[t]) : slot[batch[t][i]] # "none"

LeadInv ==
  /\ LeadTypeOK
  /\ \A t \in Threads : MineInv(t)
  /\ SlotInv
  /\ OneLeader

\* Nobody leads and nothing is queued at the start.
LEMMA LeadInit == ASSUME Init PROVE LeadInv
<1>1. <<>> \in Seq(Lines)
  OBVIOUS
<1>2. LeadTypeOK
  BY <1>1 DEF Init, LeadTypeOK, Empty, AllIdle, PCs
<1>3. \A t \in Threads : MineInv(t)
  BY DEF Init, MineInv, Empty, AllIdle, Staging, Asking
<1>4. SlotInv
  BY DEF Init, SlotInv, Empty
<1>5. OneLeader
  BY DEF Init, OneLeader, Leaders, Leads, AllIdle
<1> QED
  BY <1>2, <1>3, <1>4, <1>5 DEF LeadInv

\* Steps of a commit, and of the rest of the server, that move neither the
\* lead nor a line.
LEMMA InertStep ==
  ASSUME LeadInv, NEW t \in Threads,
         UNCHANGED <<queue, leading, slot, todo, mine, batch>>,
         \/ pc' = pc
         \/ /\ pc[t] \in {"serial", "append", "remember", "relay"}
            /\ \E a \in {"append", "remember", "relay", "answer"} :
                 pc' = [pc EXCEPT ![t] = a]
  PROVE  LeadInv'
<1> USE DEF LeadInv
<1>1. pc' \in [Threads -> PCs]
  BY DEF LeadTypeOK, PCs
<1>2. LeadTypeOK'
  BY <1>1 DEF LeadTypeOK
<1>3. \A u \in Threads : MineInv(u)'
  BY DEF MineInv, Staging, Asking, LeadTypeOK
<1>4. SlotInv'
  BY DEF SlotInv
<1>5. Leaders' = Leaders /\ Leads' = Leads
  BY DEF Leaders, Leads, LeadTypeOK
<1>6. \A u \in Leaders : pc'[u] = "first" \/ Head(mine[u]) \in ToSet(batch[u])
  BY DEF OneLeader, LeadTypeOK, Leaders
<1>7. OneLeader'
  BY <1>5, <1>6 DEF OneLeader
<1> QED
  BY <1>2, <1>3, <1>4, <1>7

\* The tail of a sequence that is not empty, and its head.
LEMMA TailFacts ==
  ASSUME NEW S, NEW s \in Seq(S), s # <<>>
  PROVE  /\ Tail(s) \in Seq(S) /\ Head(s) \in S
         /\ Len(s) >= 1 /\ Head(s) = s[1]
         /\ Len(Tail(s)) = Len(s) - 1
         /\ \A i \in 1..Len(Tail(s)) : i + 1 \in 1..Len(s) /\ Tail(s)[i] = s[i + 1]
         /\ (Len(s) = 1) <=> (Tail(s) = <<>>)
<1>1. Len(s) \in Nat /\ Len(s) >= 1
  BY EmptySeq
<1>2. Tail(s) \in Seq(S) /\ Len(Tail(s)) = Len(s) - 1
  BY <1>1, HeadTailProperties
<1>3. Head(s) = s[1] /\ Head(s) \in S
  BY <1>1, HeadTailProperties
<1>4. \A i \in 1..Len(Tail(s)) : i + 1 \in 1..Len(s) /\ Tail(s)[i] = s[i + 1]
  BY <1>1, <1>2
<1>5. (Len(s) = 1) <=> (Tail(s) = <<>>)
  <2>1. Tail(s) # <<>> => Len(Tail(s)) # 0
    BY <1>2, EmptySeq
  <2>2. Tail(s) = <<>> => Len(Tail(s)) = 0
    BY EmptySeq
  <2> QED
    BY <1>1, <1>2, <2>1, <2>2
<1> QED
  BY <1>1, <1>2, <1>3, <1>4, <1>5

\* A step that leaves the lead, the queue and every slot alone keeps
\* OneLeader, as long as it moves a thread between places off the lead.
LEMMA OffTheLead ==
  ASSUME LeadInv, NEW t \in Threads, NEW a \in Staging \cup {"idle"},
         pc[t] \in Staging \cup {"idle"},
         pc' = [pc EXCEPT ![t] = a],
         \A u \in Threads : u # t => mine'[u] = mine[u],
         UNCHANGED <<queue, leading, slot, batch>>
  PROVE  OneLeader'
<1>1. Leaders' = Leaders /\ Leads' = Leads /\ t \notin Leaders
  BY DEF Leaders, Leads, LeadInv, LeadTypeOK, Staging, Asking
<1>2. \A u \in Leaders : pc'[u] = pc[u] /\ mine'[u] = mine[u]
  BY <1>1 DEF LeadInv, LeadTypeOK, Leaders
<1> QED
  BY <1>1, <1>2 DEF OneLeader, LeadInv

\* Every call is a sequence of lines.
LEMMA CallsAreSequences == Calls \subseteq Seq(Lines)
<1>1. \A l \in Lines : <<l>> \in Seq(Lines)
  OBVIOUS
<1>2. \A c \in [1..2 -> Lines] : c \in Seq(Lines)
  BY SeqDef
<1> QED
  BY <1>1, <1>2 DEF Calls

\* A call starts with lines of its thread's that were never sent.
LEMMA ChatPublicKeeps ==
  ASSUME LeadInv, NEW t \in Threads, NEW ls \in Calls, ChatPublic(t, ls)
  PROVE  LeadInv'
<1> USE DEF LeadInv
<1>1. ls \in Seq(Lines)
  BY CallsAreSequences
<1>2. \A i \in 1..Len(ls) : ls[i] \in ToSet(ls)
  BY <1>1 DEF ToSet
<1>3. /\ pc[t] = "idle" /\ pc' = [pc EXCEPT ![t] = "stage"]
      /\ todo' = [todo EXCEPT ![t] = ls]
      /\ UNCHANGED <<queue, leading, slot, mine, batch>>
  BY DEF ChatPublic, At, Goto, stateVars, leadVars
<1>4. LeadTypeOK'
  BY <1>1, <1>3 DEF LeadTypeOK, PCs
<1>5. \A i \in 1..Len(ls) : ThreadOf[ls[i]] = t /\ slot[ls[i]] = "none"
  BY <1>2 DEF ChatPublic
<1>6. MineInv(t)'
  BY <1>3, <1>5 DEF MineInv, Staging, Asking, LeadTypeOK
<1>7. \A u \in Threads : u # t => MineInv(u)'
  BY <1>3 DEF MineInv, Staging, Asking, LeadTypeOK
<1>8. SlotInv'
  BY <1>3 DEF SlotInv
<1>9. OneLeader'
  BY <1>3, OffTheLead DEF Staging, Asking
<1> QED
  BY <1>4, <1>6, <1>7, <1>8, <1>9

\* A line is answered without being queued, or is asked about further.
LEMMA PassedOver ==
  ASSUME LeadInv, NEW t \in Threads, NEW a \in Staging \cup {"idle"},
         pc[t] \in Staging, pc' = [pc EXCEPT ![t] = a],
         todo' = todo \/ (todo[t] # <<>> /\ todo' = [todo EXCEPT ![t] = Tail(todo[t])]),
         a = "idle" => mine[t] = <<>>,
         a \in Asking => todo[t] # <<>> /\ todo' = todo,
         UNCHANGED <<queue, leading, slot, mine, batch>>
  PROVE  LeadInv'
<1> USE DEF LeadInv
<1>4. /\ todo'[t] \in Seq(Lines)
      /\ \A i \in 1..Len(todo'[t]) : \E j \in 1..Len(todo[t]) : todo'[t][i] = todo[t][j]
      /\ \A u \in Threads : u # t => todo'[u] = todo[u]
  <2>1. CASE todo' = todo
    BY <2>1 DEF LeadTypeOK
  <2>2. CASE todo[t] # <<>> /\ todo' = [todo EXCEPT ![t] = Tail(todo[t])]
    <3>1. todo'[t] = Tail(todo[t]) /\ todo[t] \in Seq(Lines)
      BY <2>2 DEF LeadTypeOK
    <3>2. \A i \in 1..Len(Tail(todo[t])) : Tail(todo[t])[i] = todo[t][i + 1] /\ i + 1 \in 1..Len(todo[t])
      BY <2>2, <3>1, TailFacts
    <3>3. \A u \in Threads : u # t => todo'[u] = todo[u]
      BY <2>2 DEF LeadTypeOK
    <3> QED
      BY <2>2, <3>1, <3>2, <3>3, TailFacts
  <2> QED
    BY <2>1, <2>2
<1>5. LeadTypeOK'
  BY <1>4 DEF LeadTypeOK, PCs, Staging, Asking
<1>6. MineInv(t)'
  <2>1. pc'[t] = a
    BY DEF LeadTypeOK
  <2>2. \A i \in 1..Len(todo'[t]) : ThreadOf[todo'[t][i]] = t /\ slot[todo'[t][i]] = "none"
    BY <1>4 DEF MineInv
  <2> QED
    BY <2>1, <2>2 DEF MineInv, Staging, Asking
<1>7. \A u \in Threads : u # t => MineInv(u)'
  BY <1>4 DEF MineInv, Staging, Asking, LeadTypeOK
<1>8. SlotInv'
  BY DEF SlotInv
<1>9. OneLeader'
  BY OffTheLead
<1> QED
  BY <1>5, <1>6, <1>7, <1>8, <1>9

\* A line is staged, or its session has ended.
LEMMA StageKeeps ==
  ASSUME LeadInv, NEW t \in Threads, pc[t] \in Staging, todo[t] # <<>>, Stage(t),
         UNCHANGED <<queue, leading, slot, batch>>
  PROVE  LeadInv'
<1> USE DEF LeadInv
<1>0. CASE UNCHANGED mine
  <2>1. /\ pc' = [pc EXCEPT ![t] = "stage"]
        /\ todo' = [todo EXCEPT ![t] = Tail(todo[t])]
    BY DEF Stage, AnswerNow, Goto
  <2> QED
    BY <1>0, <2>1, PassedOver DEF Staging, Asking
<1>1. CASE mine' = [mine EXCEPT ![t] = Append(mine[t], Head(todo[t]))]
  <2>1. /\ pc' = [pc EXCEPT ![t] = "stage"]
        /\ todo' = [todo EXCEPT ![t] = Tail(todo[t])]
    BY DEF Stage, AnswerNow, Goto
  <2>2. /\ todo'[t] = Tail(todo[t]) /\ todo[t] \in Seq(Lines)
        /\ mine'[t] = Append(mine[t], Head(todo[t])) /\ mine[t] \in Seq(Lines)
        /\ \A u \in Threads : u # t => /\ todo'[u] = todo[u] /\ mine'[u] = mine[u]
                                       /\ pc'[u] = pc[u]
        /\ pc'[t] = "stage"
    BY <1>1, <2>1 DEF LeadTypeOK
  <2>3. /\ Tail(todo[t]) \in Seq(Lines) /\ Head(todo[t]) \in Lines
        /\ Head(todo[t]) = todo[t][1] /\ 1 \in 1..Len(todo[t])
        /\ \A i \in 1..Len(Tail(todo[t])) : i + 1 \in 1..Len(todo[t]) /\ Tail(todo[t])[i] = todo[t][i + 1]
    BY <2>2, TailFacts
  <2>4. /\ mine'[t] \in Seq(Lines)
        /\ \A i \in 1..Len(mine'[t]) : \/ i \in 1..Len(mine[t]) /\ mine'[t][i] = mine[t][i]
                                       \/ mine'[t][i] = todo[t][1]
    BY <2>2, <2>3
  <2>5. LeadTypeOK'
    BY <1>1, <2>1, <2>2, <2>3, <2>4 DEF LeadTypeOK, PCs
  <2>6. MineInv(t)'
    <3>1. /\ \A i \in 1..Len(mine[t]) : ThreadOf[mine[t][i]] = t /\ slot[mine[t][i]] = "none"
          /\ \A i \in 1..Len(todo[t]) : ThreadOf[todo[t][i]] = t /\ slot[todo[t][i]] = "none"
      BY DEF MineInv
    <3>2. \A i \in 1..Len(mine'[t]) : ThreadOf[mine'[t][i]] = t /\ slot[mine'[t][i]] = "none"
      BY <2>3, <2>4, <3>1
    <3>3. \A i \in 1..Len(todo'[t]) : ThreadOf[todo'[t][i]] = t /\ slot[todo'[t][i]] = "none"
      BY <2>2, <2>3, <3>1
    <3> QED
      BY <2>2, <3>2, <3>3 DEF MineInv, Staging, Asking
  <2>7. \A u \in Threads : u # t => MineInv(u)'
    BY <2>2 DEF MineInv
  <2>8. SlotInv'
    BY DEF SlotInv
  <2>9. OneLeader'
    BY <2>1, <2>2, OffTheLead DEF Staging, Asking
  <2> QED
    BY <2>5, <2>6, <2>7, <2>8, <2>9
<1> QED
  BY <1>0, <1>1 DEF Stage, AnswerNow

\* The steps of a call before its lines are queued.
LEMMA StagingKeeps ==
  ASSUME LeadInv, NEW t \in Threads,
         \/ StageUnnamed(t) \/ SignedAnswer(t) \/ SignedMiss(t)
         \/ GuidRemembered(t) \/ GuidForgotten(t) \/ GuidLogged(t)
         \/ GuidUnlogged(t) \/ LookupFails(t) \/ Recall(t) \/ SubmitNothing(t)
         \/ SignedFails(t) \/ LineUnread(t)
  PROVE  LeadInv'
<1>1. /\ pc[t] \in Staging
      /\ UNCHANGED <<queue, leading, slot, batch>>
  BY DEF StageUnnamed, SignedAnswer, SignedMiss, GuidRemembered, GuidForgotten,
         GuidLogged, GuidUnlogged, LookupFails, Recall, SubmitNothing, At,
         SignedFails, LineUnread,
         Staging, Asking, stateVars, leadVars
<1>3. CASE StageUnnamed(t) \/ GuidUnlogged(t) \/ LookupFails(t)
  <2>1. todo[t] # <<>> /\ Stage(t)
    BY <1>3 DEF StageUnnamed, GuidUnlogged, LookupFails, At, Asking, LeadInv, MineInv
  <2> QED
    BY <1>1, <2>1, StageKeeps
<1>4. CASE SignedAnswer(t) \/ GuidRemembered(t) \/ Recall(t) \/ SignedFails(t)
  <2>1. /\ pc' = [pc EXCEPT ![t] = "stage"]
        /\ todo' = [todo EXCEPT ![t] = Tail(todo[t])] /\ UNCHANGED mine
        /\ todo[t] # <<>>
    BY <1>4 DEF SignedAnswer, SignedFails, GuidRemembered, Recall, AnswerNow, Goto, At, Asking,
                LeadInv, MineInv
  <2> QED
    BY <1>1, <2>1, PassedOver DEF Staging, Asking
<1>5. CASE SignedMiss(t) \/ GuidLogged(t) \/ LineUnread(t)
  <2>1. UNCHANGED <<todo, mine>> /\ todo[t] # <<>>
    BY <1>5 DEF SignedMiss, GuidLogged, LineUnread, stageVars, At, Asking, LeadInv, MineInv
  <2>2. PICK a \in Asking : pc' = [pc EXCEPT ![t] = a]
    BY <1>5 DEF SignedMiss, GuidLogged, LineUnread, Goto, Asking
  <2>3. a \in Staging \cup {"idle"} /\ a # "idle"
    BY DEF Staging, Asking
  <2> QED
    BY <1>1, <2>1, <2>2, <2>3, PassedOver
<1>6. CASE GuidForgotten(t)
  <2>1. CASE Stage(t)
    BY <1>1, <1>6, <2>1, StageKeeps
         DEF GuidForgotten, At, Asking, LeadInv, MineInv
  <2>2. CASE Goto(t, "lookup") /\ UNCHANGED <<mine, todo>>
    <3>1. pc' = [pc EXCEPT ![t] = "lookup"] /\ todo[t] # <<>>
      BY <1>6, <2>2 DEF GuidForgotten, Goto, At, Asking, LeadInv, MineInv
    <3> QED
      BY <1>1, <2>2, <3>1, PassedOver DEF Staging, Asking
  <2> QED
    BY <1>6, <2>1, <2>2 DEF GuidForgotten
<1>7. CASE SubmitNothing(t)
  <2>1. /\ pc' = [pc EXCEPT ![t] = "idle"] /\ mine[t] = <<>>
        /\ UNCHANGED <<todo, mine>>
    BY <1>7 DEF SubmitNothing, Goto, stageVars
  <2> QED
    BY <1>1, <2>1, PassedOver DEF Staging, Asking
<1> QED
  BY <1>3, <1>4, <1>5, <1>6, <1>7

\* The lines of a call join the queue.  They have no slot yet, so no lead is
\* lost; and if nobody leads the queue was empty, so the thread that takes
\* the lead has its first line at the head.
LEMMA SubmitKeeps ==
  ASSUME LeadInv, NEW t \in Threads, Submit(t)
  PROVE  LeadInv'
<1> USE DEF LeadInv
<1>1. /\ pc[t] = "stage" /\ mine[t] # <<>> /\ leading' = TRUE
      /\ queue' = queue \o mine[t]
      /\ slot' = [l \in Lines |-> IF l \in ToSet(mine[t]) THEN "waiting" ELSE slot[l]]
      /\ pc' = [pc EXCEPT ![t] = IF leading THEN "wait" ELSE "first"]
      /\ UNCHANGED <<mine, todo, batch>>
  BY DEF Submit, At, Goto, stageVars, leadVars
<1>2. /\ queue \in Seq(Lines) /\ mine[t] \in Seq(Lines) /\ queue' \in Seq(Lines)
      /\ Len(queue) \in Nat /\ Len(mine[t]) \in Nat
      /\ Len(queue') = Len(queue) + Len(mine[t])
      /\ \A i \in 1..Len(queue') : queue'[i] = IF i <= Len(queue) THEN queue[i]
                                               ELSE mine[t][i - Len(queue)]
  BY <1>1, ConcatProperties DEF LeadTypeOK
<1>3. /\ Len(mine[t]) >= 1 /\ queue' # <<>>
      /\ Head(queue') = queue'[1] /\ Head(mine[t]) = mine[t][1]
  <2>1. Len(mine[t]) >= 1
    BY <1>1, <1>2, EmptySeq
  <2>2. queue' # <<>>
    BY <2>1, <1>2, EmptySeq
  <2> QED
    BY <2>1, <2>2, <1>1, <1>2, TailFacts
<1>4. queue # <<>> => Len(queue) >= 1 /\ Head(queue') = Head(queue)
  BY <1>2, <1>3, TailFacts
<1>5. ~leading => queue = <<>> /\ queue' = mine[t]
  BY <1>1, <1>2, ConcatEmptySeq DEF OneLeader
<1>6. \A l \in Lines : l \in ToSet(mine[t]) => slot[l] = "none" /\ ThreadOf[l] = t
  <2>1. \A i \in 1..Len(mine[t]) : slot[mine[t][i]] = "none" /\ ThreadOf[mine[t][i]] = t
    BY <1>1 DEF MineInv, Staging, Asking
  <2>2. ToSet(mine[t]) = {mine[t][i] : i \in 1..Len(mine[t])}
    BY <1>2 DEF ToSet
  <2> QED
    BY <2>1, <2>2
<1>7. \A i \in 1..Len(mine[t]) : mine[t][i] \in ToSet(mine[t]) /\ mine[t][i] \in Lines
  BY <1>2 DEF ToSet
<1>8. \A l \in Lines : /\ slot'[l] = "lead" <=> slot[l] = "lead"
                       /\ ThreadOf[l] # t => slot'[l] = slot[l]
                       /\ slot[l] # "none" => slot'[l] = slot[l]
                       /\ l \in ToSet(mine[t]) => slot'[l] = "waiting"
  BY <1>1, <1>6
<1>9. LeadTypeOK'
  BY <1>1, <1>2 DEF LeadTypeOK, PCs
<1>10. MineInv(t)'
  <2>1. pc'[t] = IF leading THEN "wait" ELSE "first"
    BY <1>1 DEF LeadTypeOK
  <2> QED
    BY <2>1, <1>1, <1>3, <1>5 DEF MineInv, Staging, Asking
<1>11. ASSUME NEW u \in Threads, u # t PROVE MineInv(u)'
  <2>1. /\ pc'[u] = pc[u] /\ mine'[u] = mine[u] /\ todo'[u] = todo[u]
        /\ mine[u] \in Seq(Lines) /\ todo[u] \in Seq(Lines)
    BY <1>1, <1>11 DEF LeadTypeOK
  <2>2. /\ \A i \in 1..Len(mine[u]) : mine[u][i] \in Lines /\ ThreadOf[mine[u][i]] # t
        /\ \A i \in 1..Len(todo[u]) : todo[u][i] \in Lines /\ ThreadOf[todo[u][i]] # t
    BY <1>11, <2>1 DEF MineInv
  <2>3. /\ \A i \in 1..Len(mine[u]) : slot'[mine[u][i]] = slot[mine[u][i]]
        /\ \A i \in 1..Len(todo[u]) : slot'[todo[u][i]] = slot[todo[u][i]]
    BY <2>2, <1>8
  <2> QED
    BY SMTT(30), <2>1, <2>3, <1>3, <1>4 DEF MineInv, Staging, Asking
<1>12. SlotInv'
  <2>1. \A i \in 1..Len(queue') : slot'[queue'[i]] # "none"
    <3>1. \A i \in 1..Len(queue) : slot'[queue[i]] # "none"
      BY SMTT(30), <1>2, <1>8 DEF SlotInv
    <3>2. \A i \in 1..Len(mine[t]) : slot'[mine[t][i]] # "none"
      BY <1>7, <1>8
    <3>3. \A i \in 1..Len(queue') : i <= Len(queue) => i \in 1..Len(queue)
      BY <1>2
    <3>4. \A i \in 1..Len(queue') : ~(i <= Len(queue)) => i - Len(queue) \in 1..Len(mine[t])
      BY <1>2
    <3> QED
      BY <1>2, <3>1, <3>2, <3>3, <3>4
  <2>2. \A u \in Threads : \A i \in 1..Len(batch[u]) : slot'[batch[u][i]] # "none"
    BY <1>8 DEF SlotInv, LeadTypeOK
  <2> QED
    BY <1>1, <2>1, <2>2 DEF SlotInv
<1>13. Leads' = Leads
  BY <1>8 DEF Leads
<1>14. Leaders' = IF leading THEN Leaders ELSE {t}
  <2>1. CASE leading
    BY <1>1, <2>1 DEF Leaders, LeadTypeOK
  <2>2. CASE ~leading
    BY <1>1, <2>2 DEF Leaders, LeadTypeOK, OneLeader
  <2> QED
    BY <2>1, <2>2
<1>15. \A u \in Leaders' : pc'[u] = "first" \/ Head(mine'[u]) \in ToSet(batch'[u])
  <2>1. CASE leading
    BY <1>1, <1>14, <2>1 DEF Leaders, LeadTypeOK, OneLeader
  <2>2. CASE ~leading
    BY <1>1, <1>14, <2>2 DEF LeadTypeOK
  <2> QED
    BY <2>1, <2>2
<1>16. OneLeader'
  <2>1. CASE leading
    BY <2>1, <1>1, <1>3, <1>4, <1>13, <1>14, <1>15 DEF OneLeader
  <2>2. CASE ~leading
    BY <2>2, <1>1, <1>3, <1>13, <1>14, <1>15 DEF OneLeader
  <2> QED
    BY <2>1, <2>2
<1> QED
  BY <1>9, <1>10, <1>11, <1>12, <1>16

\* What a step that changes one line's slot needs: the line had one, so it
\* is nobody's that is still being staged.
LEMMA SlotChanged ==
  ASSUME LeadInv, NEW m \in Lines, slot[m] # "none",
         NEW s \in {"waiting", "lead"}, slot' = [slot EXCEPT ![m] = s]
  PROVE  /\ slot' \in [Lines -> {"none", "waiting", "lead", "done"}]
         /\ \A l \in Lines : slot'[l] = IF l = m THEN s ELSE slot[l]
         /\ \A l \in Lines : slot[l] = "none" => slot'[l] = "none"
         /\ \A l \in Lines : slot[l] # "none" => slot'[l] # "none"
  BY DEF LeadInv, LeadTypeOK

\* SlotInv and MineInv of the other threads, when no line loses or gains a
\* slot and the queue keeps its head for whoever is to lead.
LEMMA OthersKeep ==
  ASSUME LeadInv, NEW t \in Threads, NEW u \in Threads, u # t,
         pc'[u] = pc[u], mine'[u] = mine[u], todo'[u] = todo[u],
         \A l \in Lines : slot[l] = "none" => slot'[l] = "none",
         pc[u] = "first" => queue' = queue
  PROVE  MineInv(u)'
<1>1. mine[u] \in Seq(Lines) /\ todo[u] \in Seq(Lines)
  BY DEF LeadInv, LeadTypeOK
<1>2. /\ \A i \in 1..Len(mine[u]) : mine[u][i] \in Lines
      /\ \A i \in 1..Len(todo[u]) : todo[u][i] \in Lines
  BY <1>1
<1> QED
  BY <1>2 DEF LeadInv, MineInv, Staging, Asking

\* The first line of a call that took the lead is told that it leads.
LEMMA SetFirstKeeps ==
  ASSUME LeadInv, NEW t \in Threads, SetFirst(t)
  PROVE  LeadInv'
<1> USE DEF LeadInv
<1> DEFINE m == Head(mine[t])
<1>1. /\ pc[t] = "first" /\ pc' = [pc EXCEPT ![t] = "wait"]
      /\ slot' = [slot EXCEPT ![m] = "lead"]
      /\ UNCHANGED <<queue, leading, mine, todo, batch>>
  BY DEF SetFirst, At, Goto, stageVars, leadVars
<1>2. mine[t] # <<>> /\ queue # <<>> /\ Head(queue) = m
  BY <1>1 DEF MineInv, Staging, Asking
<1>3. m \in Lines /\ slot[m] # "none"
  <2>1. queue[1] = m /\ 1 \in 1..Len(queue)
    BY <1>2, TailFacts DEF LeadTypeOK
  <2> QED
    BY <2>1 DEF LeadTypeOK, SlotInv
<1> HIDE DEF m
<1>4. /\ slot' \in [Lines -> {"none", "waiting", "lead", "done"}]
      /\ \A l \in Lines : slot'[l] = IF l = m THEN "lead" ELSE slot[l]
      /\ \A l \in Lines : slot[l] = "none" => slot'[l] = "none"
      /\ \A l \in Lines : slot[l] # "none" => slot'[l] # "none"
  BY <1>1, <1>3, SlotChanged
<1>5. LeadTypeOK'
  BY <1>1, <1>4 DEF LeadTypeOK, PCs
<1>6. MineInv(t)'
  BY <1>1, <1>2 DEF MineInv, Staging, Asking, LeadTypeOK
<1>7. \A u \in Threads : u # t => MineInv(u)'
  BY <1>1, <1>4, OthersKeep DEF LeadTypeOK
<1>8. SlotInv'
  BY <1>1, <1>4 DEF SlotInv, LeadTypeOK
<1>9. t \in Leaders
  BY <1>1 DEF Leaders
<1>10. Leaders' = {} /\ Leads' = {m}
  BY <1>1, <1>3, <1>4, <1>9 DEF Leaders, Leads, OneLeader, LeadTypeOK
<1>11. OneLeader'
  BY <1>1, <1>2, <1>9, <1>10 DEF OneLeader
<1> QED
  BY <1>5, <1>6, <1>7, <1>8, <1>11

\* A thread takes the answer of its next line: OneLeader aside.
LEMMA AnsweredKeeps ==
  ASSUME LeadInv, NEW t \in Threads, Answered(t), mine[t] # <<>>,
         UNCHANGED <<todo>>
  PROVE  /\ pc'[t] \in {"idle", "wait"}
         /\ \A u \in Threads : u # t => pc'[u] = pc[u] /\ mine'[u] = mine[u]
         /\ pc' \in [Threads -> PCs] /\ mine' \in [Threads -> Seq(Lines)]
         /\ MineInv(t)'
<1> USE DEF LeadInv
<1>1. /\ mine' = [mine EXCEPT ![t] = Tail(mine[t])]
      /\ pc' = [pc EXCEPT ![t] = IF Len(mine[t]) = 1 THEN "idle" ELSE "wait"]
  BY DEF Answered, Goto
<1>2. mine[t] \in Seq(Lines)
  BY DEF LeadTypeOK
<1>3. /\ Tail(mine[t]) \in Seq(Lines)
      /\ \A i \in 1..Len(Tail(mine[t])) : i + 1 \in 1..Len(mine[t]) /\ Tail(mine[t])[i] = mine[t][i + 1]
      /\ (Len(mine[t]) = 1) <=> (Tail(mine[t]) = <<>>)
  BY <1>2, TailFacts
<1>4. /\ mine'[t] = Tail(mine[t])
      /\ pc'[t] = IF Len(mine[t]) = 1 THEN "idle" ELSE "wait"
      /\ \A u \in Threads : u # t => pc'[u] = pc[u] /\ mine'[u] = mine[u]
  BY <1>1 DEF LeadTypeOK
<1>5. pc' \in [Threads -> PCs] /\ mine' \in [Threads -> Seq(Lines)]
  BY <1>1, <1>3 DEF LeadTypeOK, PCs
<1>6. MineInv(t)'
  BY <1>3, <1>4 DEF MineInv, Staging, Asking
<1> QED
  BY <1>4, <1>5, <1>6

\* A line that was answered is taken off its thread's list.
LEMMA DoneKeeps ==
  ASSUME LeadInv, NEW t \in Threads, Done(t)
  PROVE  LeadInv'
<1> USE DEF LeadInv
<1> DEFINE m == Head(mine[t])
<1>1. /\ pc[t] = "wait" /\ slot[m] = "done" /\ Answered(t)
      /\ slot' = [slot EXCEPT ![m] = "waiting"]
      /\ UNCHANGED <<queue, leading, todo, batch>>
  BY DEF Done, At, stageVars, leadVars
<1>2. mine[t] # <<>>
  BY <1>1 DEF MineInv, Staging, Asking
<1>3. m \in Lines
  BY <1>2, TailFacts DEF LeadTypeOK
<1> HIDE DEF m
<1>4. /\ slot' \in [Lines -> {"none", "waiting", "lead", "done"}]
      /\ \A l \in Lines : slot'[l] = IF l = m THEN "waiting" ELSE slot[l]
      /\ \A l \in Lines : slot[l] = "none" => slot'[l] = "none"
      /\ \A l \in Lines : slot[l] # "none" => slot'[l] # "none"
  BY <1>1, <1>3, SlotChanged
<1>5. /\ pc'[t] \in {"idle", "wait"}
      /\ \A u \in Threads : u # t => pc'[u] = pc[u] /\ mine'[u] = mine[u]
      /\ pc' \in [Threads -> PCs] /\ mine' \in [Threads -> Seq(Lines)]
      /\ MineInv(t)'
  BY <1>1, <1>2, AnsweredKeeps
<1>6. LeadTypeOK'
  BY <1>1, <1>4, <1>5 DEF LeadTypeOK
<1>7. \A u \in Threads : u # t => MineInv(u)'
  BY <1>1, <1>4, <1>5, OthersKeep
<1>8. SlotInv'
  BY <1>1, <1>4 DEF SlotInv, LeadTypeOK
<1>9. Leaders' = Leaders /\ Leads' = Leads /\ t \notin Leaders
  BY <1>1, <1>3, <1>4, <1>5 DEF Leaders, Leads
<1>10. OneLeader'
  <2>1. \A u \in Leaders : pc'[u] = pc[u] /\ mine'[u] = mine[u]
    BY <1>5, <1>9 DEF Leaders
  <2> QED
    BY <2>1, <1>1, <1>9 DEF OneLeader
<1> QED
  BY <1>5, <1>6, <1>7, <1>8, <1>10

\* A batch is a prefix of the queue, with its head if it has one.
LEMMA BatchFacts ==
  ASSUME LeadInv, queue # <<>>, ChatCommitAssumption
  PROVE  /\ Batch \in Seq(Lines) /\ Head(queue) \in ToSet(Batch)
         /\ \A i \in 1..Len(Batch) : i \in 1..Len(queue) /\ Batch[i] = queue[i]
         /\ SubSeq(queue, Len(Batch) + 1, Len(queue)) \in Seq(Lines)
         /\ \A i \in 1..Len(SubSeq(queue, Len(Batch) + 1, Len(queue))) :
              /\ Len(Batch) + i \in 1..Len(queue)
              /\ SubSeq(queue, Len(Batch) + 1, Len(queue))[i] = queue[Len(Batch) + i]
<1> DEFINE k == IF Len(queue) < CommitBatch THEN Len(queue) ELSE CommitBatch
<1>1. queue \in Seq(Lines) /\ Len(queue) \in Nat /\ Len(queue) >= 1 /\ Head(queue) = queue[1]
  BY TailFacts DEF LeadInv, LeadTypeOK
<1>2. k \in 1..Len(queue)
  BY <1>1 DEF ChatCommitAssumption
<1>3. Batch = SubSeq(queue, 1, k)
  BY DEF Batch
<1> HIDE DEF k
<1>4. \A i \in 1..Len(queue) : queue[i] \in Lines
  BY <1>1
<1>5. \A i \in 1..k : queue[i] \in Lines
  BY <1>1, <1>2, <1>4
<1>6. /\ Batch \in Seq(Lines) /\ Len(Batch) = k
      /\ \A i \in 1..k : Batch[i] = queue[i]
  BY <1>2, <1>3, <1>5, SubSeqProperties
<1>7. Head(queue) \in ToSet(Batch)
  BY <1>1, <1>2, <1>6 DEF ToSet
<1>8. \A i \in (k + 1)..Len(queue) : queue[i] \in Lines
  BY <1>1, <1>2, <1>4
<1>9. k + 1 \in Int /\ Len(queue) \in Int
  BY <1>1, <1>2
<1>10. /\ SubSeq(queue, k + 1, Len(queue)) \in Seq(Lines)
       /\ Len(SubSeq(queue, k + 1, Len(queue))) = IF k + 1 <= Len(queue) THEN Len(queue) - (k + 1) + 1 ELSE 0
       /\ \A i \in 1..(Len(queue) - (k + 1) + 1) : SubSeq(queue, k + 1, Len(queue))[i] = queue[(k + 1) + i - 1]
  BY <1>8, <1>9, SubSeqProperties
<1>11. \A i \in 1..Len(SubSeq(queue, k + 1, Len(queue))) :
         /\ k + i \in 1..Len(queue)
         /\ SubSeq(queue, k + 1, Len(queue))[i] = queue[k + i]
  BY <1>1, <1>2, <1>10
<1> QED
  BY <1>2, <1>6, <1>7, <1>10, <1>11

\* The line that was handed the lead is the head of the queue, and goes
\* into its own batch; its thread leads in its place.
LEMMA LeadKeeps ==
  ASSUME LeadInv, NEW t \in Threads, Lead(t), ChatCommitAssumption
  PROVE  LeadInv'
<1> USE DEF LeadInv
<1> DEFINE m == Head(mine[t])
<1>1. /\ pc[t] = "wait" /\ slot[m] = "lead" /\ pc' = [pc EXCEPT ![t] = "serial"]
      /\ slot' = [slot EXCEPT ![m] = "waiting"]
      /\ queue' = SubSeq(queue, Len(Batch) + 1, Len(queue))
      /\ batch' = [batch EXCEPT ![t] = Batch]
      /\ UNCHANGED <<leading, mine, todo>>
  BY DEF Lead, At, Goto, stageVars
<1>2. mine[t] # <<>>
  BY <1>1 DEF MineInv, Staging, Asking
<1>3. m \in Lines
  BY <1>2, TailFacts DEF LeadTypeOK
<1>a. m = Head(mine[t])
  OBVIOUS
<1> HIDE DEF m
<1>4. /\ slot' \in [Lines -> {"none", "waiting", "lead", "done"}]
      /\ \A l \in Lines : slot'[l] = IF l = m THEN "waiting" ELSE slot[l]
      /\ \A l \in Lines : slot[l] = "none" => slot'[l] = "none"
      /\ \A l \in Lines : slot[l] # "none" => slot'[l] # "none"
  BY <1>1, <1>3, SlotChanged
<1>5. m \in Leads
  BY <1>1, <1>3 DEF Leads
<1>6. Leads = {m} /\ Leaders = {} /\ queue # <<>> /\ Head(queue) = m /\ leading
  BY <1>5 DEF OneLeader
<1>7. /\ Batch \in Seq(Lines) /\ m \in ToSet(Batch) /\ queue' \in Seq(Lines)
      /\ \A i \in 1..Len(Batch) : slot[Batch[i]] # "none" /\ Batch[i] \in Lines
      /\ \A i \in 1..Len(queue') : slot[queue'[i]] # "none" /\ queue'[i] \in Lines
  <2>1. \A i \in 1..Len(queue) : slot[queue[i]] # "none" /\ queue[i] \in Lines
    BY SMTT(30) DEF SlotInv, LeadTypeOK
  <2> QED
    BY <2>1, <1>1, <1>6, BatchFacts
<1>8. LeadTypeOK'
  BY <1>1, <1>4, <1>7 DEF LeadTypeOK, PCs
<1>9. MineInv(t)'
  <2>1. pc'[t] = "serial" /\ mine'[t] = mine[t] /\ todo'[t] = todo[t]
    BY <1>1 DEF LeadTypeOK
  <2> QED
    BY <1>2, <2>1 DEF MineInv, Staging, Asking
<1>10. ASSUME NEW u \in Threads, u # t PROVE MineInv(u)'
  <2>1. pc[u] # "first"
    BY <1>6 DEF Leaders
  <2> QED
    BY <1>1, <1>4, <1>10, <2>1, OthersKeep DEF LeadTypeOK
<1>11. SlotInv'
  <2>1. \A i \in 1..Len(queue') : slot'[queue'[i]] # "none"
    BY <1>4, <1>7
  <2>2. \A u \in Threads : \A i \in 1..Len(batch[u]) : slot'[batch[u][i]] # "none"
    BY <1>4 DEF SlotInv, LeadTypeOK
  <2>3. \A i \in 1..Len(Batch) : slot'[Batch[i]] # "none"
    BY <1>4, <1>7
  <2>4. \A u \in Threads : batch'[u] = IF u = t THEN Batch ELSE batch[u]
    BY <1>1 DEF LeadTypeOK
  <2> QED
    BY <2>1, <2>2, <2>3, <2>4 DEF SlotInv
<1>12. Leaders' = {t} /\ Leads' = {}
  BY <1>1, <1>3, <1>4, <1>6 DEF Leaders, Leads, LeadTypeOK
<1>13. Head(mine'[t]) \in ToSet(batch'[t])
  BY <1>1, <1>a, <1>7 DEF LeadTypeOK
<1>14. OneLeader'
  BY <1>1, <1>6, <1>12, <1>13 DEF OneLeader
<1> QED
  BY <1>8, <1>9, <1>10, <1>11, <1>14

\* The lines of a batch are answered; nobody else holds the lead meanwhile.
LEMMA AnswerKeeps ==
  ASSUME LeadInv, NEW t \in Threads, Answer(t)
  PROVE  LeadInv'
<1> USE DEF LeadInv
<1> DEFINE b == batch[t]
           place(l) == {i \in 1..Len(b) : b[i] = l}
<1>1. /\ pc[t] = "answer" /\ pc' = [pc EXCEPT ![t] = "handon"]
      /\ slot' = [l \in Lines |-> IF place(l) # {} /\ l # Head(mine[t])
                                  THEN "done" ELSE slot[l]]
      /\ UNCHANGED <<queue, leading, mine, todo, batch>>
  BY DEF Answer, At, Goto, stageVars, leadVars
<1>2. \A l \in Lines : place(l) # {} => slot[l] # "none"
  BY DEF SlotInv
<1>3. \A l \in Lines : /\ slot[l] = "none" => slot'[l] = "none"
                       /\ slot[l] # "none" => slot'[l] # "none"
                       /\ slot'[l] = "lead" => slot[l] = "lead"
  BY <1>1, <1>2
<1>4. slot' \in [Lines -> {"none", "waiting", "lead", "done"}]
  BY <1>1 DEF LeadTypeOK
<1>5. LeadTypeOK'
  BY <1>1, <1>4 DEF LeadTypeOK, PCs
<1>6. MineInv(t)'
  <2>1. pc'[t] = "handon" /\ mine'[t] = mine[t] /\ todo'[t] = todo[t]
    BY <1>1 DEF LeadTypeOK
  <2> QED
    BY <1>1, <2>1 DEF MineInv, Staging, Asking
<1>7. \A u \in Threads : u # t => MineInv(u)'
  BY <1>1, <1>3, OthersKeep DEF LeadTypeOK
<1>8. SlotInv'
  BY <1>1, <1>3 DEF SlotInv, LeadTypeOK
<1>9. t \in Leaders /\ Leads = {} /\ Leads' = {} /\ Leaders' = Leaders
  BY <1>1, <1>3 DEF Leaders, Leads, OneLeader, LeadTypeOK
<1>10. OneLeader'
  <2>1. \A u \in Leaders : u = t /\ Head(mine[u]) \in ToSet(batch[u])
    BY <1>1, <1>9 DEF OneLeader
  <2> QED
    BY <2>1, <1>1, <1>9 DEF OneLeader
<1> QED
  BY <1>5, <1>6, <1>7, <1>8, <1>10

\* The head of the queue is handed the lead; or the queue is empty, and
\* nobody leads.
LEMMA HandOnKeeps ==
  ASSUME LeadInv, NEW t \in Threads, HandOn(t)
  PROVE  LeadInv'
<1> USE DEF LeadInv
<1>1. /\ pc[t] = "handon" /\ Answered(t) /\ leading' = (queue # <<>>)
      /\ slot' = IF queue = <<>> THEN slot ELSE [slot EXCEPT ![Head(queue)] = "lead"]
      /\ batch' = [batch EXCEPT ![t] = <<>>]
      /\ UNCHANGED <<queue, todo>>
  BY DEF HandOn, At, stageVars
<1>2. mine[t] # <<>>
  BY <1>1 DEF MineInv, Staging, Asking
<1>3. /\ pc'[t] \in {"idle", "wait"}
      /\ \A u \in Threads : u # t => pc'[u] = pc[u] /\ mine'[u] = mine[u]
      /\ pc' \in [Threads -> PCs] /\ mine' \in [Threads -> Seq(Lines)]
      /\ MineInv(t)'
  BY <1>1, <1>2, AnsweredKeeps
<1>4. queue # <<>> => Head(queue) \in Lines /\ slot[Head(queue)] # "none"
  <2>1. ASSUME queue # <<>> PROVE Head(queue) = queue[1] /\ 1 \in 1..Len(queue)
    BY <2>1, TailFacts DEF LeadTypeOK
  <2> QED
    BY <2>1 DEF LeadTypeOK, SlotInv
<1>5. /\ slot' \in [Lines -> {"none", "waiting", "lead", "done"}]
      /\ \A l \in Lines : slot[l] = "none" => slot'[l] = "none"
      /\ \A l \in Lines : slot[l] # "none" => slot'[l] # "none"
      /\ \A l \in Lines : slot'[l] = IF queue # <<>> /\ l = Head(queue) THEN "lead" ELSE slot[l]
  <2>1. CASE queue = <<>>
    BY <1>1, <2>1 DEF LeadTypeOK
  <2>2. CASE queue # <<>>
    BY <1>1, <1>4, <2>2, SlotChanged
  <2> QED
    BY <2>1, <2>2
<1>6. LeadTypeOK'
  <2>1. <<>> \in Seq(Lines)
    BY EmptySeq
  <2>2. batch' \in [Threads -> Seq(Lines)]
    BY <1>1, <2>1 DEF LeadTypeOK
  <2>3. leading' \in BOOLEAN
    BY <1>1
  <2> QED
    BY <1>1, <1>3, <1>5, <2>2, <2>3 DEF LeadTypeOK
<1>7. \A u \in Threads : u # t => MineInv(u)'
  BY <1>1, <1>3, <1>5, OthersKeep
<1>8. SlotInv'
  <2>1. \A i \in 1..Len(queue) : slot'[queue[i]] # "none"
    BY <1>5 DEF SlotInv, LeadTypeOK
  <2>2. \A u \in Threads : \A i \in 1..Len(batch[u]) : slot'[batch[u][i]] # "none"
    BY <1>5 DEF SlotInv, LeadTypeOK
  <2>3. \A u \in Threads : batch'[u] = IF u = t THEN <<>> ELSE batch[u]
    BY <1>1 DEF LeadTypeOK
  <2>4. Len(<<>>) = 0
    BY EmptySeq
  <2> QED
    BY <1>1, <2>1, <2>2, <2>3, <2>4 DEF SlotInv
<1>9. t \in Leaders /\ Leads = {}
  BY <1>1 DEF Leaders, OneLeader
<1>10. Leaders' = {}
  BY <1>3, <1>9 DEF Leaders, OneLeader
<1>11. Leads' = IF queue = <<>> THEN {} ELSE {Head(queue)}
  BY <1>4, <1>5, <1>9 DEF Leads
<1>12. OneLeader'
  BY <1>1, <1>10, <1>11 DEF OneLeader
<1> QED
  BY <1>3, <1>6, <1>7, <1>8, <1>12

\* After a restart nobody leads and nothing is queued.
LEMMA RestartKeeps ==
  ASSUME LeadInv, Restart
  PROVE  LeadInv'
<1> USE DEF LeadInv
<1>1. /\ queue' = <<>> /\ leading' = FALSE /\ pc' = AllIdle
      /\ slot' = [l \in Lines |-> IF slot[l] = "none" THEN "none" ELSE "waiting"]
      /\ todo' = Empty /\ mine' = Empty /\ batch' = Empty
  BY DEF Restart
<1>2. <<>> \in Seq(Lines) /\ Len(<<>>) = 0
  BY EmptySeq
<1>3. LeadTypeOK'
  BY <1>1, <1>2 DEF LeadTypeOK, Empty, AllIdle, PCs
<1>4. \A t \in Threads : MineInv(t)'
  BY <1>1, <1>2 DEF MineInv, Empty, AllIdle, Staging, Asking
<1>5. SlotInv'
  BY <1>1, <1>2 DEF SlotInv, Empty
<1>6. Leaders' = {} /\ Leads' = {}
  BY <1>1 DEF Leaders, Leads, AllIdle
<1>7. OneLeader'
  BY <1>1, <1>6 DEF OneLeader
<1> QED
  BY <1>3, <1>4, <1>5, <1>7

\* The steps of a commit that InertStep is about.
LEMMA CommitKeeps ==
  ASSUME LeadInv, NEW t \in Threads,
         \/ Check(t) \/ CheckPoisoned(t) \/ AppendAll(t) \/ RememberLines(t)
         \/ Relay(t) \/ Relayed(t) \/ StoreFails(t) \/ CommitPanics(t)
  PROVE  LeadInv'
<1>1. UNCHANGED <<queue, leading, slot, todo, mine, batch>>
  BY DEF Check, CheckPoisoned, AppendAll, RememberLines, Relay, Relayed,
         StoreFails, CommitPanics, Panicked, stateVars, stageVars
<1>2. \/ pc' = pc
      \/ /\ pc[t] \in {"serial", "append", "remember", "relay"}
         /\ \E a \in {"append", "remember", "relay", "answer"} :
              pc' = [pc EXCEPT ![t] = a]
  BY DEF Check, CheckPoisoned, AppendAll, RememberLines, Relay, Relayed,
         StoreFails, CommitPanics, Panicked, At, Goto
<1> QED
  BY <1>1, <1>2, InertStep

\* The steps of the rest of the server, and a step that changes nothing.
LEMMA RestKeeps ==
  ASSUME LeadInv,
         \/ \E x \in Sessions : Leave(x)
         \/ \E p \in Kept : ChooseSender(p)
         \/ \E i \in 1..Len(log) : ChooseLine(i)
         \/ TombstoneLines \/ TombstoneFails \/ Expire
         \/ UNCHANGED vars
  PROVE  LeadInv'
<1>1. UNCHANGED commitVars
  BY DEF Leave, ChooseSender, ChooseLine, TombstoneLines, Tombstone,
         TombstoneFails, Expire, vars
<1>2. UNCHANGED <<queue, leading, slot, pc, todo, mine, batch>>
  BY <1>1 DEF commitVars, stateVars, stageVars, leadVars
<1>3. CASE Threads = {}
  BY <1>2, <1>3 DEF LeadInv, LeadTypeOK, SlotInv, OneLeader, Leaders, Leads
<1>4. CASE Threads # {}
  BY <1>2, <1>4, InertStep
<1> QED
  BY <1>3, <1>4

\* Every step keeps LeadInv.
LEMMA LeadStep ==
  ASSUME LeadInv, [Next]_vars, ChatCommitAssumption
  PROVE  LeadInv'
<1>1. ASSUME NEW t \in Threads, NEW ls \in Calls, ChatPublic(t, ls) PROVE LeadInv'
  BY <1>1, ChatPublicKeeps
<1>2. ASSUME NEW t \in Threads, ThreadStep(t) PROVE LeadInv'
  BY <1>2, StagingKeeps, SubmitKeeps, SetFirstKeeps,
     DoneKeeps, LeadKeeps, CommitKeeps, AnswerKeeps, HandOnKeeps
     DEF ThreadStep
<1>3. ASSUME NEW t \in Threads,
             \/ SignedFails(t) \/ LookupFails(t) \/ LineUnread(t)
             \/ StoreFails(t) \/ CommitPanics(t)
      PROVE  LeadInv'
  BY <1>3, StagingKeeps, CommitKeeps
<1>4. ASSUME Restart PROVE LeadInv'
  BY <1>4, RestartKeeps
<1> QED
  BY <1>1, <1>2, <1>3, <1>4, RestKeeps DEF Next

\* At most one thread leads the room's commits and a queued line always has
\* a leader, who is at the head of the queue or in its own batch: for any
\* threads, lines, calls, batch size and faults (submit_all, lead).
THEOREM OneLeaderEver == Spec => []OneLeader
<1>1. Init => LeadInv
  BY LeadInit
<1>2. LeadInv /\ [Next]_vars => LeadInv'
  BY ChatCommitAssumption, LeadStep
<1>3. LeadInv => OneLeader
  BY DEF LeadInv
<1> QED
  BY <1>1, <1>2, <1>3, PTL DEF Spec

=============================================================================
