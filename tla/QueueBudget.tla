---------------------------- MODULE QueueBudget ----------------------------
(***************************************************************************)
(* The bytes the server's queues may hold between them (hxd-core,          *)
(* budget.rs).                                                             *)
(*                                                                         *)
(* A queue draws on the budget through its share.  The share's counter and *)
(* the server's are separate atomics and no lock covers both, so a take, a *)
(* give and a drop are several steps, and the steps of other threads fall  *)
(* between them:                                                           *)
(*                                                                         *)
(*   take:  take -> server -> judge -> got | unserver -> unown -> over     *)
(*   give:  give -> given -> (what the task does next)                     *)
(*   drop:  drop -> uncount -> (what the task does next)                   *)
(***************************************************************************)
EXTENDS Integers, FiniteSets, Sequences, FiniteSetsExt, SequencesExt

CONSTANTS
  Shares,      \* the shares there may be
  NoShare,
  Tasks,       \* the threads that draw on them
  OwnBound,    \* `own` of Share::take, by share
  Budget,      \* QueueBudget.limit
  Weights      \* Event::weight, Outbound::wire_len

ASSUME BudgetAssumption ==
  /\ NoShare \notin Shares
  /\ Budget \in Nat /\ Weights \subseteq Nat \ {0}
  /\ OwnBound \in [Shares -> Nat]

\* The sum of the numbers n[i], counted one by one.
Units(n) == UNION {{i} \X (1..n[i]) : i \in DOMAIN n}
Total(n) == Cardinality(Units(n))

VARIABLES
  held,    \* QueueBudget.held
  shares,  \* QueueBudget.shares
  own,     \* Share.held of each share
  on,      \* the shares that exist
  queue,   \* the weights of what each share's queue holds
  task     \* what each thread is in the middle of

budgetVars == <<held, shares, own, on, queue, task>>

Idle == [pc |-> "idle", share |-> NoShare, w |-> 0, mine |-> 0, all |-> 0,
         then |-> "idle"]

BudgetInit(open) ==
  /\ held = 0 /\ shares = Cardinality(open) /\ on = open
  /\ own = [s \in Shares |-> 0]
  /\ queue = [s \in Shares |-> <<>>]
  /\ task = [t \in Tasks |-> Idle]

Begin(t, pc, s, w, then) ==
  task' = [task EXCEPT ![t] =
             [pc |-> pc, share |-> s, w |-> w, mine |-> 0, all |-> 0, then |-> then]]

Goto(t, pc) == task' = [task EXCEPT ![t].pc = pc]

\* The task leaves the budget for what it does next.
Leave(t) ==
  task' = [task EXCEPT ![t] = IF task[t].then = "idle" THEN Idle
                              ELSE [@ EXCEPT !.pc = task[t].then, !.then = "idle"]]

-----------------------------------------------------------------------------
(* Share::take *)

\* Mutant: the bound is compared with what the share held before.
TakeOwnBefore(t) ==
  LET s == task[t].share  mine == own[s] + task[t].w IN
  /\ task[t].pc = "take"
  /\ own' = [own EXCEPT ![s] = mine]
  /\ task' = [task EXCEPT ![t].mine = mine,
                          ![t].pc = IF own[s] > OwnBound[s] THEN "unown" ELSE "server"]
  /\ UNCHANGED <<held, shares, on, queue>>

TakeOwn(t) ==
  LET s == task[t].share  mine == own[s] + task[t].w IN
  /\ task[t].pc = "take"
  /\ own' = [own EXCEPT ![s] = mine]
  /\ task' = [task EXCEPT ![t].mine = mine,
                          ![t].pc = IF mine > OwnBound[s] THEN "unown" ELSE "server"]
  /\ UNCHANGED <<held, shares, on, queue>>

TakeServer(t) ==
  LET all == held + task[t].w IN
  /\ task[t].pc = "server"
  /\ held' = all
  /\ task' = [task EXCEPT ![t].all = all,
                          ![t].pc = IF all > Budget THEN "judge" ELSE "got"]
  /\ UNCHANGED <<shares, own, on, queue>>

\* Over the budget, only a queue past the average that was not well below
\* it before is refused.
PastAverage(k) ==
  LET average == k.all \div Max({shares, 1}) IN
  k.mine > average /\ k.mine - k.w > average \div 2

Judge(t) ==
  /\ task[t].pc = "judge"
  /\ Goto(t, IF PastAverage(task[t]) THEN "unserver" ELSE "got")
  /\ UNCHANGED <<held, shares, own, on, queue>>

\* Mutant: a refusal gives back the queue's own count alone.
UnServerForgot(t) ==
  /\ task[t].pc = "unserver"
  /\ Goto(t, "unown")
  /\ UNCHANGED <<held, shares, own, on, queue>>

UnServer(t) ==
  /\ task[t].pc = "unserver"
  /\ held' = held - task[t].w
  /\ Goto(t, "unown")
  /\ UNCHANGED <<shares, own, on, queue>>

UnOwn(t) ==
  /\ task[t].pc = "unown"
  /\ own' = [own EXCEPT ![task[t].share] = @ - task[t].w]
  /\ Goto(t, "over")
  /\ UNCHANGED <<held, shares, on, queue>>

-----------------------------------------------------------------------------
(* Share::give and Share::drop *)

GiveOwn(t) ==
  /\ task[t].pc = "give"
  /\ own' = [own EXCEPT ![task[t].share] = @ - task[t].w]
  /\ Goto(t, "given")
  /\ UNCHANGED <<held, shares, on, queue>>

GiveServer(t) ==
  /\ task[t].pc = "given"
  /\ held' = held - task[t].w
  /\ Leave(t)
  /\ UNCHANGED <<shares, own, on, queue>>

\* What the queue still held goes back with it.
DropHeld(t) ==
  LET s == task[t].share IN
  /\ task[t].pc = "drop"
  /\ held' = held - own[s]
  /\ own' = [own EXCEPT ![s] = 0]
  /\ queue' = [queue EXCEPT ![s] = <<>>]
  /\ Goto(t, "uncount")
  /\ UNCHANGED <<shares, on>>

DropCount(t) ==
  /\ task[t].pc = "uncount"
  /\ shares' = shares - 1
  /\ on' = on \ {task[t].share}
  /\ Leave(t)
  /\ UNCHANGED <<held, own, queue>>

BudgetStep(t) ==
  \/ TakeOwn(t) \/ TakeServer(t) \/ Judge(t) \/ UnServer(t) \/ UnOwn(t)
  \/ GiveOwn(t) \/ GiveServer(t) \/ DropHeld(t) \/ DropCount(t)

-----------------------------------------------------------------------------
(* Properties. *)

\* Which counters have what a thread is in the middle of taking or giving.
InServer(k) == k.pc \in {"judge", "unserver", "got", "give", "given"}
InOwn(k) == k.pc \in {"server", "judge", "unserver", "unown", "got", "give"}

OnServer == [t \in Tasks |-> IF InServer(task[t]) THEN task[t].w ELSE 0]
OnShare(s) ==
  [t \in Tasks |-> IF task[t].share = s /\ InOwn(task[t]) THEN task[t].w ELSE 0]

\* However the takes, the refusals, the gives and the drops of the threads
\* interleave, the server's counter is what is queued plus what is being
\* taken or given at this moment, each share's counter is the same for its
\* own queue, and the count of shares is the number of queues there are: no
\* refusal, no give and no queue that ends with events in it leaves bytes
\* behind or gives back too much (Share::take, give and drop).
BudgetCounted ==
  /\ held = Total([s \in Shares |-> Total(queue[s])]) + Total(OnServer)
  /\ \A s \in Shares : own[s] = Total(queue[s]) + Total(OnShare(s))
  /\ shares = Cardinality(on)

\* A take adds before it compares, and a give removes what has left the queue
\* already: whichever takes and gives of a share run side by side, the queue
\* never holds more than its own bound (`mine > own` of Share::take).
QueueBounded == \A s \in Shares : Total(queue[s]) <= OwnBound[s]
=============================================================================
