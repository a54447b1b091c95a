---------------------------- MODULE Budget_proofs ---------------------------
(***************************************************************************)
(* Further proofs about Admission, on top of the invariant of              *)
(* Admission_proofs, for any number of shares and threads, any weights and *)
(* any bounds: the counters of the queue budget add up, no queue passes    *)
(* its own bound, and the type invariant.                                  *)
(*                                                                         *)
(*   QueueTyped  what the budget's variables are;                          *)
(*   TaskInv     which threads use a share, and for what;                  *)
(*   ShareInv    which shares exist, and that whoever drops one is alone   *)
(*               with it: what it takes from the server's counter is then  *)
(*               exactly what the queue held;                              *)
(*   CountInv, CardInv                                                     *)
(*               BudgetCounted, and that its sums are finite;              *)
(*   BoundInv    a queue, with the takes its bound has let through, is     *)
(*               within the bound.                                         *)
(*                                                                         *)
(* The sums range over as many shares and threads as there are, and a step *)
(* changes one number of each.  Total counts units, so a sum with one      *)
(* number changed is a matter of the cardinality of disjoint sets, and     *)
(* needs no induction.                                                     *)
(***************************************************************************)
EXTENDS Admission_proofs

\* What a thread may be in the middle of.
TaskRec == [pc : TaskPcs, share : Shares \cup {NoShare}, w : Nat, mine : Nat, all : Nat,
            then : {"idle", "over"}]

Dropping == {"drop", "uncount"}
Giving == {"give", "given"}

\* The type of the budget's state.
QueueTyped ==
  /\ task \in [Tasks -> TaskRec]
  /\ queue \in [Shares -> Seq(Weights)]
  /\ own \in [Shares -> Nat] /\ held \in Nat /\ shares \in Nat
  /\ on \subseteq Shares /\ IsFiniteSet(on)
  /\ backlog \in [lagging : BOOLEAN, closed : BOOLEAN]

\* What the thread's record says at each step.
TaskAt(t, k) ==
  /\ k.pc = "idle" => k = Idle
  /\ k.pc # "idle" => k.share \in Shares
  /\ k.pc \in Taking \ {"over"} => k.w \in Weights
  /\ t # Hub => k.then = "idle"

\* Which threads use a share, and for what.
UserOf(t, k) ==
  \/ k.pc = "idle"
  \/ t = Hub /\ k.share \in Conns /\ k.pc \in Taking \cup Giving
  \/ t = Hub /\ k.share \in Sessions
  \/ t \in Conns /\ k.share = t /\ k.pc \in Giving \cup Dropping
  \/ t \in Enqueuers /\ k.share = Backlog /\ k.pc \in Taking \cup Giving
  \/ t \in Writers /\ k.share = Backlog /\ k.pc \in Giving \cup Dropping

TaskInv == \A t \in Tasks : TaskAt(t, task[t]) /\ UserOf(t, task[t])

\* A connection's share, and those who use it.
ConnShare(c) ==
  /\ c \in on => \/ conn[c].pc \in {"up", "close"}
                 \/ conn[c].pc = "drop" /\ task[c].pc \in Dropping
  /\ task[c].pc \in Dropping => c \in on /\ conn[c].pc = "drop"
  /\ task[c].pc \in Giving => conn[c].pc = "up"
  /\ task[Hub].pc # "idle" /\ task[Hub].share = c => conn[c].pc = "up"

\* A buffer's share, there from the loss of the connection to the drop.
SessShare(s) ==
  /\ s \in on <=> \/ sess[s].sink \in {"buffering", "broken"}
                  \/ task[Hub].share = s /\ task[Hub].pc \in Dropping
  /\ task[Hub].share = s /\ task[Hub].pc \in Dropping
       => sess[s].sink \notin {"buffering", "broken"}

\* The writer drops the backlog after the last enqueue.
BacklogShare ==
  \A t \in Writers : task[t].pc \in Dropping =>
    Backlog \in on /\ \A e \in Enqueuers : task[e].pc = "idle"

ShareInv == /\ \A c \in Conns : ConnShare(c)
            /\ \A s \in Sessions : SessShare(s)
            /\ BacklogShare

\* A take that its own bound has let through.
Granted == {"server", "judge", "got"}

Kept(s) == [t \in Tasks |->
   IF task[t].share = s /\ task[t].pc \in Granted THEN task[t].w ELSE 0]

BoundInv == \A s \in Shares : Total(queue[s]) + Total(Kept(s)) <= OwnBound[s]

-----------------------------------------------------------------------------
(* Sums. *)

LEMMA UnitsMember ==
  ASSUME NEW n, NEW x
  PROVE  x \in Units(n) <=> \E i \in DOMAIN n : \E b \in 1..n[i] : x = <<i, b>>
BY DEF Units

\* The units of one number.
Column(i, w) == {i} \X (1..w)

LEMMA ColumnSize ==
  ASSUME NEW i, NEW w \in Nat
  PROVE  IsFiniteSet(Column(i, w)) /\ Cardinality(Column(i, w)) = w
<1>1. IsFiniteSet({i}) /\ Cardinality({i}) = 1
  BY FS_Singleton
<1>2. IsFiniteSet(1..w) /\ Cardinality(1..w) = w
  BY FS_Interval
<1>3. /\ IsFiniteSet({i} \X (1..w))
      /\ Cardinality({i} \X (1..w)) = Cardinality({i}) * Cardinality(1..w)
  BY <1>1, <1>2, FS_Product, Zenon
<1>4. Cardinality({i}) * Cardinality(1..w) = w
  <2>1. 1 * w = w
    OBVIOUS
  <2> QED BY ONLY <1>1, <1>2, <2>1
<1> QED BY <1>3, <1>4 DEF Column

\* Two disjoint sets of units.
LEMMA Disjoint ==
  ASSUME NEW S, NEW T, IsFiniteSet(S), IsFiniteSet(T), S \cap T = {}
  PROVE  /\ IsFiniteSet(S \cup T)
         /\ Cardinality(S \cup T) = Cardinality(S) + Cardinality(T)
         /\ Cardinality(S) \in Nat /\ Cardinality(T) \in Nat
<1>1. Cardinality(S \cap T) = 0
  BY FS_EmptySet
<1>2. /\ IsFiniteSet(S \cup T)
      /\ Cardinality(S \cup T) = Cardinality(S) + Cardinality(T) - Cardinality(S \cap T)
  BY FS_Union, Zenon
<1>3. Cardinality(S) \in Nat /\ Cardinality(T) \in Nat
  BY FS_CardinalityType, Zenon
<1> QED BY ONLY <1>1, <1>2, <1>3

LEMMA UnitsSplit ==
  ASSUME NEW n, NEW i \in DOMAIN n, n[i] \in Nat, IsFiniteSet({x \in Units(n) : x[1] # i})
  PROVE  /\ IsFiniteSet(Units(n))
         /\ Total(n) = Cardinality({x \in Units(n) : x[1] # i}) + n[i]
         /\ Cardinality({x \in Units(n) : x[1] # i}) \in Nat
<1> DEFINE R == {x \in Units(n) : x[1] # i}  C == Column(i, n[i])
<1>1. Units(n) = R \cup C
  <2>1. ASSUME NEW x \in Units(n), x \notin R PROVE x \in C
    BY <2>1, UnitsMember DEF Column
  <2>2. ASSUME NEW x \in C PROVE x \in Units(n)
    BY <2>2, UnitsMember DEF Column
  <2> QED BY <2>1, <2>2
<1>2. R \cap C = {}
  BY DEF Column
<1>3. IsFiniteSet(C) /\ Cardinality(C) = n[i]
  BY ColumnSize
<1>4. IsFiniteSet(R)
  OBVIOUS
<1> HIDE DEF R, C
<1>5. /\ IsFiniteSet(R \cup C) /\ Cardinality(R \cup C) = Cardinality(R) + Cardinality(C)
      /\ Cardinality(R) \in Nat
  BY <1>2, <1>3, <1>4, Disjoint
<1> QED BY <1>1, <1>3, <1>5 DEF Total, R

\* One number of a sum changes.
LEMMA TotalChanges ==
  ASSUME NEW n, NEW m, NEW I, DOMAIN n = I, DOMAIN m = I, NEW i \in I,
         n[i] \in Nat, m[i] \in Nat, \A j \in I : j # i => m[j] = n[j],
         IsFiniteSet(Units(n))
  PROVE  /\ IsFiniteSet(Units(m))
         /\ Total(m) = Total(n) - n[i] + m[i]
         /\ Total(n) \in Nat /\ Total(m) \in Nat
         /\ n[i] <= Total(n)
<1> DEFINE R == {x \in Units(n) : x[1] # i}  Q == {x \in Units(m) : x[1] # i}
<1>1. R = Q
  <2>1. ASSUME NEW x \in R PROVE x \in Q
    <3>1. PICK j \in I : \E b \in 1..n[j] : x = <<j, b>>
      BY <2>1, UnitsMember
    <3>2. j # i
      BY <2>1, <3>1
    <3> QED BY <3>1, <3>2, UnitsMember
  <2>2. ASSUME NEW x \in Q PROVE x \in R
    <3>1. PICK j \in I : \E b \in 1..m[j] : x = <<j, b>>
      BY <2>2, UnitsMember
    <3>2. j # i
      BY <2>2, <3>1
    <3> QED BY <3>1, <3>2, UnitsMember
  <2> QED BY <2>1, <2>2
<1>2. IsFiniteSet(R)
  BY FS_Subset
<1>3. Total(n) = Cardinality(R) + n[i] /\ Cardinality(R) \in Nat
  BY <1>2, UnitsSplit
<1>4. IsFiniteSet(Units(m)) /\ Total(m) = Cardinality(Q) + m[i]
  BY <1>1, <1>2, UnitsSplit
<1> HIDE DEF R, Q
<1> QED BY <1>1, <1>3, <1>4

\* A sum of what is no more, number by number.
LEMMA TotalLess ==
  ASSUME NEW n, NEW m, DOMAIN m = DOMAIN n, IsFiniteSet(Units(n)),
         \A j \in DOMAIN n : n[j] \in Nat /\ m[j] \in Nat /\ m[j] <= n[j]
  PROVE  IsFiniteSet(Units(m)) /\ Total(m) <= Total(n)
<1>1. Units(m) \subseteq Units(n)
  <2> SUFFICES ASSUME NEW x \in Units(m) PROVE x \in Units(n)
    OBVIOUS
  <2>1. PICK j \in DOMAIN m : \E b \in 1..m[j] : x = <<j, b>>
    BY UnitsMember
  <2>2. PICK b \in 1..m[j] : x = <<j, b>>
    BY <2>1
  <2>3. b \in 1..n[j]
    OBVIOUS
  <2> QED BY <2>1, <2>2, <2>3, UnitsMember
<1> QED BY <1>1, FS_Subset DEF Total

LEMMA TotalZero ==
  ASSUME NEW n, \A j \in DOMAIN n : n[j] = 0
  PROVE  Units(n) = {} /\ IsFiniteSet(Units(n)) /\ Total(n) = 0
<1>1. Units(n) = {}
  <2>1. ASSUME NEW x \in Units(n) PROVE FALSE
    <3>1. PICK j \in DOMAIN n : \E b \in 1..n[j] : x = <<j, b>>
      BY <2>1, UnitsMember
    <3> QED BY <3>1
  <2> QED BY <2>1
<1> QED BY <1>1, FS_EmptySet DEF Total

\* The units of a sequence.
LEMMA SeqFinite ==
  ASSUME NEW q \in Seq(Nat)
  PROVE  IsFiniteSet(Units(q)) /\ Total(q) \in Nat
<1> DEFINE D == 1..Len(q)
           T == {{i} \X (1..q[i]) : i \in D}
           f == [i \in D |-> {i} \X (1..q[i])]
<1>1. IsFiniteSet(D)
  BY FS_Interval
<1>2. f \in Surjection(D, T)
  BY DEF Surjection
<1>3. IsFiniteSet(T)
  <2> HIDE DEF D, T, f
  <2> QED BY <1>1, <1>2, FS_Surjection, Zenon
<1>4. ASSUME NEW C \in T PROVE IsFiniteSet(C)
  <2>1. PICK i \in D : C = Column(i, q[i])
    BY DEF Column
  <2>2. q[i] \in Nat
    OBVIOUS
  <2> QED BY <2>1, <2>2, ColumnSize
<1>5. Units(q) = UNION T
  BY DEF Units
<1>6. IsFiniteSet(UNION T)
  <2> HIDE DEF T
  <2> QED BY <1>3, <1>4, FS_UNION
<1> QED BY <1>5, <1>6, FS_CardinalityType DEF Total

LEMMA TotalEmpty == Total(<<>>) = 0
BY TotalZero

LEMMA SeqUnits ==
  ASSUME NEW q \in Seq(Nat), NEW x \in Units(q)
  PROVE  /\ x = <<x[1], x[2]>> /\ x[1] \in 1..Len(q) /\ x[2] \in 1..q[x[1]]
         /\ x[1] \in Nat
<1>1. PICK i \in DOMAIN q : \E b \in 1..q[i] : x = <<i, b>>
  BY UnitsMember
<1>2. PICK b \in 1..q[i] : x = <<i, b>>
  BY <1>1
<1>3. DOMAIN q = 1..Len(q) /\ i \in Nat
  OBVIOUS
<1>4. x[1] = i /\ x[2] = b
  BY <1>2
<1> QED BY <1>2, <1>3, <1>4

LEMMA UnitOf ==
  ASSUME NEW q \in Seq(Nat), NEW i \in 1..Len(q), NEW b \in 1..q[i]
  PROVE  <<i, b>> \in Units(q)
<1>1. i \in DOMAIN q
  OBVIOUS
<1> QED BY <1>1, UnitsMember

\* A sequence in two parts.
LEMMA TotalParts ==
  ASSUME NEW q \in Seq(Nat), NEW p \in Seq(Nat), NEW r \in Seq(Nat), NEW n \in Nat,
         Len(p) = n, Len(q) = n + Len(r),
         \A i \in 1..n : p[i] = q[i],
         \A i \in 1..Len(r) : r[i] = q[n + i]
  PROVE  Total(q) = Total(p) + Total(r)
<1> DEFINE F == {x \in Units(q) : x[1] <= n}
           B == {x \in Units(q) : x[1] > n}
           f == [x \in Units(r) |-> <<n + x[1], x[2]>>]
<1>1. Len(r) \in Nat /\ Len(q) \in Nat
  OBVIOUS
<1>2. IsFiniteSet(Units(q)) /\ IsFiniteSet(Units(p)) /\ IsFiniteSet(Units(r))
  BY SeqFinite
<1>3. Units(p) = F
  <2>1. ASSUME NEW x \in Units(p) PROVE x \in F
    <3>1. x = <<x[1], x[2]>> /\ x[1] \in 1..n /\ x[2] \in 1..p[x[1]]
      BY <2>1, SeqUnits
    <3>2. x[1] \in 1..Len(q) /\ p[x[1]] = q[x[1]] /\ x[1] <= n
      BY <1>1, <3>1
    <3>3. <<x[1], x[2]>> \in Units(q)
      BY <3>1, <3>2, UnitOf
    <3> QED BY <3>1, <3>2, <3>3
  <2>2. ASSUME NEW x \in F PROVE x \in Units(p)
    <3>1. x = <<x[1], x[2]>> /\ x[1] \in 1..Len(q) /\ x[2] \in 1..q[x[1]] /\ x[1] <= n
      BY <2>2, SeqUnits
    <3>2. x[1] \in 1..n
      BY <1>1, <3>1
    <3>3. p[x[1]] = q[x[1]]
      BY <3>2
    <3>4. <<x[1], x[2]>> \in Units(p)
      BY <3>1, <3>2, <3>3, UnitOf
    <3> QED BY <3>1, <3>4
  <2> QED BY <2>1, <2>2
<1>4. f \in Bijection(Units(r), B)
  <2>1. ASSUME NEW x \in Units(r)
        PROVE  /\ <<n + x[1], x[2]>> \in B
               /\ x[1] \in Nat /\ x = <<x[1], x[2]>>
    <3>1. /\ x = <<x[1], x[2]>> /\ x[1] \in 1..Len(r) /\ x[2] \in 1..r[x[1]]
          /\ x[1] \in Nat
      BY <2>1, SeqUnits
    <3>2. n + x[1] \in 1..Len(q) /\ n + x[1] > n /\ r[x[1]] = q[n + x[1]]
      BY <1>1, <3>1
    <3>3. <<n + x[1], x[2]>> \in Units(q)
      BY <3>1, <3>2, UnitOf
    <3>4. <<n + x[1], x[2]>>[1] = n + x[1]
      OBVIOUS
    <3> QED BY <3>1, <3>2, <3>3, <3>4
  <2>2. ASSUME NEW y \in B PROVE \E x \in Units(r) : f[x] = y
    <3>1. y = <<y[1], y[2]>> /\ y[1] \in 1..Len(q) /\ y[2] \in 1..q[y[1]] /\ y[1] > n
      BY <2>2, SeqUnits
    <3>2. PICK i, b : y = <<i, b>> /\ i \in 1..Len(q) /\ b \in 1..q[i] /\ i > n
      BY <3>1
    <3>4. i - n \in 1..Len(r) /\ n + (i - n) = i
      BY <1>1, <3>2
    <3>5. r[i - n] = q[i]
      BY <3>4
    <3>6. <<i - n, b>> \in Units(r)
      BY <3>2, <3>4, <3>5, UnitOf
    <3>7. f[<<i - n, b>>] = y
      BY <3>2, <3>4, <3>6
    <3> QED BY <3>6, <3>7
  <2>3. ASSUME NEW x \in Units(r), NEW y \in Units(r), f[x] = f[y] PROVE x = y
    <3>1. n + x[1] = n + y[1] /\ x[2] = y[2]
      BY <2>3
    <3>2. x[1] \in Nat /\ y[1] \in Nat
      BY <2>1
    <3>3. x[1] = y[1]
      BY ONLY <3>1, <3>2, n \in Nat
    <3> QED BY <2>1, <3>1, <3>3
  <2>4. f \in [Units(r) -> B]
    BY <2>1
  <2> HIDE DEF f, B
  <2> QED BY <2>2, <2>3, <2>4 DEF Bijection, Injection, Surjection, IsInjective
<1>5. Cardinality(B) = Total(r) /\ IsFiniteSet(B)
  <2> HIDE DEF B
  <2>1. ExistsBijection(Units(r), B)
    BY <1>4 DEF ExistsBijection
  <2> QED BY <1>2, <2>1, FS_Bijection DEF Total
<1>6. F \cup B = Units(q) /\ F \cap B = {}
  <2>1. ASSUME NEW x \in Units(q) PROVE x[1] \in Nat
    BY <2>1, SeqUnits
  <2> QED BY <2>1
<1>7. IsFiniteSet(F)
  BY <1>2, <1>3
<1> HIDE DEF F, B
<1>8. Cardinality(F \cup B) = Cardinality(F) + Cardinality(B)
  BY <1>5, <1>6, <1>7, Disjoint
<1> QED BY <1>3, <1>5, <1>6, <1>8 DEF Total

LEMMA TotalOne == ASSUME NEW w \in Nat PROVE Total(<<w>>) = w
<1>1. /\ <<w>> \in Seq(Nat) /\ DOMAIN <<w>> = {1} /\ <<w>>[1] = w
  OBVIOUS
<1>2. Units(<<w>>) = Column(1, w)
  BY <1>1 DEF Units, Column
<1> QED BY <1>2, ColumnSize DEF Total

LEMMA TotalAppend ==
  ASSUME NEW q \in Seq(Nat), NEW w \in Nat
  PROVE  Total(Append(q, w)) = Total(q) + w
<1>1. PICK r, p : r = Append(q, w) /\ p = <<w>>
  OBVIOUS
<1>2. /\ r \in Seq(Nat) /\ p \in Seq(Nat) /\ Len(r) = Len(q) + Len(p) /\ Len(q) \in Nat
      /\ \A i \in 1..Len(q) : q[i] = r[i]
      /\ \A i \in 1..Len(p) : p[i] = r[Len(q) + i]
  BY <1>1
<1>3. Total(r) = Total(q) + Total(p)
  BY <1>2, TotalParts
<1> QED BY <1>1, <1>3, TotalOne

LEMMA TotalTail ==
  ASSUME NEW q \in Seq(Nat), q # <<>>
  PROVE  /\ Total(q) = Head(q) + Total(Tail(q))
         /\ Head(q) \in Nat /\ Tail(q) \in Seq(Nat)
<1>1. PICK p, r, n : p = <<Head(q)>> /\ r = Tail(q) /\ n = 1
  OBVIOUS
<1>2. /\ p \in Seq(Nat) /\ r \in Seq(Nat) /\ Len(p) = n /\ Len(q) = n + Len(r)
      /\ Head(q) \in Nat /\ n \in Nat
  BY <1>1
<1>3. \A i \in 1..n : p[i] = q[i]
  BY <1>1
<1>4. \A i \in 1..Len(r) : r[i] = q[n + i]
  BY <1>1
<1>5. Total(q) = Total(p) + Total(r)
  BY <1>2, <1>3, <1>4, TotalParts
<1> QED BY <1>1, <1>2, <1>5, TotalOne

LEMMA TotalBatch ==
  ASSUME NEW q \in Seq(Nat), NEW n \in 1..Len(q)
  PROVE  /\ Total(q) = Total(SubSeq(q, 1, n)) + Total(SubSeq(q, n + 1, Len(q)))
         /\ SubSeq(q, 1, n) \in Seq(Nat) /\ SubSeq(q, n + 1, Len(q)) \in Seq(Nat)
<1>1. PICK p, r : p = SubSeq(q, 1, n) /\ r = SubSeq(q, n + 1, Len(q))
  OBVIOUS
<1>2. p \in Seq(Nat) /\ Len(p) = n /\ \A i \in 1..n : p[i] = q[i]
  <2>1. \A i \in 1..n : q[i] \in Nat
    OBVIOUS
  <2> QED BY <1>1, <2>1
<1>3. r \in Seq(Nat) /\ Len(r) = Len(q) - n /\ \A i \in 1..Len(r) : r[i] = q[n + i]
  <2>1. \A i \in (n + 1)..Len(q) : q[i] \in Nat
    OBVIOUS
  <2>2. r \in Seq(Nat) /\ Len(r) = Len(q) - n
    BY <1>1, <2>1
  <2>3. \A i \in 1..(Len(q) - n) : r[i] = q[(n + 1) + i - 1]
    BY <1>1
  <2>4. ASSUME NEW i \in 1..Len(r) PROVE r[i] = q[n + i]
    <3>1. (n + 1) + i - 1 = n + i /\ i \in 1..(Len(q) - n)
      BY <2>2
    <3> QED BY <2>3, <3>1
  <2> QED BY <2>2, <2>4
<1>4. Len(q) = n + Len(r) /\ n \in Nat
  BY <1>3
<1>5. Total(q) = Total(p) + Total(r)
  BY <1>2, <1>3, <1>4, TotalParts
<1> QED BY <1>1, <1>2, <1>3, <1>5

-----------------------------------------------------------------------------
(* The counters, when one thread moves. *)

\* What a thread adds to the server's counter, to a share's, and to what the
\* share's bound has let through.
ServerPart(k) == IF InServer(k) THEN k.w ELSE 0
OwnPart(k, s) == IF k.share = s /\ InOwn(k) THEN k.w ELSE 0
KeptPart(k, s) == IF k.share = s /\ k.pc \in Granted THEN k.w ELSE 0

Loads == [s \in Shares |-> Total(queue[s])]

CountInv ==
  /\ IsFiniteSet(Units(Loads)) /\ IsFiniteSet(Units(OnServer))
  /\ \A s \in Shares : IsFiniteSet(Units(OnShare(s)))
  /\ held = Total(Loads) + Total(OnServer)
  /\ \A s \in Shares : own[s] = Total(queue[s]) + Total(OnShare(s))

LEMMA WeightsNat == Weights \subseteq Nat /\ \A q \in Seq(Weights) : q \in Seq(Nat)
<1>1. Weights \subseteq Nat
  BY BudgetAssumption
<1>2. ASSUME NEW q \in Seq(Weights) PROVE q \in Seq(Nat)
  <2>1. q = [i \in 1..Len(q) |-> q[i]] /\ Len(q) \in Nat /\ \A i \in 1..Len(q) : q[i] \in Weights
    OBVIOUS
  <2>2. q \in [1..Len(q) -> Nat]
    BY <1>1, <2>1
  <2> QED BY <2>1, <2>2
<1> QED BY <1>1, <1>2

LEMMA PartsTyped ==
  ASSUME NEW k \in TaskRec, NEW s
  PROVE  /\ ServerPart(k) \in Nat /\ OwnPart(k, s) \in Nat /\ KeptPart(k, s) \in Nat
         /\ KeptPart(k, s) <= OwnPart(k, s)
<1>1. k.w \in Nat
  BY DEF TaskRec
<1>2. k.pc \in Granted => InOwn(k)
  BY DEF Granted, InOwn
<1> QED BY <1>1, <1>2 DEF ServerPart, OwnPart, KeptPart

\* What a thread holds, and what a queue holds, changes together with the
\* counters.
LEMMA Moves ==
  ASSUME CountInv, NEW t \in Tasks, NEW q \in Shares,
         task \in [Tasks -> TaskRec], task' \in [Tasks -> TaskRec],
         queue \in [Shares -> Seq(Weights)], queue' \in [Shares -> Seq(Weights)],
         \A u \in Tasks : u # t => task'[u] = task[u],
         \A s \in Shares : s # q => queue'[s] = queue[s],
         held' \in Int, own' \in [Shares -> Int],
         held' = held + (Total(queue'[q]) - Total(queue[q]))
                      + (ServerPart(task'[t]) - ServerPart(task[t])),
         \A s \in Shares : own'[s] = own[s] + (Total(queue'[s]) - Total(queue[s]))
                                           + (OwnPart(task'[t], s) - OwnPart(task[t], s))
  PROVE  CountInv' /\ held' \in Nat /\ own' \in [Shares -> Nat]
<1>1. ASSUME NEW s \in Shares
      PROVE  queue[s] \in Seq(Nat) /\ queue'[s] \in Seq(Nat)
             /\ Total(queue[s]) \in Nat /\ Total(queue'[s]) \in Nat
  <2>1. queue[s] \in Seq(Nat) /\ queue'[s] \in Seq(Nat)
    BY WeightsNat
  <2> QED BY <2>1, SeqFinite
<1>2. task[t] \in TaskRec /\ task'[t] \in TaskRec
  OBVIOUS
<1>3. /\ IsFiniteSet(Units(Loads')) /\ Total(Loads') \in Nat /\ Total(Loads) \in Nat
      /\ Total(Loads') = Total(Loads) - Total(queue[q]) + Total(queue'[q])
  <2>1. PICK n, m : n = Loads /\ m = Loads'
    OBVIOUS
  <2>2. /\ DOMAIN n = Shares /\ DOMAIN m = Shares
        /\ n[q] = Total(queue[q]) /\ m[q] = Total(queue'[q])
        /\ \A s \in Shares : s # q => m[s] = n[s]
    BY <2>1 DEF Loads
  <2>3. n[q] \in Nat /\ m[q] \in Nat /\ IsFiniteSet(Units(n))
    BY <1>1, <2>1, <2>2 DEF CountInv
  <2> QED BY <2>1, <2>2, <2>3, TotalChanges
<1>4. /\ IsFiniteSet(Units(OnServer')) /\ Total(OnServer') \in Nat /\ Total(OnServer) \in Nat
      /\ Total(OnServer') = Total(OnServer) - ServerPart(task[t]) + ServerPart(task'[t])
  <2>1. PICK n, m : n = OnServer /\ m = OnServer'
    OBVIOUS
  <2>2. /\ DOMAIN n = Tasks /\ DOMAIN m = Tasks
        /\ n[t] = ServerPart(task[t]) /\ m[t] = ServerPart(task'[t])
        /\ \A u \in Tasks : u # t => m[u] = n[u]
    BY <2>1 DEF OnServer, ServerPart
  <2>3. n[t] \in Nat /\ m[t] \in Nat /\ IsFiniteSet(Units(n))
    BY <1>2, <2>1, <2>2, PartsTyped DEF CountInv
  <2> QED BY <2>1, <2>2, <2>3, TotalChanges
<1>5. ASSUME NEW s \in Shares
      PROVE  /\ IsFiniteSet(Units(OnShare(s)')) /\ Total(OnShare(s)') \in Nat
             /\ Total(OnShare(s)) \in Nat
             /\ Total(OnShare(s)')
                  = Total(OnShare(s)) - OwnPart(task[t], s) + OwnPart(task'[t], s)
  <2>1. PICK n, m : n = OnShare(s) /\ m = OnShare(s)'
    OBVIOUS
  <2>2. /\ DOMAIN n = Tasks /\ DOMAIN m = Tasks
        /\ n[t] = OwnPart(task[t], s) /\ m[t] = OwnPart(task'[t], s)
        /\ \A u \in Tasks : u # t => m[u] = n[u]
    BY <2>1 DEF OnShare, OwnPart
  <2>3. n[t] \in Nat /\ m[t] \in Nat /\ IsFiniteSet(Units(n))
    BY <1>2, <2>1, <2>2, PartsTyped DEF CountInv
  <2>4. /\ IsFiniteSet(Units(m)) /\ Total(m) \in Nat /\ Total(n) \in Nat
        /\ Total(m) = Total(n) - n[t] + m[t]
    BY <2>2, <2>3, TotalChanges
  <2> QED BY <2>1, <2>2, <2>4
<1>6. ServerPart(task[t]) \in Nat /\ ServerPart(task'[t]) \in Nat
  BY <1>2, PartsTyped
<1>7. held' = Total(Loads') + Total(OnServer')
  <2>1. held = Total(Loads) + Total(OnServer)
    BY DEF CountInv
  <2>2. Total(queue[q]) \in Nat /\ Total(queue'[q]) \in Nat
    BY <1>1
  <2>3. held' = held + (Total(queue'[q]) - Total(queue[q]))
                     + (ServerPart(task'[t]) - ServerPart(task[t]))
    OBVIOUS
  <2> QED BY ONLY <1>3, <1>4, <1>6, <2>1, <2>2, <2>3
<1>8. ASSUME NEW s \in Shares PROVE own'[s] = Total(queue'[s]) + Total(OnShare(s)')
  <2>1. own[s] = Total(queue[s]) + Total(OnShare(s))
    BY DEF CountInv
  <2>2. Total(queue[s]) \in Nat /\ Total(queue'[s]) \in Nat
    BY <1>1
  <2>3. OwnPart(task[t], s) \in Nat /\ OwnPart(task'[t], s) \in Nat
    BY <1>2, PartsTyped
  <2>4. own'[s] = own[s] + (Total(queue'[s]) - Total(queue[s]))
                         + (OwnPart(task'[t], s) - OwnPart(task[t], s))
    OBVIOUS
  <2>5. /\ Total(OnShare(s)') \in Nat /\ Total(OnShare(s)) \in Nat
        /\ Total(OnShare(s)')
             = Total(OnShare(s)) - OwnPart(task[t], s) + OwnPart(task'[t], s)
    BY <1>5
  <2> QED BY ONLY <2>1, <2>2, <2>3, <2>4, <2>5
<1>9. CountInv'
  BY <1>3, <1>4, <1>5, <1>7, <1>8 DEF CountInv
<1>10. held' \in Nat
  BY <1>3, <1>4, <1>7
<1>11. ASSUME NEW s \in Shares PROVE own'[s] \in Nat
  <2>1. Total(queue'[s]) \in Nat
    BY <1>1
  <2>2. Total(OnShare(s)') \in Nat
    BY <1>5
  <2>3. own'[s] = Total(queue'[s]) + Total(OnShare(s)')
    BY <1>8
  <2> QED BY ONLY <2>1, <2>2, <2>3
<1> QED BY <1>9, <1>10, <1>11

\* What is granted is among what the share's counter has.
LEMMA KeptLess ==
  ASSUME task \in [Tasks -> TaskRec], NEW s \in Shares, IsFiniteSet(Units(OnShare(s)))
  PROVE  /\ IsFiniteSet(Units(Kept(s))) /\ Total(Kept(s)) \in Nat
         /\ Total(OnShare(s)) \in Nat /\ Total(Kept(s)) <= Total(OnShare(s))
<1>1. PICK n, m : n = OnShare(s) /\ m = Kept(s)
  OBVIOUS
<1>2. /\ DOMAIN n = Tasks /\ DOMAIN m = Tasks
      /\ \A u \in Tasks : n[u] = OwnPart(task[u], s) /\ m[u] = KeptPart(task[u], s)
  BY <1>1 DEF OnShare, Kept, OwnPart, KeptPart
<1>3. \A u \in Tasks : n[u] \in Nat /\ m[u] \in Nat /\ m[u] <= n[u]
  BY <1>2, PartsTyped
<1>4. IsFiniteSet(Units(m)) /\ Total(m) <= Total(n)
  BY <1>1, <1>2, <1>3, TotalLess
<1>5. Total(m) \in Nat /\ Total(n) \in Nat
  BY <1>1, <1>4, FS_CardinalityType DEF Total
<1> QED BY <1>1, <1>4, <1>5

LEMMA BoundMoves ==
  ASSUME CountInv, CountInv', BoundInv, NEW t \in Tasks,
         task \in [Tasks -> TaskRec], task' \in [Tasks -> TaskRec],
         queue \in [Shares -> Seq(Weights)], queue' \in [Shares -> Seq(Weights)],
         \A u \in Tasks : u # t => task'[u] = task[u],
         \A s \in Shares :
           \/ Total(queue'[s]) + KeptPart(task'[t], s) <= Total(queue[s]) + KeptPart(task[t], s)
           \/ own'[s] <= OwnBound[s]
  PROVE  BoundInv'
<1> SUFFICES ASSUME NEW s \in Shares PROVE Total(queue'[s]) + Total(Kept(s)') <= OwnBound[s]
  BY DEF BoundInv
<1>1. OwnBound[s] \in Nat
  BY BudgetAssumption
<1>2. Total(queue[s]) \in Nat /\ Total(queue'[s]) \in Nat
  <2>1. queue[s] \in Seq(Nat) /\ queue'[s] \in Seq(Nat)
    BY WeightsNat
  <2> QED BY <2>1, SeqFinite
<1>3. /\ IsFiniteSet(Units(Kept(s))) /\ Total(Kept(s)) \in Nat
  BY KeptLess DEF CountInv
<1>4. Total(Kept(s)') \in Nat /\ Total(OnShare(s)') \in Nat /\ Total(Kept(s)') <= Total(OnShare(s)')
  <2>1. IsFiniteSet(Units(OnShare(s)'))
    BY DEF CountInv
  <2>2. PICK n, m : n = OnShare(s)' /\ m = Kept(s)'
    OBVIOUS
  <2>3. /\ DOMAIN n = Tasks /\ DOMAIN m = Tasks
        /\ \A u \in Tasks : n[u] = OwnPart(task'[u], s) /\ m[u] = KeptPart(task'[u], s)
    BY <2>2 DEF OnShare, Kept, OwnPart, KeptPart
  <2>4. \A u \in Tasks : n[u] \in Nat /\ m[u] \in Nat /\ m[u] <= n[u]
    BY <2>3, PartsTyped
  <2>5. IsFiniteSet(Units(m)) /\ Total(m) <= Total(n)
    BY <2>1, <2>2, <2>3, <2>4, TotalLess
  <2>6. Total(m) \in Nat /\ Total(n) \in Nat
    BY <2>1, <2>2, <2>5, FS_CardinalityType DEF Total
  <2> QED BY <2>2, <2>5, <2>6
<1>5. CASE own'[s] <= OwnBound[s]
  <2>1. own'[s] = Total(queue'[s]) + Total(OnShare(s)')
    BY DEF CountInv
  <2> QED BY <1>1, <1>2, <1>4, <1>5, <2>1
<1>6. CASE Total(queue'[s]) + KeptPart(task'[t], s) <= Total(queue[s]) + KeptPart(task[t], s)
  <2>1. KeptPart(task[t], s) \in Nat /\ KeptPart(task'[t], s) \in Nat
    BY PartsTyped
  <2>2. PICK n, m : n = Kept(s) /\ m = Kept(s)'
    OBVIOUS
  <2>3. /\ DOMAIN n = Tasks /\ DOMAIN m = Tasks
        /\ n[t] = KeptPart(task[t], s) /\ m[t] = KeptPart(task'[t], s)
        /\ \A u \in Tasks : u # t => m[u] = n[u]
    BY <2>2 DEF Kept, KeptPart
  <2>0. IsFiniteSet(Units(n)) /\ n[t] \in Nat /\ m[t] \in Nat
    BY <1>3, <2>1, <2>2, <2>3
  <2>4. Total(m) = Total(n) - n[t] + m[t]
    BY ONLY <2>0, <2>3, t \in Tasks, TotalChanges
  <2>5. Total(queue[s]) + Total(n) <= OwnBound[s]
    BY <2>2 DEF BoundInv
  <2>6. Total(queue'[s]) + m[t] <= Total(queue[s]) + n[t] /\ n[t] \in Nat /\ m[t] \in Nat
    BY <1>6, <2>1, <2>3
  <2>7. Total(n) \in Nat /\ Total(m) \in Nat
    BY <1>3, <1>4, <2>2
  <2>8. Total(queue'[s]) + Total(m) <= OwnBound[s]
    BY ONLY <1>1, <1>2, <2>4, <2>5, <2>6, <2>7
  <2> QED BY <2>2, <2>8
<1> QED BY <1>5, <1>6

\* The count of shares.
CardInv == shares = Cardinality(on)

BudgetInv == /\ QueueTyped /\ TaskInv /\ ShareInv
             /\ CountInv /\ CardInv /\ BoundInv

LEMMA MoreConstants ==
  /\ Tasks = Conns \cup {Hub} \cup Writers \cup Enqueuers
  /\ Shares = Conns \cup Sessions \cup {Backlog}
  /\ Hub \notin Conns /\ Hub \notin Writers /\ Hub \notin Enqueuers
  /\ \A t \in Writers : t \notin Enqueuers /\ t \notin Conns /\ \A u \in Writers : t = u
  /\ \A e \in Enqueuers : e \notin Conns
  /\ \A c \in Conns : c \notin Sessions
  /\ Backlog \notin Conns /\ Backlog \notin Sessions
  /\ NoShare \notin Shares
BY AdmissionAssumption, BudgetAssumption

\* The shares there are, and their number.
SharesOK == on' \subseteq Shares /\ IsFiniteSet(on') /\ shares' = Cardinality(on')

LEMMA SharesSame == ASSUME BudgetInv, UNCHANGED <<shares, on>> PROVE SharesOK
BY DEF BudgetInv, QueueTyped, CardInv, SharesOK

LEMMA BacklogSame ==
  ASSUME BudgetInv, UNCHANGED backlog PROVE backlog' \in [lagging : BOOLEAN, closed : BOOLEAN]
BY DEF BudgetInv, QueueTyped

\* One thread's step, on one share.
LEMMA ThreadStep ==
  ASSUME BudgetInv, NEW t \in Tasks, NEW k \in TaskRec, NEW q \in Shares,
         task' = [task EXCEPT ![t] = k], TaskAt(t, k), UserOf(t, k),
         queue' \in [Shares -> Seq(Weights)],
         \A s \in Shares : s # q => queue'[s] = queue[s],
         SharesOK, ShareInv',
         backlog' \in [lagging : BOOLEAN, closed : BOOLEAN],
         held' \in Int, own' \in [Shares -> Int],
         held' = held + (Total(queue'[q]) - Total(queue[q]))
                      + (ServerPart(k) - ServerPart(task[t])),
         \A s \in Shares : own'[s] = own[s] + (Total(queue'[s]) - Total(queue[s]))
                                           + (OwnPart(k, s) - OwnPart(task[t], s)),
         \A s \in Shares :
           \/ Total(queue'[s]) + KeptPart(k, s) <= Total(queue[s]) + KeptPart(task[t], s)
           \/ own'[s] <= OwnBound[s]
  PROVE  BudgetInv'
<1>1. /\ task \in [Tasks -> TaskRec] /\ task' \in [Tasks -> TaskRec] /\ task'[t] = k
      /\ \A u \in Tasks : u # t => task'[u] = task[u]
      /\ queue \in [Shares -> Seq(Weights)]
  BY DEF BudgetInv, QueueTyped
<1>2. CountInv' /\ held' \in Nat /\ own' \in [Shares -> Nat]
  BY <1>1, Moves DEF BudgetInv
<1>3. BoundInv'
  BY <1>1, <1>2, BoundMoves DEF BudgetInv
<1>4. QueueTyped'
  <2>1. shares' \in Nat
    BY FS_CardinalityType DEF SharesOK
  <2> QED BY <1>1, <1>2, <2>1 DEF QueueTyped, SharesOK
<1>5. TaskInv'
  <2>1. ASSUME NEW u \in Tasks PROVE TaskAt(u, task'[u]) /\ UserOf(u, task'[u])
    BY <1>1 DEF BudgetInv, TaskInv
  <2> QED BY <2>1 DEF TaskInv, TaskAt, UserOf
<1>6. CardInv'
  BY DEF CardInv, SharesOK
<1> QED BY <1>2, <1>3, <1>4, <1>5, <1>6 DEF BudgetInv

-----------------------------------------------------------------------------
(* Whose share it is. *)

Buffered(s) == sess[s].sink \in {"buffering", "broken"}

\* A thread goes on with what it does, or is done with it.
LEMMA Continues ==
  ASSUME BudgetInv, NEW t \in Tasks, NEW k \in TaskRec, task' = [task EXCEPT ![t] = k],
         k.pc = "idle" \/ k.share = task[t].share, task[t].pc # "idle",
         k.pc \in Dropping <=> task[t].pc \in Dropping,
         t \in Conns /\ k.pc \in Giving => task[t].pc \in Giving,
         UNCHANGED <<conn, on>>, \A s \in Sessions : Buffered(s)' <=> Buffered(s)
  PROVE  ShareInv'
<1>1. /\ task'[t] = k /\ \A u \in Tasks : u # t => task'[u] = task[u]
      /\ conn' = conn /\ on' = on
  BY DEF BudgetInv, QueueTyped
<1>2. Hub \in Tasks /\ Conns \subseteq Tasks /\ Writers \subseteq Tasks /\ Enqueuers \subseteq Tasks
  BY MoreConstants
<1>3. ASSUME NEW c \in Conns PROVE ConnShare(c)'
  <2>1. ConnShare(c)
    BY DEF BudgetInv, ShareInv
  <2>2. /\ task'[c].pc \in Dropping <=> task[c].pc \in Dropping
        /\ task'[c].pc \in Giving => task[c].pc \in Giving
    BY <1>1, <1>2
  <2>3. task'[Hub].pc # "idle" /\ task'[Hub].share = c
          => task[Hub].pc # "idle" /\ task[Hub].share = c
    BY <1>1, <1>2
  <2> QED BY <1>1, <2>1, <2>2, <2>3 DEF ConnShare
<1>4. ASSUME NEW s \in Sessions PROVE SessShare(s)'
  <2>1. SessShare(s)
    BY DEF BudgetInv, ShareInv
  <2>2. task'[Hub].share = s /\ task'[Hub].pc \in Dropping
          <=> task[Hub].share = s /\ task[Hub].pc \in Dropping
    BY <1>1, <1>2 DEF Dropping
  <2> QED BY <1>1, <2>1, <2>2 DEF SessShare, Buffered
<1>5. BacklogShare'
  <2>1. BacklogShare
    BY DEF BudgetInv, ShareInv
  <2>2. /\ \A u \in Writers : task'[u].pc \in Dropping => task[u].pc \in Dropping
        /\ \A e \in Enqueuers : task[e].pc = "idle" => task'[e].pc = "idle"
    BY <1>1, <1>2
  <2> QED BY <1>1, <2>1, <2>2 DEF BacklogShare
<1> QED BY <1>3, <1>4, <1>5 DEF ShareInv

\* A thread begins to take or to give.
LEMMA Begins ==
  ASSUME BudgetInv, NEW t \in Tasks, NEW k \in TaskRec, task' = [task EXCEPT ![t] = k],
         task[t].pc = "idle", k.pc \notin Dropping,
         t \in Conns => conn[t].pc = "up",
         t = Hub /\ k.share \in Conns => conn[k.share].pc = "up",
         t \in Enqueuers => \A u \in Writers : task[u].pc \notin Dropping,
         UNCHANGED <<conn, on>>, \A s \in Sessions : Buffered(s)' <=> Buffered(s)
  PROVE  ShareInv'
<1>1. /\ task'[t] = k /\ \A u \in Tasks : u # t => task'[u] = task[u]
      /\ conn' = conn /\ on' = on
  BY DEF BudgetInv, QueueTyped
<1>2. Hub \in Tasks /\ Conns \subseteq Tasks /\ Writers \subseteq Tasks /\ Enqueuers \subseteq Tasks
  BY MoreConstants
<1>0. "idle" \notin Dropping /\ "idle" \notin Giving
  BY DEF Dropping, Giving
<1>3. ASSUME NEW c \in Conns PROVE ConnShare(c)'
  <2>1. ConnShare(c)
    BY DEF BudgetInv, ShareInv
  <2>2. /\ task'[c].pc \in Dropping <=> task[c].pc \in Dropping
        /\ task'[c].pc \in Giving => task[c].pc \in Giving \/ conn[c].pc = "up"
    BY <1>0, <1>1, <1>2
  <2>3. task'[Hub].pc # "idle" /\ task'[Hub].share = c
          => (task[Hub].pc # "idle" /\ task[Hub].share = c) \/ conn[c].pc = "up"
    BY <1>1, <1>2
  <2> QED BY <1>1, <2>1, <2>2, <2>3 DEF ConnShare
<1>4. ASSUME NEW s \in Sessions PROVE SessShare(s)'
  <2>1. SessShare(s)
    BY DEF BudgetInv, ShareInv
  <2>2. task'[Hub].share = s /\ task'[Hub].pc \in Dropping
          <=> task[Hub].share = s /\ task[Hub].pc \in Dropping
    BY <1>0, <1>1, <1>2
  <2> QED BY <1>1, <2>1, <2>2 DEF SessShare, Buffered
<1>5. BacklogShare'
  <2>1. BacklogShare
    BY DEF BudgetInv, ShareInv
  <2>2. ASSUME NEW u \in Writers, task'[u].pc \in Dropping
        PROVE  task[u].pc \in Dropping /\ \A e \in Enqueuers : task'[e].pc = task[e].pc
    BY <1>0, <1>1, <1>2, <2>2
  <2> QED BY <1>1, <2>1, <2>2 DEF BacklogShare
<1> QED BY <1>3, <1>4, <1>5 DEF ShareInv

\* The next step of the same take, give or drop.
LEMMA SameKind ==
  ASSUME NEW t \in Tasks, NEW r \in TaskRec, NEW k \in TaskRec, TaskAt(t, r), UserOf(t, r),
         k.share = r.share, k.w = r.w, k.then = r.then,
         \/ r.pc \in Taking \ {"over"} /\ k.pc \in Taking
         \/ r.pc \in Giving /\ k.pc \in Giving
         \/ r.pc \in Dropping /\ k.pc \in Dropping
  PROVE  TaskAt(t, k) /\ UserOf(t, k)
<1>1. r.pc # "idle" /\ k.pc # "idle"
  BY DEF Taking, Giving, Dropping
<1>2. TaskAt(t, k)
  BY <1>1 DEF TaskAt, Taking, Giving, Dropping
<1>3. /\ r.pc \in Taking => k.pc \in Taking
      /\ r.pc \in Giving => k.pc \in Giving
      /\ r.pc \in Dropping => k.pc \in Dropping
  BY DEF Taking, Giving, Dropping
<1>4. UserOf(t, k)
  BY <1>1, <1>3 DEF UserOf
<1> QED BY <1>2, <1>4

LEMMA PcChanged ==
  ASSUME NEW r \in TaskRec, NEW pc \in TaskPcs, NEW k, k = [r EXCEPT !.pc = pc]
  PROVE  /\ k \in TaskRec /\ k.pc = pc /\ k.share = r.share /\ k.w = r.w
         /\ k.then = r.then
BY DEF TaskRec

-----------------------------------------------------------------------------
(* Share::take, give and drop. *)

\* A step that leaves the queues alone.
LEMMA CounterStep ==
  ASSUME BudgetInv, NEW t \in Tasks, NEW k \in TaskRec,
         task' = [task EXCEPT ![t] = k], TaskAt(t, k), UserOf(t, k),
         UNCHANGED queue, SharesOK, ShareInv',
         backlog' \in [lagging : BOOLEAN, closed : BOOLEAN],
         held' \in Int, own' \in [Shares -> Int],
         held' = held + (ServerPart(k) - ServerPart(task[t])),
         \A s \in Shares : own'[s] = own[s] + (OwnPart(k, s) - OwnPart(task[t], s)),
         \A s \in Shares : KeptPart(k, s) <= KeptPart(task[t], s) \/ own'[s] <= OwnBound[s]
  PROVE  BudgetInv'
<1>1. Backlog \in Shares
  BY MoreConstants
<1>2. /\ queue \in [Shares -> Seq(Weights)] /\ task[t] \in TaskRec /\ held \in Int
      /\ own \in [Shares -> Int]
  BY DEF BudgetInv, QueueTyped
<1>3. ASSUME NEW s \in Shares PROVE Total(queue[s]) \in Nat /\ Total(queue'[s]) = Total(queue[s])
  <2>1. queue[s] \in Seq(Nat)
    BY <1>2, WeightsNat
  <2> QED BY <2>1, SeqFinite
<1>4. held' = held + (Total(queue'[Backlog]) - Total(queue[Backlog]))
                   + (ServerPart(k) - ServerPart(task[t]))
  <2>1. /\ Total(queue[Backlog]) \in Nat /\ Total(queue'[Backlog]) = Total(queue[Backlog])
        /\ ServerPart(k) \in Nat /\ ServerPart(task[t]) \in Nat
    BY <1>1, <1>2, <1>3, PartsTyped
  <2> QED BY <1>2, <2>1
<1>5. ASSUME NEW s \in Shares
      PROVE  /\ own'[s] = own[s] + (Total(queue'[s]) - Total(queue[s]))
                                + (OwnPart(k, s) - OwnPart(task[t], s))
             /\ \/ Total(queue'[s]) + KeptPart(k, s) <= Total(queue[s]) + KeptPart(task[t], s)
                \/ own'[s] <= OwnBound[s]
  <2>1. /\ OwnPart(k, s) \in Nat /\ OwnPart(task[t], s) \in Nat
        /\ KeptPart(k, s) \in Nat /\ KeptPart(task[t], s) \in Nat
    BY <1>2, PartsTyped
  <2>2. Total(queue[s]) \in Nat /\ Total(queue'[s]) = Total(queue[s]) /\ own[s] \in Int
    BY <1>2, <1>3
  <2> QED BY <2>1, <2>2
<1> QED BY <1>1, <1>2, <1>4, <1>5, ThreadStep

\* What is known of a thread in the middle of something.
LEMMA ThreadAt ==
  ASSUME BudgetInv, NEW t \in Tasks
  PROVE  /\ task[t] \in TaskRec /\ TaskAt(t, task[t]) /\ UserOf(t, task[t])
         /\ task[t].w \in Nat /\ task[t].pc \in TaskPcs
         /\ task \in [Tasks -> TaskRec]
         /\ task[t].pc # "idle" => task[t].share \in Shares
         /\ own \in [Shares -> Nat] /\ held \in Nat /\ shares \in Nat
         /\ queue \in [Shares -> Seq(Weights)]
<1>1. task[t] \in TaskRec
  BY DEF BudgetInv, QueueTyped
<1> QED BY <1>1 DEF BudgetInv, QueueTyped, TaskInv, TaskAt, TaskRec

LEMMA TakeOwnStep ==
  ASSUME BudgetInv, NEW t \in Tasks, TakeOwn(t), UNCHANGED <<conn, sess, backlog>>
  PROVE  BudgetInv'
<1>1. PICK s, w, mine, pc, r :
        /\ r = task[t] /\ s = r.share /\ w = r.w /\ mine = own[s] + w
        /\ pc = IF mine > OwnBound[s] THEN "unown" ELSE "server"
  OBVIOUS
<1>2. /\ r \in TaskRec /\ TaskAt(t, r) /\ UserOf(t, r) /\ w \in Nat /\ s \in Shares
      /\ r.pc = "take" /\ own \in [Shares -> Nat] /\ held \in Nat
      /\ task \in [Tasks -> TaskRec]
  BY <1>1, ThreadAt DEF TakeOwn
<1>3. PICK k : k = [r EXCEPT !.mine = mine, !.pc = pc]
  OBVIOUS
<1>4. /\ own' = [own EXCEPT ![s] = mine] /\ task' = [task EXCEPT ![t] = k]
      /\ UNCHANGED <<held, shares, on, queue>>
  BY <1>1, <1>2, <1>3 DEF TakeOwn
<1>5. mine \in Nat /\ pc \in {"unown", "server"} /\ OwnBound[s] \in Nat
  BY <1>1, <1>2, BudgetAssumption
<1>6. /\ k \in TaskRec /\ k.pc = pc /\ k.share = s /\ k.w = w /\ k.then = r.then
  BY <1>1, <1>2, <1>3, <1>5 DEF TaskRec, TaskPcs
<1>7. TaskAt(t, k) /\ UserOf(t, k)
  BY <1>1, <1>2, <1>5, <1>6, SameKind DEF Taking
<1>8. ShareInv'
  <2>1. /\ k.pc \notin Dropping /\ r.pc \notin Dropping /\ k.pc \notin Giving /\ r.pc # "idle"
    BY <1>2, <1>5, <1>6 DEF Dropping, Giving
  <2> QED BY <1>1, <1>4, <1>6, <2>1, Continues DEF Buffered
<1>9. /\ ServerPart(r) = 0 /\ ServerPart(k) = 0
      /\ \A x \in Shares : /\ OwnPart(r, x) = 0 /\ OwnPart(k, x) = IF x = s THEN w ELSE 0
                           /\ KeptPart(r, x) = 0
                           /\ x # s \/ pc = "unown" => KeptPart(k, x) = 0
  BY <1>2, <1>5, <1>6 DEF ServerPart, OwnPart, KeptPart, InServer, InOwn, Granted
<1>10. held' \in Int /\ held' = held + (ServerPart(k) - ServerPart(r))
  BY <1>2, <1>4, <1>9
<1>11. own' \in [Shares -> Int]
  BY <1>2, <1>4, <1>5
<1>12. ASSUME NEW x \in Shares
       PROVE  /\ own'[x] = own[x] + (OwnPart(k, x) - OwnPart(r, x))
              /\ KeptPart(k, x) <= KeptPart(r, x) \/ own'[x] <= OwnBound[x]
  <2>1. CASE x = s
    <3>1. own'[x] = own[x] + w /\ own'[x] = mine
      BY <1>1, <1>2, <1>4, <2>1
    <3>2. own'[x] <= OwnBound[x] \/ pc = "unown"
      BY <1>1, <1>5, <2>1, <3>1
    <3> QED BY <1>2, <1>9, <2>1, <3>1, <3>2
  <2>2. CASE x # s
    <3>1. own'[x] = own[x] /\ own[x] \in Nat
      BY <1>2, <1>4, <2>2
    <3> QED BY <1>9, <2>2, <3>1
  <2> QED BY <2>1, <2>2
<1> QED BY <1>1, <1>4, <1>6, <1>7, <1>8, <1>10, <1>11, <1>12, SharesSame, BacklogSame, CounterStep

\* The other steps of a take and of a give.
LEMMA SameStep ==
  ASSUME BudgetInv, NEW t \in Tasks, NEW k \in TaskRec, NEW r, r = task[t],
         task' = [task EXCEPT ![t] = k],
         k.share = r.share, k.w = r.w, k.then = r.then,
         \/ r.pc \in Taking \ {"over"} /\ k.pc \in Taking
         \/ r.pc \in Giving /\ k.pc \in Giving,
         UNCHANGED <<queue, shares, on, backlog, conn, sess>>,
         held' = held + (ServerPart(k) - ServerPart(r)),
         own' = [own EXCEPT ![r.share] = own[r.share] + (OwnPart(k, r.share) - OwnPart(r, r.share))],
         k.pc \in Granted => r.pc \in Granted
  PROVE  BudgetInv'
<1>1. /\ r \in TaskRec /\ TaskAt(t, r) /\ UserOf(t, r) /\ r.w \in Nat
      /\ own \in [Shares -> Nat] /\ held \in Nat
  BY ThreadAt
<1>2. r.pc # "idle" /\ k.pc # "idle" /\ r.pc \notin Dropping /\ k.pc \notin Dropping
  BY DEF Taking, Giving, Dropping
<1>3. r.share \in Shares
  BY <1>2, ThreadAt
<1>4. TaskAt(t, k) /\ UserOf(t, k)
  BY <1>1, SameKind
<1>5. ShareInv'
  <2>1. k.pc \in Giving => r.pc \in Giving \/ t \notin Conns
    BY <1>1, MoreConstants DEF UserOf, Taking, Giving, Dropping
  <2> QED BY <1>2, <2>1, Continues DEF Buffered
<1>6. ServerPart(r) \in Nat /\ ServerPart(k) \in Nat
  BY <1>1, PartsTyped
<1>7. held' \in Int
  BY <1>1, <1>6
<1>8. ASSUME NEW x \in Shares
      PROVE  OwnPart(k, x) \in Nat /\ OwnPart(r, x) \in Nat /\ KeptPart(k, x) <= KeptPart(r, x)
  <2>1. OwnPart(k, x) \in Nat /\ OwnPart(r, x) \in Nat
    BY <1>1, PartsTyped
  <2> QED BY <1>1, <2>1 DEF KeptPart
<1>9. own' \in [Shares -> Int]
  BY <1>1, <1>3, <1>8
<1>10. ASSUME NEW x \in Shares PROVE own'[x] = own[x] + (OwnPart(k, x) - OwnPart(r, x))
  <2>1. CASE x = r.share
    BY <1>1, <2>1
  <2>2. CASE x # r.share
    <3>1. OwnPart(k, x) = 0 /\ OwnPart(r, x) = 0
      BY <2>2 DEF OwnPart
    <3>2. own'[x] = own[x] /\ own[x] \in Nat
      BY <1>1, <2>2
    <3> QED BY <3>1, <3>2
  <2> QED BY <2>1, <2>2
<1> QED BY <1>4, <1>5, <1>7, <1>8, <1>9, <1>10, SharesSame, BacklogSame, CounterStep

LEMMA OwnSame ==
  ASSUME own \in [Shares -> Nat], NEW s \in Shares
  PROVE  own = [own EXCEPT ![s] = own[s] + (0 - 0)]
         /\ \A w \in Nat : own = [own EXCEPT ![s] = own[s] + (w - w)]
<1>1. ASSUME NEW w \in Nat PROVE own[s] + (w - w) = own[s]
  BY <1>1
<1>2. own[s] + (0 - 0) = own[s]
  OBVIOUS
<1>3. own = [own EXCEPT ![s] = own[s]]
  OBVIOUS
<1> QED BY <1>1, <1>2, <1>3

LEMMA TakeServerStep ==
  ASSUME BudgetInv, NEW t \in Tasks, TakeServer(t), UNCHANGED <<conn, sess, backlog>>
  PROVE  BudgetInv'
<1>1. PICK r, s, w, all, pc :
        /\ r = task[t] /\ s = r.share /\ w = r.w /\ all = held + w
        /\ pc = IF all > Budget THEN "judge" ELSE "got"
  OBVIOUS
<1>2. /\ r \in TaskRec /\ w \in Nat /\ s \in Shares /\ r.pc = "server"
      /\ own \in [Shares -> Nat] /\ held \in Nat /\ task \in [Tasks -> TaskRec]
  BY <1>1, ThreadAt DEF TakeServer
<1>3. PICK k : k = [r EXCEPT !.all = all, !.pc = pc]
  OBVIOUS
<1>4. /\ held' = all /\ task' = [task EXCEPT ![t] = k] /\ own' = own
      /\ UNCHANGED <<shares, on, queue>>
  BY <1>1, <1>2, <1>3 DEF TakeServer
<1>5. all \in Nat /\ pc \in {"judge", "got"}
  BY <1>1, <1>2
<1>6. /\ k \in TaskRec /\ k.pc = pc /\ k.share = s /\ k.w = w /\ k.then = r.then
  BY <1>1, <1>2, <1>3, <1>5 DEF TaskRec, TaskPcs
<1>7. /\ ServerPart(r) = 0 /\ ServerPart(k) = w /\ OwnPart(r, s) = w /\ OwnPart(k, s) = w
  BY <1>1, <1>2, <1>5, <1>6 DEF ServerPart, OwnPart, InServer, InOwn
<1>8. held' = held + (ServerPart(k) - ServerPart(r))
  BY <1>1, <1>2, <1>4, <1>7
<1>9. own' = [own EXCEPT ![s] = own[s] + (OwnPart(k, s) - OwnPart(r, s))]
  BY <1>2, <1>4, <1>7, OwnSame
<1>10. r.pc \in Taking \ {"over"} /\ k.pc \in Taking /\ r.pc \in Granted
  BY <1>2, <1>5, <1>6 DEF Taking, Granted
<1> QED BY <1>1, <1>4, <1>6, <1>8, <1>9, <1>10, SameStep

\* The steps that change a thread's place and perhaps one counter.
LEMMA GotoFacts ==
  ASSUME BudgetInv, NEW t \in Tasks, NEW pc \in TaskPcs, Goto(t, pc), task[t].pc # "idle"
  PROVE  \E r, k : /\ r = task[t] /\ r \in TaskRec /\ r.w \in Nat /\ r.share \in Shares
                   /\ k \in TaskRec /\ k.pc = pc /\ k.share = r.share /\ k.w = r.w
                   /\ k.then = r.then /\ task' = [task EXCEPT ![t] = k]
<1>1. PICK r, k : r = task[t] /\ k = [r EXCEPT !.pc = pc]
  OBVIOUS
<1>2. r \in TaskRec /\ r.w \in Nat /\ r.share \in Shares /\ task \in [Tasks -> TaskRec]
  BY <1>1, ThreadAt
<1>3. task' = [task EXCEPT ![t] = k]
  BY <1>1 DEF Goto
<1>4. /\ k \in TaskRec /\ k.pc = pc /\ k.share = r.share /\ k.w = r.w
      /\ k.then = r.then
  BY <1>1, <1>2, PcChanged
<1> QED BY <1>1, <1>2, <1>3, <1>4

LEMMA JudgeStep ==
  ASSUME BudgetInv, NEW t \in Tasks, Judge(t), UNCHANGED <<conn, sess, backlog>>
  PROVE  BudgetInv'
<1>1. PICK pc \in {"unserver", "got"} : Goto(t, pc)
  BY DEF Judge
<1>2. pc \in TaskPcs /\ task[t].pc = "judge" /\ UNCHANGED <<held, shares, own, on, queue>>
  BY DEF Judge, TaskPcs
<1>3. PICK r, k : /\ r = task[t] /\ r \in TaskRec /\ r.w \in Nat /\ r.share \in Shares
                  /\ k \in TaskRec /\ k.pc = pc /\ k.share = r.share /\ k.w = r.w
                  /\ k.then = r.then /\ task' = [task EXCEPT ![t] = k]
  BY <1>1, <1>2, GotoFacts
<1>4. /\ ServerPart(r) = r.w /\ ServerPart(k) = r.w
      /\ OwnPart(r, r.share) = r.w /\ OwnPart(k, r.share) = r.w
  BY <1>1, <1>2, <1>3 DEF ServerPart, OwnPart, InServer, InOwn
<1>5. own \in [Shares -> Nat] /\ held \in Nat
  BY ThreadAt
<1>6. held' = held + (ServerPart(k) - ServerPart(r))
  BY <1>2, <1>3, <1>4, <1>5
<1>7. own' = [own EXCEPT ![r.share] = own[r.share] + (OwnPart(k, r.share) - OwnPart(r, r.share))]
  BY <1>2, <1>3, <1>4, <1>5, OwnSame
<1>8. r.pc \in Taking \ {"over"} /\ k.pc \in Taking /\ r.pc \in Granted
  BY <1>1, <1>2, <1>3 DEF Taking, Granted
<1> QED BY <1>2, <1>3, <1>6, <1>7, <1>8, SameStep

LEMMA UnServerStep ==
  ASSUME BudgetInv, NEW t \in Tasks, UnServer(t), UNCHANGED <<conn, sess, backlog>>
  PROVE  BudgetInv'
<1>1. /\ Goto(t, "unown") /\ "unown" \in TaskPcs /\ task[t].pc = "unserver"
      /\ held' = held - task[t].w /\ UNCHANGED <<shares, own, on, queue>>
  BY DEF UnServer, TaskPcs
<1>3. PICK r, k : /\ r = task[t] /\ r \in TaskRec /\ r.w \in Nat /\ r.share \in Shares
                  /\ k \in TaskRec /\ k.pc = "unown" /\ k.share = r.share /\ k.w = r.w
                  /\ k.then = r.then /\ task' = [task EXCEPT ![t] = k]
  BY <1>1, GotoFacts
<1>4. /\ ServerPart(r) = r.w /\ ServerPart(k) = 0
      /\ OwnPart(r, r.share) = r.w /\ OwnPart(k, r.share) = r.w
  BY <1>1, <1>3 DEF ServerPart, OwnPart, InServer, InOwn
<1>5. own \in [Shares -> Nat] /\ held \in Nat
  BY ThreadAt
<1>6. held' = held + (ServerPart(k) - ServerPart(r))
  BY <1>1, <1>3, <1>4, <1>5
<1>7. own' = [own EXCEPT ![r.share] = own[r.share] + (OwnPart(k, r.share) - OwnPart(r, r.share))]
  BY <1>1, <1>3, <1>4, <1>5, OwnSame
<1>8. r.pc \in Taking \ {"over"} /\ k.pc \in Taking /\ k.pc \notin Granted
  BY <1>1, <1>3 DEF Taking, Granted
<1> QED BY <1>1, <1>3, <1>6, <1>7, <1>8, SameStep

\* UnOwn and GiveOwn give the share's counter back what it had.
LEMMA OwnBackStep ==
  ASSUME BudgetInv, NEW t \in Tasks, UnOwn(t) \/ GiveOwn(t), UNCHANGED <<conn, sess, backlog>>
  PROVE  BudgetInv'
<1>1. PICK pc \in {"over", "given"} :
        /\ Goto(t, pc) /\ task[t].pc = IF pc = "over" THEN "unown" ELSE "give"
        /\ own' = [own EXCEPT ![task[t].share] = own[task[t].share] - task[t].w]
        /\ UNCHANGED <<held, shares, on, queue>>
  BY DEF UnOwn, GiveOwn
<1>2. pc \in TaskPcs /\ task[t].pc # "idle"
  BY <1>1 DEF TaskPcs
<1>3. PICK r, k : /\ r = task[t] /\ r \in TaskRec /\ r.w \in Nat /\ r.share \in Shares
                  /\ k \in TaskRec /\ k.pc = pc /\ k.share = r.share /\ k.w = r.w
                  /\ k.then = r.then /\ task' = [task EXCEPT ![t] = k]
  BY <1>1, <1>2, GotoFacts
<1>4. /\ ServerPart(r) = ServerPart(k) /\ ServerPart(k) \in Nat
      /\ OwnPart(r, r.share) = r.w /\ OwnPart(k, r.share) = 0
  BY <1>1, <1>3 DEF ServerPart, OwnPart, InServer, InOwn
<1>5. own \in [Shares -> Nat] /\ held \in Nat
  BY ThreadAt
<1>6. held' = held + (ServerPart(k) - ServerPart(r))
  BY <1>1, <1>4, <1>5
<1>7. own' = [own EXCEPT ![r.share] = own[r.share] + (OwnPart(k, r.share) - OwnPart(r, r.share))]
  <2>1. own[r.share] - r.w = own[r.share] + (OwnPart(k, r.share) - OwnPart(r, r.share))
    BY <1>3, <1>4, <1>5
  <2> QED BY <1>1, <1>3, <2>1
<1>8. /\ \/ r.pc \in Taking \ {"over"} /\ k.pc \in Taking
         \/ r.pc \in Giving /\ k.pc \in Giving
      /\ k.pc \notin Granted
  BY <1>1, <1>3 DEF Taking, Giving, Granted
<1> QED BY <1>1, <1>3, <1>6, <1>7, <1>8, SameStep

LEMMA IdleFacts ==
  /\ Idle \in TaskRec /\ Idle.pc = "idle" /\ Idle.w = 0 /\ Idle.then = "idle"
  /\ Idle.share = NoShare
  /\ \A t : TaskAt(t, Idle) /\ UserOf(t, Idle)
  /\ ServerPart(Idle) = 0 /\ \A s : OwnPart(Idle, s) = 0 /\ KeptPart(Idle, s) = 0
<1>1. /\ Idle \in TaskRec /\ Idle.pc = "idle" /\ Idle.w = 0 /\ Idle.then = "idle"
      /\ Idle.share = NoShare
  BY DEF Idle, TaskRec, TaskPcs
<1>2. \A t : TaskAt(t, Idle) /\ UserOf(t, Idle)
  BY <1>1 DEF TaskAt, UserOf, Taking
<1>3. ServerPart(Idle) = 0 /\ \A s : OwnPart(Idle, s) = 0 /\ KeptPart(Idle, s) = 0
  BY <1>1 DEF ServerPart, OwnPart, KeptPart
<1> QED BY <1>1, <1>2, <1>3

\* What a thread leaves a give or a drop for.
LEMMA LeaveFacts ==
  ASSUME BudgetInv, NEW t \in Tasks, Leave(t), task[t].pc \in Giving \cup Dropping
  PROVE  \E k : /\ k \in TaskRec /\ TaskAt(t, k) /\ task' = [task EXCEPT ![t] = k]
                /\ \/ k = Idle
                   \/ k.pc = "over" /\ t = Hub /\ k.share = task[t].share
<1>1. PICK r : r = task[t]
  OBVIOUS
<1>2. /\ r \in TaskRec /\ TaskAt(t, r) /\ task \in [Tasks -> TaskRec] /\ r.share \in Shares
  BY <1>1, ThreadAt DEF Giving, Dropping
<1>3. CASE r.then = "idle"
  <2>1. task' = [task EXCEPT ![t] = Idle]
    BY <1>1, <1>3 DEF Leave
  <2> QED BY <2>1, IdleFacts
<1>4. CASE r.then # "idle"
  <2>1. PICK k : k = [r EXCEPT !.pc = r.then, !.then = "idle"]
    OBVIOUS
  <2>2. task' = [task EXCEPT ![t] = k]
    BY <1>1, <1>2, <1>4, <2>1 DEF Leave
  <2>3. r.then = "over" /\ t = Hub
    BY <1>2, <1>4 DEF TaskRec, TaskAt
  <2>4. k \in TaskRec /\ k.pc = "over" /\ k.share = r.share /\ k.then = "idle"
    BY <1>2, <2>1, <2>3 DEF TaskRec, TaskPcs
  <2>5. TaskAt(t, k)
    BY <1>2, <2>4 DEF TaskAt
  <2> QED BY <1>1, <2>2, <2>3, <2>4, <2>5
<1> QED BY <1>3, <1>4

LEMMA GiveServerStep ==
  ASSUME BudgetInv, NEW t \in Tasks, GiveServer(t), UNCHANGED <<conn, sess, backlog>>
  PROVE  BudgetInv'
<1>1. /\ task[t].pc = "given" /\ held' = held - task[t].w /\ Leave(t)
      /\ UNCHANGED <<shares, own, on, queue>>
  BY DEF GiveServer
<1>2. PICK r : r = task[t]
  OBVIOUS
<1>3. /\ r \in TaskRec /\ UserOf(t, r) /\ r.w \in Nat /\ own \in [Shares -> Nat] /\ held \in Nat
  BY <1>2, ThreadAt
<1>4. PICK k : /\ k \in TaskRec /\ TaskAt(t, k) /\ task' = [task EXCEPT ![t] = k]
               /\ \/ k = Idle
                  \/ k.pc = "over" /\ t = Hub /\ k.share = r.share
  BY <1>1, <1>2, LeaveFacts DEF Giving
<1>5. UserOf(t, k)
  <2>1. CASE k = Idle
    BY <2>1, IdleFacts
  <2>2. CASE k.pc = "over" /\ t = Hub /\ k.share = r.share
    BY <1>1, <1>2, <1>3, <2>2, MoreConstants DEF UserOf, Taking
  <2> QED BY <1>4, <2>1, <2>2
<1>6. k.pc \in {"idle", "over"}
  BY <1>4, IdleFacts
<1>7. ShareInv'
  <2>1. /\ k.pc = "idle" \/ k.share = r.share
        /\ k.pc \notin Dropping /\ r.pc \notin Dropping /\ k.pc \notin Giving /\ r.pc # "idle"
    BY <1>1, <1>2, <1>4, <1>6, IdleFacts DEF Dropping, Giving
  <2> QED BY <1>1, <1>2, <1>4, <2>1, Continues DEF Buffered
<1>8. /\ ServerPart(k) = 0 /\ ServerPart(r) = r.w
      /\ \A s \in Shares : /\ OwnPart(k, s) = 0 /\ OwnPart(r, s) = 0
                           /\ KeptPart(k, s) = 0 /\ KeptPart(r, s) = 0
  BY <1>1, <1>2, <1>6 DEF ServerPart, OwnPart, KeptPart, InServer, InOwn, Granted
<1>9. held' \in Int /\ held' = held + (ServerPart(k) - ServerPart(r))
  BY <1>1, <1>2, <1>3, <1>8
<1>10. own' \in [Shares -> Int] /\ \A s \in Shares : own'[s] = own[s] + (OwnPart(k, s) - OwnPart(r, s))
  BY <1>1, <1>3, <1>8
<1>11. \A s \in Shares : KeptPart(k, s) <= KeptPart(r, s)
  BY <1>8
<1> QED BY <1>1, <1>2, <1>4, <1>5, <1>7, <1>9, <1>10, <1>11, SharesSame, BacklogSame, CounterStep

\* A share that no thread is taking from or giving to holds its queue.
LEMMA Alone ==
  ASSUME BudgetInv, NEW s \in Shares, \A u \in Tasks : OwnPart(task[u], s) = 0
  PROVE  own[s] = Total(queue[s])
<1>1. PICK n : n = OnShare(s)
  OBVIOUS
<1>2. \A u \in DOMAIN n : n[u] = 0
  BY <1>1 DEF OnShare, OwnPart
<1>3. Total(n) = 0
  BY <1>2, TotalZero
<1>4. own[s] = Total(queue[s]) + Total(n) /\ queue[s] \in Seq(Nat)
  BY <1>1, WeightsNat DEF BudgetInv, CountInv, QueueTyped
<1> QED BY <1>3, <1>4, SeqFinite

\* Whoever drops a share is alone with it.
LEMMA DropAlone ==
  ASSUME BudgetInv, NEW t \in Tasks, task[t].pc \in Dropping
  PROVE  \A u \in Tasks : u # t => task[u].pc = "idle" \/ task[u].share # task[t].share
<1> SUFFICES ASSUME NEW u \in Tasks, u # t, task[u].pc # "idle", task[u].share = task[t].share
             PROVE  FALSE
  OBVIOUS
<1>1. UserOf(t, task[t]) /\ UserOf(u, task[u]) /\ task[t].pc # "idle"
  BY DEF BudgetInv, TaskInv, Dropping
<1>2. task[t].pc \notin Taking /\ task[t].pc \notin Giving
  BY DEF Dropping, Taking, Giving
<1>3. CASE t = Hub /\ task[t].share \in Sessions
  BY <1>1, <1>3, MoreConstants DEF UserOf
<1>4. CASE t \in Conns /\ task[t].share = t
  <2>1. conn[t].pc = "drop"
    BY <1>4 DEF BudgetInv, ShareInv, ConnShare
  <2>2. u = Hub
    BY <1>1, <1>4, MoreConstants DEF UserOf
  <2>3. conn[t].pc = "up"
    BY <1>4, <2>2 DEF BudgetInv, ShareInv, ConnShare
  <2> QED BY <2>1, <2>3
<1>5. CASE t \in Writers /\ task[t].share = Backlog
  <2>1. u \in Enqueuers
    BY <1>1, <1>5, MoreConstants DEF UserOf
  <2> QED BY <1>5, <2>1 DEF BudgetInv, ShareInv, BacklogShare
<1> QED BY <1>1, <1>2, <1>3, <1>4, <1>5 DEF UserOf

LEMMA DropHeldStep ==
  ASSUME BudgetInv, NEW t \in Tasks, DropHeld(t), UNCHANGED <<conn, sess, backlog>>
  PROVE  BudgetInv'
<1>1. PICK s : s = task[t].share
  OBVIOUS
<1>2. /\ task[t].pc = "drop" /\ held' = held - own[s] /\ own' = [own EXCEPT ![s] = 0]
      /\ queue' = [queue EXCEPT ![s] = <<>>] /\ Goto(t, "uncount") /\ "uncount" \in TaskPcs
      /\ UNCHANGED <<shares, on>>
  BY <1>1 DEF DropHeld, TaskPcs
<1>3. PICK r, k : /\ r = task[t] /\ r \in TaskRec /\ r.w \in Nat /\ r.share \in Shares
                  /\ k \in TaskRec /\ k.pc = "uncount" /\ k.share = r.share /\ k.w = r.w
                  /\ k.then = r.then /\ task' = [task EXCEPT ![t] = k]
  BY <1>2, GotoFacts
<1>4. /\ own \in [Shares -> Nat] /\ held \in Nat /\ queue \in [Shares -> Seq(Weights)]
      /\ TaskAt(t, r) /\ UserOf(t, r) /\ s \in Shares
      /\ backlog \in [lagging : BOOLEAN, closed : BOOLEAN]
  BY <1>1, <1>3, ThreadAt DEF BudgetInv, QueueTyped
<1>5. /\ r.pc \in Dropping /\ k.pc \in Dropping /\ r.pc # "idle" /\ k.pc \notin Giving
  BY <1>2, <1>3 DEF Dropping, Giving
<1>6. TaskAt(t, k) /\ UserOf(t, k)
  BY <1>3, <1>4, <1>5, SameKind
<1>7. ShareInv'
  BY <1>2, <1>3, <1>5, Continues DEF Buffered
<1>8. /\ ServerPart(k) = 0 /\ ServerPart(r) = 0
      /\ \A x \in Shares : /\ OwnPart(k, x) = 0 /\ OwnPart(r, x) = 0
                           /\ KeptPart(k, x) = 0 /\ KeptPart(r, x) = 0
  BY <1>2, <1>3 DEF ServerPart, OwnPart, KeptPart, InServer, InOwn, Granted
<1>9. own[s] = Total(queue[s])
  <2>1. ASSUME NEW u \in Tasks PROVE OwnPart(task[u], s) = 0
    <3>1. CASE u = t
      BY <1>3, <1>4, <1>8, <3>1
    <3>2. CASE u # t
      <4>1. task[u].pc = "idle" \/ task[u].share # s
        BY <1>1, <1>3, <1>5, <3>2, DropAlone
      <4> QED BY <4>1 DEF OwnPart, InOwn
    <3> QED BY <3>1, <3>2
  <2> QED BY <1>4, <2>1, Alone
<1>10. /\ queue' \in [Shares -> Seq(Weights)] /\ queue'[s] = <<>>
       /\ \A x \in Shares : x # s => queue'[x] = queue[x]
  BY <1>2, <1>4
<1>11. /\ Total(queue[s]) \in Nat /\ Total(queue'[s]) = 0
  BY <1>4, <1>9, <1>10, TotalEmpty
<1>12. /\ held' \in Int
       /\ held' = held + (Total(queue'[s]) - Total(queue[s])) + (ServerPart(k) - ServerPart(r))
  BY <1>2, <1>4, <1>8, <1>9, <1>11
<1>13. own' \in [Shares -> Int]
  BY <1>2, <1>4
<1>14. ASSUME NEW x \in Shares
       PROVE  /\ own'[x] = own[x] + (Total(queue'[x]) - Total(queue[x]))
                                 + (OwnPart(k, x) - OwnPart(r, x))
              /\ Total(queue'[x]) + KeptPart(k, x) <= Total(queue[x]) + KeptPart(r, x)
  <2>1. CASE x = s
    <3>1. own'[x] = 0
      BY <1>2, <1>4, <2>1
    <3> QED BY <1>8, <1>9, <1>11, <2>1, <3>1
  <2>2. CASE x # s
    <3>1. own'[x] = own[x] /\ own[x] \in Nat /\ Total(queue'[x]) = Total(queue[x])
      BY <1>2, <1>4, <1>10, <2>2
    <3>2. Total(queue[x]) \in Nat
      BY <1>4, WeightsNat, SeqFinite
    <3> QED BY <1>8, <3>1, <3>2
  <2> QED BY <2>1, <2>2
<1>15. SharesOK
  BY <1>2, SharesSame
<1>16. /\ held' = held + (Total(queue'[s]) - Total(queue[s]))
                       + (ServerPart(k) - ServerPart(task[t]))
       /\ \A x \in Shares : own'[x] = own[x] + (Total(queue'[x]) - Total(queue[x]))
                                            + (OwnPart(k, x) - OwnPart(task[t], x))
       /\ \A x \in Shares :
            \/ Total(queue'[x]) + KeptPart(k, x) <= Total(queue[x]) + KeptPart(task[t], x)
            \/ own'[x] <= OwnBound[x]
  BY <1>3, <1>12, <1>14
<1>17. /\ k \in TaskRec /\ task' = [task EXCEPT ![t] = k] /\ held' \in Int /\ s \in Shares
       /\ backlog' \in [lagging : BOOLEAN, closed : BOOLEAN]
  BY <1>3, <1>4, <1>12
<1> QED BY ONLY BudgetInv, t \in Tasks, <1>6, <1>7, <1>10, <1>13, <1>15, <1>16, <1>17, ThreadStep

LEMMA DropCountStep ==
  ASSUME BudgetInv, NEW t \in Tasks, DropCount(t), UNCHANGED <<conn, sess, backlog>>
  PROVE  BudgetInv'
<1>1. PICK r, s : r = task[t] /\ s = r.share
  OBVIOUS
<1>2. /\ r.pc = "uncount" /\ shares' = shares - 1 /\ on' = on \ {s} /\ Leave(t)
      /\ UNCHANGED <<held, own, queue>>
  BY <1>1 DEF DropCount
<1>3. /\ r \in TaskRec /\ UserOf(t, r) /\ own \in [Shares -> Nat] /\ held \in Nat
      /\ s \in Shares /\ r.pc \in Dropping /\ r.pc # "idle" /\ task \in [Tasks -> TaskRec]
  BY <1>1, <1>2, ThreadAt DEF Dropping
<1>4. PICK k : /\ k \in TaskRec /\ TaskAt(t, k) /\ task' = [task EXCEPT ![t] = k]
               /\ \/ k = Idle
                  \/ k.pc = "over" /\ t = Hub /\ k.share = s
  <2>1. Leave(t) /\ task[t].pc \in Giving \cup Dropping
    BY <1>1, <1>2, <1>3
  <2>2. PICK k : /\ k \in TaskRec /\ TaskAt(t, k) /\ task' = [task EXCEPT ![t] = k]
                 /\ \/ k = Idle
                    \/ k.pc = "over" /\ t = Hub /\ k.share = task[t].share
    BY <2>1, LeaveFacts
  <2> QED BY <1>1, <2>2
<1>5. k.pc \in {"idle", "over"} /\ k.pc \notin Dropping /\ k.pc \notin Giving
  BY <1>4, IdleFacts DEF Dropping, Giving
<1>6. r.pc \notin Taking \cup Giving
  BY <1>2 DEF Taking, Giving
<1>7. \/ t = Hub /\ s \in Sessions
      \/ t \in Conns /\ s = t
      \/ t \in Writers /\ s = Backlog
  BY <1>1, <1>3, <1>6 DEF UserOf
<1>8. UserOf(t, k)
  <2>1. CASE k = Idle
    BY <2>1, IdleFacts
  <2>2. CASE k.pc = "over" /\ t = Hub /\ k.share = s
    BY <1>7, <2>2, MoreConstants DEF UserOf
  <2> QED BY <1>4, <2>1, <2>2
<1>9. /\ task'[t] = k /\ \A u \in Tasks : u # t => task'[u] = task[u]
  BY <1>3, <1>4
<1>10. s \in on
  BY <1>1, <1>3, <1>7 DEF BudgetInv, ShareInv, ConnShare, SessShare, BacklogShare
<1>11. Hub \in Tasks /\ Conns \subseteq Tasks /\ Writers \subseteq Tasks /\ Enqueuers \subseteq Tasks
  BY MoreConstants
<1>12. ASSUME NEW c \in Conns PROVE ConnShare(c)'
  <2>1. ConnShare(c)
    BY DEF BudgetInv, ShareInv
  <2>2. CASE c = t
    <3>1. s = c /\ c # Hub
      BY <1>7, <2>2, MoreConstants
    <3>2. task'[Hub] = task[Hub] /\ task'[c] = k /\ c \notin on'
      BY <1>2, <1>9, <1>11, <2>2, <3>1
    <3> QED BY <1>5, <2>1, <3>2 DEF ConnShare
  <2>3. CASE c # t
    <3>1. task'[c] = task[c] /\ (c \in on' => c \in on) /\ (c # s => (c \in on' <=> c \in on))
      BY <1>2, <1>9, <1>11, <2>3
    <3>2. c # s
      BY <1>7, <2>3, MoreConstants
    <3>3. task'[Hub].pc # "idle" /\ task'[Hub].share = c
            => task[Hub].pc # "idle" /\ task[Hub].share = c
      BY <1>4, <1>9, <1>11, <3>2, IdleFacts
    <3> QED BY <2>1, <3>1, <3>2, <3>3 DEF ConnShare
  <2> QED BY <2>2, <2>3
<1>13. ASSUME NEW x \in Sessions PROVE SessShare(x)'
  <2>1. SessShare(x)
    BY DEF BudgetInv, ShareInv
  <2>2. CASE x = s
    <3>1. t = Hub
      BY <1>7, <2>2, MoreConstants
    <3>2. task[Hub].share = x /\ task[Hub].pc \in Dropping
      BY <1>1, <1>3, <2>2, <3>1
    <3>3. x \notin on' /\ task'[Hub].pc \notin Dropping
      BY <1>2, <1>5, <1>9, <2>2, <3>1
    <3> QED BY <2>1, <3>2, <3>3 DEF SessShare
  <2>3. CASE x # s
    <3>1. x \in on' <=> x \in on
      BY <1>2, <2>3
    <3>2. task'[Hub].share = x /\ task'[Hub].pc \in Dropping
            <=> task[Hub].share = x /\ task[Hub].pc \in Dropping
      BY <1>1, <1>5, <1>9, <1>11, <2>3
    <3> QED BY <2>1, <3>1, <3>2 DEF SessShare
  <2> QED BY <2>2, <2>3
<1>14. BacklogShare'
  <2>1. BacklogShare
    BY DEF BudgetInv, ShareInv
  <2> SUFFICES ASSUME NEW u \in Writers, task'[u].pc \in Dropping
               PROVE  Backlog \in on' /\ \A e \in Enqueuers : task'[e].pc = "idle"
    BY DEF BacklogShare
  <2>2. u # t
    BY <1>5, <1>9
  <2>3. task'[u] = task[u] /\ u \in Tasks
    BY <1>9, <1>11, <2>2
  <2>4. s # Backlog
    BY <1>7, <2>2, MoreConstants
  <2>5. \A e \in Enqueuers : e # t
    BY <1>7, MoreConstants
  <2> QED BY <1>2, <1>9, <1>11, <2>1, <2>3, <2>4, <2>5 DEF BacklogShare
<1>15. ShareInv'
  BY <1>12, <1>13, <1>14 DEF ShareInv
<1>16. SharesOK
  <2>1. on \subseteq Shares /\ IsFiniteSet(on) /\ shares = Cardinality(on)
    BY DEF BudgetInv, QueueTyped, CardInv
  <2> QED BY <1>2, <1>10, <2>1, FS_RemoveElement DEF SharesOK
<1>17. /\ ServerPart(k) = 0 /\ ServerPart(r) = 0
       /\ \A x \in Shares : /\ OwnPart(k, x) = 0 /\ OwnPart(r, x) = 0
                            /\ KeptPart(k, x) = 0 /\ KeptPart(r, x) = 0
  BY <1>2, <1>5 DEF ServerPart, OwnPart, KeptPart, InServer, InOwn, Granted
<1>18. held' \in Int /\ held' = held + (ServerPart(k) - ServerPart(r))
  BY <1>2, <1>3, <1>17
<1>19. own' \in [Shares -> Int] /\ \A x \in Shares : own'[x] = own[x] + (OwnPart(k, x) - OwnPart(r, x))
  BY <1>2, <1>3, <1>17
<1>20. \A x \in Shares : KeptPart(k, x) <= KeptPart(r, x)
  BY <1>17
<1> QED BY <1>1, <1>2, <1>4, <1>8, <1>15, <1>16, <1>18, <1>19, <1>20, BacklogSame,
           CounterStep

LEMMA BudgetStepKeeps ==
  ASSUME BudgetInv, BudgetSteps PROVE BudgetInv'
<1>1. PICK t \in Tasks : BudgetStep(t)
  BY DEF BudgetSteps
<1>2. UNCHANGED <<conn, sess, backlog>>
  BY DEF BudgetSteps
<1> QED BY <1>1, <1>2, TakeOwnStep, TakeServerStep, JudgeStep, UnServerStep, OwnBackStep,
           GiveServerStep, DropHeldStep, DropCountStep DEF BudgetStep

-----------------------------------------------------------------------------
(* What the connections and the roster do with the queues. *)

\* What is in none of the counters.
Still == {"idle", "take", "over", "drop", "uncount"}

LEMMA StillParts ==
  ASSUME NEW k, k.pc \in Still
  PROVE  ServerPart(k) = 0 /\ \A s : OwnPart(k, s) = 0 /\ KeptPart(k, s) = 0
<1>1. ~InServer(k) /\ ~InOwn(k) /\ k.pc \notin Granted
  BY DEF Still, InServer, InOwn, Granted
<1> QED BY <1>1 DEF ServerPart, OwnPart, KeptPart

LEMMA BeginFacts ==
  ASSUME NEW t \in Tasks, NEW pc \in TaskPcs \ {"idle"}, NEW s \in Shares, NEW w \in Nat,
         NEW then \in {"idle", "over"}, Begin(t, pc, s, w, then),
         t # Hub => then = "idle", pc \in Taking \ {"over"} => w \in Weights
  PROVE  \E k : /\ k \in TaskRec /\ k.pc = pc /\ k.share = s /\ k.w = w /\ k.then = then
                /\ TaskAt(t, k) /\ task' = [task EXCEPT ![t] = k]
<1>1. PICK k : k = [pc |-> pc, share |-> s, w |-> w, mine |-> 0, all |-> 0, then |-> then]
  OBVIOUS
<1>2. task' = [task EXCEPT ![t] = k]
  BY <1>1 DEF Begin
<1>3. k \in TaskRec /\ k.pc = pc /\ k.share = s /\ k.w = w /\ k.then = then
  BY <1>1 DEF TaskRec
<1>4. TaskAt(t, k)
  BY <1>3 DEF TaskAt
<1> QED BY <1>2, <1>3, <1>4

\* No thread moves a byte.
LEMMA NoMove ==
  ASSUME BudgetInv, UNCHANGED <<held, own, queue, task>>, SharesOK, ShareInv',
         backlog' \in [lagging : BOOLEAN, closed : BOOLEAN]
  PROVE  BudgetInv'
<1>1. CountInv' /\ BoundInv' /\ TaskInv' /\ CardInv'
  BY DEF BudgetInv, CountInv, BoundInv, TaskInv, CardInv, SharesOK, Loads, OnServer, OnShare,
         Kept, TaskAt, UserOf, InServer, InOwn
<1>2. QueueTyped'
  BY FS_CardinalityType DEF BudgetInv, QueueTyped, SharesOK
<1> QED BY <1>1, <1>2 DEF BudgetInv

\* A thread starts or stops where it holds nothing.
LEMMA StillStep ==
  ASSUME BudgetInv, NEW t \in Tasks, NEW k \in TaskRec, task' = [task EXCEPT ![t] = k],
         TaskAt(t, k), UserOf(t, k), task[t].pc \in Still, k.pc \in Still,
         UNCHANGED <<held, own, queue>>, SharesOK, ShareInv',
         backlog' \in [lagging : BOOLEAN, closed : BOOLEAN]
  PROVE  BudgetInv'
<1>1. /\ ServerPart(k) = 0 /\ ServerPart(task[t]) = 0
      /\ \A s \in Shares : /\ OwnPart(k, s) = 0 /\ OwnPart(task[t], s) = 0
                           /\ KeptPart(k, s) = 0 /\ KeptPart(task[t], s) = 0
  BY StillParts
<1>2. own \in [Shares -> Nat] /\ held \in Nat
  BY ThreadAt
<1>3. held' \in Int /\ held' = held + (ServerPart(k) - ServerPart(task[t]))
  BY <1>1, <1>2
<1>4. /\ own' \in [Shares -> Int]
      /\ \A s \in Shares : own'[s] = own[s] + (OwnPart(k, s) - OwnPart(task[t], s))
  BY <1>1, <1>2
<1>5. \A s \in Shares : KeptPart(k, s) <= KeptPart(task[t], s)
  BY <1>1
<1> QED BY <1>3, <1>4, <1>5, CounterStep

\* Bytes pass between a thread and one queue.
LEMMA SwapStep ==
  ASSUME BudgetInv, NEW t \in Tasks, NEW k \in TaskRec, NEW r, r = task[t],
         NEW q \in Shares, NEW Q \in Seq(Weights),
         task' = [task EXCEPT ![t] = k], TaskAt(t, k), UserOf(t, k),
         r.pc = "idle" \/ r.share = q, k.pc = "idle" \/ k.share = q,
         queue' = [queue EXCEPT ![q] = Q], UNCHANGED <<held, own, shares, on>>, ShareInv',
         backlog' \in [lagging : BOOLEAN, closed : BOOLEAN],
         Total(Q) + ServerPart(k) = Total(queue[q]) + ServerPart(r),
         Total(Q) + OwnPart(k, q) = Total(queue[q]) + OwnPart(r, q),
         Total(Q) + KeptPart(k, q) <= Total(queue[q]) + KeptPart(r, q)
  PROVE  BudgetInv'
<1>1. /\ r \in TaskRec /\ own \in [Shares -> Nat] /\ held \in Nat
      /\ queue \in [Shares -> Seq(Weights)]
  BY ThreadAt
<1>2. /\ queue' \in [Shares -> Seq(Weights)] /\ queue'[q] = Q
      /\ \A s \in Shares : s # q => queue'[s] = queue[s]
  BY <1>1
<1>3. ASSUME NEW s \in Shares
      PROVE  /\ Total(queue[s]) \in Nat /\ Total(queue'[s]) \in Nat
             /\ OwnPart(k, s) \in Nat /\ OwnPart(r, s) \in Nat
             /\ KeptPart(k, s) \in Nat /\ KeptPart(r, s) \in Nat
             /\ own[s] \in Nat /\ own'[s] = own[s]
  <2>1. queue[s] \in Seq(Nat) /\ queue'[s] \in Seq(Nat)
    BY <1>1, <1>2, WeightsNat
  <2> QED BY <1>1, <2>1, SeqFinite, PartsTyped
<1>4. /\ held' \in Int
      /\ held' = held + (Total(queue'[q]) - Total(queue[q])) + (ServerPart(k) - ServerPart(r))
  <2>1. /\ ServerPart(k) \in Nat /\ ServerPart(r) \in Nat
        /\ Total(queue[q]) \in Nat /\ Total(queue'[q]) \in Nat
    BY <1>1, <1>3, PartsTyped
  <2>2. Total(queue'[q]) + ServerPart(k) = Total(queue[q]) + ServerPart(r)
    BY <1>2
  <2>3. held' = held /\ held \in Nat
    BY <1>1
  <2> QED BY ONLY <2>1, <2>2, <2>3
<1>5. ASSUME NEW s \in Shares
      PROVE  /\ own'[s] = own[s] + (Total(queue'[s]) - Total(queue[s]))
                                 + (OwnPart(k, s) - OwnPart(r, s))
             /\ Total(queue'[s]) + KeptPart(k, s) <= Total(queue[s]) + KeptPart(r, s)
  <2>1. /\ Total(queue'[s]) + OwnPart(k, s) = Total(queue[s]) + OwnPart(r, s)
        /\ Total(queue'[s]) + KeptPart(k, s) <= Total(queue[s]) + KeptPart(r, s)
    <3>1. CASE s = q
      BY <1>2, <3>1
    <3>2. CASE s # q
      <4>1. /\ OwnPart(k, s) = 0 /\ OwnPart(r, s) = 0 /\ KeptPart(k, s) = 0
            /\ KeptPart(r, s) = 0
        BY <3>2 DEF OwnPart, KeptPart, InOwn, Granted
      <4>2. Total(queue'[s]) = Total(queue[s]) /\ Total(queue[s]) \in Nat
        BY <1>2, <1>3, <3>2
      <4> QED BY ONLY <4>1, <4>2
    <3> QED BY <3>1, <3>2
  <2>2. /\ Total(queue[s]) \in Nat /\ Total(queue'[s]) \in Nat
        /\ OwnPart(k, s) \in Nat /\ OwnPart(r, s) \in Nat
        /\ own[s] \in Nat /\ own'[s] = own[s]
    BY <1>3
  <2> QED BY ONLY <2>1, <2>2
<1>6. SharesOK
  BY SharesSame
<1>7. own' \in [Shares -> Int]
  BY <1>1
<1>8. /\ held' = held + (Total(queue'[q]) - Total(queue[q]))
                      + (ServerPart(k) - ServerPart(task[t]))
      /\ \A s \in Shares : own'[s] = own[s] + (Total(queue'[s]) - Total(queue[s]))
                                           + (OwnPart(k, s) - OwnPart(task[t], s))
      /\ \A s \in Shares :
           \/ Total(queue'[s]) + KeptPart(k, s) <= Total(queue[s]) + KeptPart(task[t], s)
           \/ own'[s] <= OwnBound[s]
  BY <1>4, <1>5
<1>9. /\ task' = [task EXCEPT ![t] = k] /\ held' \in Int /\ TaskAt(t, k) /\ UserOf(t, k)
      /\ backlog' \in [lagging : BOOLEAN, closed : BOOLEAN] /\ ShareInv'
  BY <1>4
<1> QED BY ONLY BudgetInv, t \in Tasks, k \in TaskRec, q \in Shares, <1>2, <1>6, <1>7, <1>8,
                <1>9, ThreadStep

LEMMA Threads ==
  /\ Hub \in Tasks /\ Conns \subseteq Tasks /\ Writers \subseteq Tasks /\ Enqueuers \subseteq Tasks
  /\ Conns \subseteq Shares /\ Sessions \subseteq Shares /\ Backlog \in Shares
  /\ {"take", "give", "drop"} \subseteq TaskPcs \ {"idle"}
  /\ 0 \in Nat
BY MoreConstants DEF TaskPcs

LEMMA PushStep ==
  ASSUME BudgetInv, Typed, IInv, NEW s \in Sessions, NEW w \in Weights, Push(s, w)
  PROVE  BudgetInv'
<1>1. PICK q : q = Sink(s)
  OBVIOUS
<1>2. /\ task[Hub] = Idle /\ Begin(Hub, "take", q, w, "idle")
      /\ sess[s].sink = "live" \/ sess[s].sink = "buffering"
      /\ UNCHANGED <<held, shares, own, on, queue, conn, sess, backlog>>
  BY <1>1 DEF Push, Unlocked
<1>3. \/ q \in Conns /\ conn[q].pc = "up"
      \/ q \in Sessions
  BY <1>1, <1>2 DEF IInv, AttachedInv, Sink
<1>4. q \in Shares /\ w \in Nat
  BY <1>3, Threads, WeightsNat
<1>5. PICK k : /\ k \in TaskRec /\ k.pc = "take" /\ k.share = q /\ k.w = w /\ k.then = "idle"
               /\ TaskAt(Hub, k) /\ task' = [task EXCEPT ![Hub] = k]
  BY <1>2, <1>4, BeginFacts, Threads
<1>6. UserOf(Hub, k)
  BY <1>3, <1>5 DEF UserOf, Taking
<1>7. task[Hub].pc = "idle" /\ task[Hub].pc \in Still /\ k.pc \in Still /\ k.pc \notin Dropping
  BY <1>2, <1>5, IdleFacts DEF Still, Dropping
<1>8. ShareInv'
  <2>1. Hub \notin Conns /\ Hub \notin Enqueuers /\ (q \in Conns => conn[q].pc = "up")
    BY <1>3, MoreConstants
  <2> QED BY <1>2, <1>5, <1>7, <2>1, Begins, Threads DEF Buffered
<1>9. SharesOK /\ backlog' \in [lagging : BOOLEAN, closed : BOOLEAN]
  BY <1>2, SharesSame, BacklogSame
<1> QED BY <1>2, <1>5, <1>6, <1>7, <1>8, <1>9, StillStep, Threads

\* Only the thread under the roster's lock uses a buffer's share.
LEMMA BufferAlone ==
  ASSUME BudgetInv, NEW s \in Sessions, task[Hub].pc \in Still
  PROVE  own[s] = Total(queue[s])
<1>1. ASSUME NEW u \in Tasks PROVE OwnPart(task[u], s) = 0
  <2>1. CASE u = Hub
    BY <2>1, StillParts
  <2>2. CASE u # Hub
    <3>1. task[u].pc = "idle" \/ task[u].share # s
      BY <2>2, MoreConstants DEF BudgetInv, TaskInv, UserOf
    <3> QED BY <3>1 DEF OwnPart, InOwn
  <2> QED BY <2>1, <2>2
<1> QED BY <1>1, Alone, Threads

\* The buffer is emptied and given back.
LEMMA Breaks ==
  ASSUME BudgetInv, Typed, NEW s \in Sessions, Break(s), sess[s].sink = "buffering",
         \/ task[Hub].pc = "idle"
         \/ task[Hub].pc = "over" /\ task[Hub].share = s,
         UNCHANGED <<held, shares, own, on, conn, backlog>>
  PROVE  BudgetInv'
<1>1. /\ sess' = [sess EXCEPT ![s].sink = "broken"] /\ queue' = [queue EXCEPT ![s] = <<>>]
      /\ Begin(Hub, "give", s, own[s], "idle")
  BY DEF Break
<1>2. s \in Shares /\ own[s] \in Nat /\ "give" \notin Taking \ {"over"}
  BY ThreadAt, Threads DEF Taking
<1>3. PICK k : /\ k \in TaskRec /\ k.pc = "give" /\ k.share = s /\ k.w = own[s]
               /\ k.then = "idle" /\ TaskAt(Hub, k) /\ task' = [task EXCEPT ![Hub] = k]
  BY <1>1, <1>2, BeginFacts, Threads
<1>4. UserOf(Hub, k)
  BY <1>3 DEF UserOf
<1>5. \A x \in Sessions : Buffered(x)' <=> Buffered(x)
  BY <1>1 DEF Buffered, Typed
<1>6. k.pc \notin Dropping /\ task[Hub].pc \notin Dropping /\ task[Hub].pc \in Still
  BY <1>3 DEF Dropping, Still
<1>7. Hub \notin Conns /\ Hub \notin Enqueuers /\ s \notin Conns
  BY MoreConstants
<1>8. ShareInv'
  <2>1. CASE task[Hub].pc = "idle"
    BY <1>3, <1>5, <1>6, <1>7, <2>1, Begins, Threads
  <2>2. CASE task[Hub].pc = "over" /\ task[Hub].share = s
    BY <1>3, <1>5, <1>6, <1>7, <2>2, Continues, Threads
  <2> QED BY <2>1, <2>2
<1>9. own[s] = Total(queue[s])
  BY <1>6, BufferAlone
<1>10. PICK r, Q : r = task[Hub] /\ Q = <<>>
  OBVIOUS
<1>11. /\ ServerPart(r) = 0 /\ OwnPart(r, s) = 0 /\ KeptPart(r, s) = 0 /\ KeptPart(k, s) = 0
       /\ ServerPart(k) = own[s] /\ OwnPart(k, s) = own[s] /\ Total(Q) = 0
  <2>1. InServer(k) /\ InOwn(k) /\ k.pc \notin Granted
    BY <1>3 DEF InServer, InOwn, Granted
  <2>2. ServerPart(k) = own[s] /\ OwnPart(k, s) = own[s] /\ KeptPart(k, s) = 0
    BY <1>3, <2>1 DEF ServerPart, OwnPart, KeptPart
  <2> QED BY <1>6, <1>10, <2>2, StillParts, TotalEmpty
<1>12. /\ Total(Q) + ServerPart(k) = Total(queue[s]) + ServerPart(r)
       /\ Total(Q) + OwnPart(k, s) = Total(queue[s]) + OwnPart(r, s)
       /\ Total(Q) + KeptPart(k, s) <= Total(queue[s]) + KeptPart(r, s)
  BY ONLY <1>2, <1>9, <1>11
<1>13. Q \in Seq(Weights) /\ queue' = [queue EXCEPT ![s] = Q]
  BY <1>1, <1>10
<1>14. r.pc = "idle" \/ r.share = s
  BY <1>10
<1>15. backlog' \in [lagging : BOOLEAN, closed : BOOLEAN]
  BY BacklogSame
<1> QED BY <1>2, <1>3, <1>4, <1>8, <1>10, <1>12, <1>13, <1>14, <1>15, SwapStep, Threads

LEMMA PushFullStep ==
  ASSUME BudgetInv, Typed, NEW s \in Sessions, PushFull(s) PROVE BudgetInv'
<1>1. /\ task[Hub].pc = "idle" /\ sess[s].sink = "buffering" /\ Break(s)
      /\ UNCHANGED <<held, shares, own, on, conn, backlog>>
  BY IdleFacts DEF PushFull, Unlocked
<1> QED BY <1>1, Breaks

LEMMA RefusedStep ==
  ASSUME BudgetInv, Typed, HubInv, Refused PROVE BudgetInv'
<1>1. PICK q : q = task[Hub].share
  OBVIOUS
<1>2. task[Hub].pc = "over" /\ UNCHANGED <<held, shares, own, on, conn, backlog>>
  BY DEF Refused
<1>3. CASE q \in Sessions /\ Break(q)
  <2>1. sess[q].sink = "buffering"
    BY <1>1, <1>2, <1>3 DEF HubInv, Taking
  <2> QED BY <1>1, <1>2, <1>3, <2>1, Breaks
<1>4. CASE /\ sess' = [s \in Sessions |-> IF sess[s].sink = "live" /\ sess[s].conn = q
                                         THEN [sess[s] EXCEPT !.sink = "lagged"] ELSE sess[s]]
           /\ task' = [task EXCEPT ![Hub] = Idle] /\ UNCHANGED queue
  <2>1. ASSUME NEW s \in Sessions PROVE Buffered(s)' <=> Buffered(s)
    <3>1. sess[s] \in Sess
      BY DEF Typed
    <3>2. CASE sess[s].sink = "live" /\ sess[s].conn = q
      <4>1. sess'[s].sink = "lagged"
        BY <1>4, <3>1, <3>2 DEF Sess
      <4> QED BY <3>2, <4>1 DEF Buffered
    <3>3. CASE ~(sess[s].sink = "live" /\ sess[s].conn = q)
      <4>1. sess'[s] = sess[s]
        BY <1>4, <3>3
      <4> QED BY <4>1 DEF Buffered
    <3> QED BY <3>2, <3>3
  <2>2. /\ Idle.pc \notin Dropping /\ task[Hub].pc \notin Dropping /\ Idle.pc = "idle"
        /\ task[Hub].pc # "idle" /\ task[Hub].pc \in Still /\ Idle.pc \in Still
    BY <1>2, IdleFacts DEF Dropping, Still
  <2>3. ShareInv'
    BY <1>2, <1>4, <2>1, <2>2, Continues, IdleFacts, MoreConstants, Threads
  <2>4. SharesOK /\ backlog' \in [lagging : BOOLEAN, closed : BOOLEAN]
    BY <1>2, SharesSame, BacklogSame
  <2> QED BY <1>2, <1>4, <2>2, <2>3, <2>4, StillStep, IdleFacts, Threads
<1> QED BY <1>1, <1>3, <1>4 DEF Refused

\* What a thread has been granted.
LEMMA GotFacts ==
  ASSUME BudgetInv, NEW t \in Tasks, NEW r, r = task[t], r.pc = "got"
  PROVE  /\ r \in TaskRec /\ r.w \in Weights /\ r.w \in Nat /\ r.share \in Shares
         /\ UserOf(t, r) /\ t \notin Conns /\ t \notin Writers
         /\ t \in Enqueuers => r.share = Backlog
         /\ ServerPart(r) = r.w /\ OwnPart(r, r.share) = r.w /\ KeptPart(r, r.share) = r.w
         /\ queue[r.share] \in Seq(Weights) /\ Total(queue[r.share]) \in Nat
<1>1. /\ r \in TaskRec /\ TaskAt(t, r) /\ UserOf(t, r) /\ r.w \in Nat /\ r.share \in Shares
      /\ queue \in [Shares -> Seq(Weights)]
  BY ThreadAt
<1>2. r.w \in Weights
  BY <1>1 DEF TaskAt, Taking
<1>3. /\ t \notin Conns /\ t \notin Writers /\ (t \in Enqueuers => r.share = Backlog)
  BY <1>1, MoreConstants DEF UserOf, Giving, Dropping
<1>4. ServerPart(r) = r.w /\ OwnPart(r, r.share) = r.w /\ KeptPart(r, r.share) = r.w
  BY DEF ServerPart, OwnPart, KeptPart, InServer, InOwn, Granted
<1>5. queue[r.share] \in Seq(Weights) /\ Total(queue[r.share]) \in Nat
  BY <1>1, WeightsNat, SeqFinite
<1> QED BY <1>1, <1>2, <1>3, <1>4, <1>5

LEMMA Queued ==
  ASSUME BudgetInv, NEW t \in Tasks, task[t].pc = "got",
         queue' = [queue EXCEPT ![task[t].share] = Append(@, task[t].w)],
         task' = [task EXCEPT ![t] = Idle],
         UNCHANGED <<held, shares, own, on, conn, sess, backlog>>
  PROVE  BudgetInv'
<1>1. PICK r, q, w, Q : r = task[t] /\ q = r.share /\ w = r.w /\ Q = Append(queue[q], w)
  OBVIOUS
<1>2. /\ r \in TaskRec /\ w \in Weights /\ w \in Nat /\ q \in Shares
      /\ ServerPart(r) = w /\ OwnPart(r, q) = w /\ KeptPart(r, q) = w
      /\ queue[q] \in Seq(Weights) /\ Total(queue[q]) \in Nat /\ r.pc = "got"
  BY <1>1, GotFacts
<1>3. Q \in Seq(Weights) /\ queue' = [queue EXCEPT ![q] = Q]
  BY <1>1, <1>2
<1>4. Total(Q) = Total(queue[q]) + w
  <2>1. queue[q] \in Seq(Nat)
    BY <1>2, WeightsNat
  <2> QED BY <1>1, <1>2, <2>1, TotalAppend
<1>5. /\ ServerPart(Idle) = 0 /\ OwnPart(Idle, q) = 0 /\ KeptPart(Idle, q) = 0
      /\ Idle \in TaskRec /\ TaskAt(t, Idle) /\ UserOf(t, Idle) /\ Idle.pc = "idle"
  BY IdleFacts
<1>6. /\ Total(Q) + ServerPart(Idle) = Total(queue[q]) + ServerPart(r)
      /\ Total(Q) + OwnPart(Idle, q) = Total(queue[q]) + OwnPart(r, q)
      /\ Total(Q) + KeptPart(Idle, q) <= Total(queue[q]) + KeptPart(r, q)
  BY ONLY <1>2, <1>4, <1>5
<1>7. ShareInv'
  <2>1. /\ Idle.pc \notin Dropping /\ r.pc \notin Dropping /\ Idle.pc \notin Giving
        /\ r.pc # "idle"
    BY <1>2, <1>5 DEF Dropping, Giving
  <2> QED BY <1>1, <1>5, <2>1, Continues DEF Buffered
<1>8. backlog' \in [lagging : BOOLEAN, closed : BOOLEAN]
  BY BacklogSame
<1> QED BY <1>1, <1>2, <1>3, <1>5, <1>6, <1>7, <1>8, SwapStep

\* A grant that finds the queue full or closed goes back.
LEMMA GivesBack ==
  ASSUME BudgetInv, NEW t \in Tasks, task[t].pc = "got", NEW then \in {"idle", "over"},
         t # Hub => then = "idle", Begin(t, "give", task[t].share, task[t].w, then),
         UNCHANGED <<held, shares, own, on, queue, conn, sess, backlog>>
  PROVE  BudgetInv'
<1>1. PICK r, q, w, Q : r = task[t] /\ q = r.share /\ w = r.w /\ Q = queue[q]
  OBVIOUS
<1>2. /\ r \in TaskRec /\ w \in Weights /\ w \in Nat /\ q \in Shares /\ UserOf(t, r)
      /\ ServerPart(r) = w /\ OwnPart(r, q) = w /\ KeptPart(r, q) = w /\ t \notin Conns
      /\ Q \in Seq(Weights) /\ Total(Q) \in Nat /\ r.pc = "got" /\ t \notin Writers
  BY <1>1, GotFacts
<1>3. PICK k : /\ k \in TaskRec /\ k.pc = "give" /\ k.share = q /\ k.w = w /\ k.then = then
               /\ TaskAt(t, k) /\ task' = [task EXCEPT ![t] = k]
  BY <1>1, <1>2, BeginFacts, Threads
<1>4. UserOf(t, k)
  BY <1>1, <1>2, <1>3 DEF UserOf, Giving
<1>5. InServer(k) /\ InOwn(k) /\ k.pc \notin Granted
  BY <1>3 DEF InServer, InOwn, Granted
<1>6. ServerPart(k) = w /\ OwnPart(k, q) = w /\ KeptPart(k, q) = 0
  BY <1>3, <1>5 DEF ServerPart, OwnPart, KeptPart
<1>7. /\ Total(Q) + ServerPart(k) = Total(queue[q]) + ServerPart(r)
      /\ Total(Q) + OwnPart(k, q) = Total(queue[q]) + OwnPart(r, q)
      /\ Total(Q) + KeptPart(k, q) <= Total(queue[q]) + KeptPart(r, q)
  BY ONLY <1>1, <1>2, <1>6
<1>8. ShareInv'
  <2>1. k.pc \notin Dropping /\ r.pc \notin Dropping /\ r.pc # "idle"
    BY <1>2, <1>3 DEF Dropping
  <2> QED BY <1>1, <1>2, <1>3, <2>1, Continues DEF Buffered
<1>9. queue' = [queue EXCEPT ![q] = Q]
  <2>1. queue \in [Shares -> Seq(Weights)]
    BY ThreadAt
  <2> QED BY <1>1, <2>1
<1>10. backlog' \in [lagging : BOOLEAN, closed : BOOLEAN]
  BY BacklogSame
<1> QED BY <1>1, <1>2, <1>3, <1>4, <1>7, <1>8, <1>9, <1>10, SwapStep

LEMMA PushedStep == ASSUME BudgetInv, Pushed PROVE BudgetInv'
<1>1. /\ task[Hub].pc = "got" /\ UNCHANGED <<held, shares, own, on, conn, sess, backlog>>
      /\ \/ Begin(Hub, "give", task[Hub].share, task[Hub].w, "over") /\ UNCHANGED queue
         \/ /\ queue' = [queue EXCEPT ![task[Hub].share] = Append(@, task[Hub].w)]
            /\ task' = [task EXCEPT ![Hub] = Idle]
  BY DEF Pushed
<1> QED BY <1>1, Queued, GivesBack, Threads

LEMMA EnqueuedStep ==
  ASSUME BudgetInv, NEW e \in Enqueuers, Enqueued(e) PROVE BudgetInv'
<1>1. /\ e \in Tasks /\ UNCHANGED <<held, shares, own, on, conn, sess>>
      /\ e # Hub /\ e \notin Conns
  BY Threads, MoreConstants DEF Enqueued
<1>2. CASE /\ task[e].pc = "got" /\ queue' = [queue EXCEPT ![Backlog] = Append(@, task[e].w)]
           /\ task' = [task EXCEPT ![e] = Idle] /\ UNCHANGED backlog
  <2>1. task[e].share = Backlog
    BY <1>1, <1>2, GotFacts
  <2> QED BY <1>1, <1>2, <2>1, Queued
<1>3. CASE /\ task[e].pc = "got" /\ Begin(e, "give", Backlog, task[e].w, "idle")
           /\ UNCHANGED <<queue, backlog>>
  <2>1. task[e].share = Backlog
    BY <1>1, <1>3, GotFacts
  <2> QED BY <1>1, <1>3, <2>1, GivesBack
<1>4. CASE /\ task[e].pc = "over" /\ backlog' = [backlog EXCEPT !.lagging = TRUE]
           /\ task' = [task EXCEPT ![e] = Idle] /\ UNCHANGED queue
  <2>1. backlog' \in [lagging : BOOLEAN, closed : BOOLEAN]
    <3>1. backlog \in [lagging : BOOLEAN, closed : BOOLEAN]
      BY DEF BudgetInv, QueueTyped
    <3> QED BY <1>4, <3>1
  <2>2. /\ Idle.pc \notin Dropping /\ task[e].pc \notin Dropping /\ Idle.pc = "idle"
        /\ task[e].pc # "idle" /\ task[e].pc \in Still /\ Idle.pc \in Still
    BY <1>4, IdleFacts DEF Dropping, Still
  <2>3. ShareInv'
    BY <1>1, <1>4, <2>2, Continues, IdleFacts DEF Buffered
  <2>4. SharesOK
    BY <1>1, SharesSame
  <2> QED BY <1>1, <1>4, <2>1, <2>2, <2>3, <2>4, StillStep, IdleFacts
<1> QED BY <1>2, <1>3, <1>4 DEF Enqueued

LEMMA EnqueueStep ==
  ASSUME BudgetInv, NEW e \in Enqueuers, NEW w \in Weights, Enqueue(e, w) PROVE BudgetInv'
<1>1. /\ task[e].pc = "idle" /\ \A t \in Writers : task[t].pc \notin Dropping
      /\ Begin(e, "take", Backlog, w, "idle")
      /\ UNCHANGED <<held, shares, own, on, queue, conn, sess, backlog>>
  BY IdleFacts DEF Enqueue, Dropping
<1>2. e \in Tasks /\ e # Hub /\ e \notin Conns /\ w \in Nat
  BY Threads, MoreConstants, WeightsNat
<1>3. PICK k : /\ k \in TaskRec /\ k.pc = "take" /\ k.share = Backlog /\ k.w = w
               /\ k.then = "idle" /\ TaskAt(e, k) /\ task' = [task EXCEPT ![e] = k]
  BY <1>1, <1>2, BeginFacts, Threads
<1>4. UserOf(e, k)
  BY <1>3 DEF UserOf, Taking
<1>5. k.pc \notin Dropping /\ k.pc \in Still /\ task[e].pc \in Still
  BY <1>1, <1>3 DEF Dropping, Still
<1>6. ShareInv'
  BY <1>1, <1>2, <1>3, <1>5, Begins DEF Buffered
<1>7. SharesOK /\ backlog' \in [lagging : BOOLEAN, closed : BOOLEAN]
  BY <1>1, SharesSame, BacklogSame
<1> QED BY <1>1, <1>2, <1>3, <1>4, <1>5, <1>6, <1>7, StillStep

\* What leaves a queue is in the hands of the thread that took it.
LEMMA TakesOff ==
  ASSUME BudgetInv, NEW t \in Tasks, NEW q \in Shares, NEW Q \in Seq(Weights), NEW w \in Nat,
         task[t].pc = "idle", Begin(t, "give", q, w, "idle"),
         \/ t \in Conns /\ q = t /\ conn[t].pc = "up"
         \/ t \in Writers /\ q = Backlog
         \/ t = Hub /\ q \in Sessions,
         queue' = [queue EXCEPT ![q] = Q], Total(queue[q]) = w + Total(Q),
         UNCHANGED <<held, shares, own, on, conn, sess, backlog>>
  PROVE  BudgetInv'
<1>1. PICK k : /\ k \in TaskRec /\ k.pc = "give" /\ k.share = q /\ k.w = w
               /\ k.then = "idle" /\ TaskAt(t, k) /\ task' = [task EXCEPT ![t] = k]
  BY BeginFacts, Threads DEF Taking
<1>2. UserOf(t, k)
  BY <1>1 DEF UserOf, Giving
<1>3. PICK r : r = task[t]
  OBVIOUS
<1>4. ServerPart(r) = 0 /\ OwnPart(r, q) = 0 /\ KeptPart(r, q) = 0
  BY <1>3, StillParts DEF Still
<1>5. InServer(k) /\ InOwn(k) /\ k.pc \notin Granted /\ k.pc \notin Dropping
  BY <1>1 DEF InServer, InOwn, Granted, Dropping
<1>6. ServerPart(k) = w /\ OwnPart(k, q) = w /\ KeptPart(k, q) = 0
  BY <1>1, <1>5 DEF ServerPart, OwnPart, KeptPart
<1>7. Total(Q) \in Nat
  BY WeightsNat, SeqFinite
<1>8. /\ Total(Q) + ServerPart(k) = Total(queue[q]) + ServerPart(r)
      /\ Total(Q) + OwnPart(k, q) = Total(queue[q]) + OwnPart(r, q)
      /\ Total(Q) + KeptPart(k, q) <= Total(queue[q]) + KeptPart(r, q)
  BY ONLY <1>4, <1>6, <1>7, w \in Nat, Total(queue[q]) = w + Total(Q)
<1>9. ShareInv'
  <2>1. t \notin Enqueuers /\ (t \in Conns => conn[t].pc = "up")
    BY MoreConstants
  <2>2. ~(t = Hub /\ k.share \in Conns)
    BY <1>1, MoreConstants
  <2> QED BY <1>1, <1>5, <2>1, <2>2, Begins DEF Buffered
<1>10. backlog' \in [lagging : BOOLEAN, closed : BOOLEAN]
  BY BacklogSame
<1> QED BY <1>1, <1>2, <1>3, <1>8, <1>9, <1>10, SwapStep

LEMMA RecvStep == ASSUME BudgetInv, NEW c \in Conns, Recv(c) PROVE BudgetInv'
<1>1. PICK q, w, Q : q = queue[c] /\ w = Head(q) /\ Q = Tail(q)
  OBVIOUS
<1>2. /\ conn[c].pc = "up" /\ task[c].pc = "idle" /\ q # <<>>
      /\ queue' = [queue EXCEPT ![c] = Q] /\ Begin(c, "give", c, w, "idle")
      /\ UNCHANGED <<held, shares, own, on, conn, sess, backlog>>
  BY <1>1, IdleFacts DEF Recv, At
<1>3. c \in Tasks /\ c \in Shares
  BY Threads
<1>4. q \in Seq(Weights) /\ q \in Seq(Nat)
  BY <1>1, <1>3, ThreadAt, WeightsNat
<1>5. Q \in Seq(Weights)
  BY <1>1, <1>2, <1>4
<1>6. Total(q) = w + Total(Q) /\ w \in Nat
  BY <1>1, <1>2, <1>4, TotalTail
<1> QED BY <1>1, <1>2, <1>3, <1>5, <1>6, TakesOff

LEMMA WriteStep == ASSUME BudgetInv, NEW t \in Writers, Write(t) PROVE BudgetInv'
<1>1. PICK q : q = queue[Backlog]
  OBVIOUS
<1>2. PICK n \in 1..Len(q) :
        /\ queue' = [queue EXCEPT ![Backlog] = SubSeq(q, n + 1, Len(q))]
        /\ Begin(t, "give", Backlog, Total(SubSeq(q, 1, n)), "idle")
  BY <1>1 DEF Write, BatchBytes
<1>3. /\ task[t].pc = "idle" /\ UNCHANGED <<held, shares, own, on, conn, sess, backlog>>
  BY IdleFacts DEF Write
<1>4. t \in Tasks /\ Backlog \in Shares
  BY Threads
<1>5. q \in Seq(Weights) /\ q \in Seq(Nat)
  BY <1>1, <1>4, ThreadAt, WeightsNat
<1>6. PICK w, Q : w = Total(SubSeq(q, 1, n)) /\ Q = SubSeq(q, n + 1, Len(q))
  OBVIOUS
<1>7. Q \in Seq(Weights)
  <2>1. \A i \in (n + 1)..Len(q) : q[i] \in Weights
    BY <1>5
  <2> QED BY <1>5, <1>6, <2>1
<1>8. Total(q) = w + Total(Q) /\ w \in Nat
  BY <1>5, <1>6, TotalBatch, SeqFinite
<1> QED BY <1>1, <1>2, <1>3, <1>4, <1>6, <1>7, <1>8, TakesOff

LEMMA LoseSealedStep == ASSUME BudgetInv, NEW s \in Sessions, LoseSealed(s) PROVE BudgetInv'
<1>1. PICK q : q = queue[s]
  OBVIOUS
<1>2. PICK i \in DOMAIN q, w \in Weights :
        /\ w < q[i] /\ queue' = [queue EXCEPT ![s] = [q EXCEPT ![i] = w]]
        /\ Begin(Hub, "give", s, q[i] - w, "idle")
  BY <1>1 DEF LoseSealed
<1>3. /\ task[Hub].pc = "idle" /\ UNCHANGED <<held, shares, own, on, conn, sess, backlog>>
  BY IdleFacts DEF LoseSealed, Unlocked
<1>4. Hub \in Tasks /\ s \in Shares
  BY Threads
<1>5. q \in Seq(Weights) /\ q \in Seq(Nat) /\ w \in Nat /\ q[i] \in Nat
  BY <1>1, <1>4, ThreadAt, WeightsNat
<1>6. PICK Q : Q = [q EXCEPT ![i] = w]
  OBVIOUS
<1>7. Q \in Seq(Weights)
  BY <1>5, <1>6
<1>8. /\ DOMAIN Q = DOMAIN q /\ Q[i] = w
      /\ \A j \in DOMAIN q : j # i => Q[j] = q[j]
  BY <1>5, <1>6
<1>9. Total(Q) = Total(q) - q[i] + w /\ Total(q) \in Nat /\ Total(Q) \in Nat
  <2>1. IsFiniteSet(Units(q))
    BY <1>5, SeqFinite
  <2>2. q[i] \in Nat /\ Q[i] \in Nat
    BY <1>5, <1>8
  <2>3. Total(Q) = Total(q) - q[i] + Q[i] /\ Total(q) \in Nat /\ Total(Q) \in Nat
    BY <1>8, <2>1, <2>2, TotalChanges
  <2> QED BY <1>8, <2>3
<1>10. PICK x \in Nat : x = q[i] - w /\ Total(q) = x + Total(Q)
  <2>1. PICK n, t, T : n = q[i] /\ t = Total(q) /\ T = Total(Q)
    OBVIOUS
  <2>2. n \in Nat /\ w \in Nat /\ t \in Nat /\ T \in Nat /\ w < n /\ T = t - n + w
    BY <1>2, <1>5, <1>9, <2>1
  <2>3. n - w \in Nat /\ t = (n - w) + T
    BY ONLY <2>2
  <2> QED BY <2>1, <2>3
<1>11. Begin(Hub, "give", s, x, "idle") /\ queue' = [queue EXCEPT ![s] = Q]
  BY <1>2, <1>6, <1>10
<1> QED BY <1>1, <1>3, <1>4, <1>7, <1>10, <1>11, TakesOff

LEMMA WriterStopsStep == ASSUME BudgetInv, NEW t \in Writers, WriterStops(t) PROVE BudgetInv'
<1>1. /\ UNCHANGED <<held, shares, own, on, queue, task, conn, sess>>
      /\ backlog' \in [lagging : BOOLEAN, closed : BOOLEAN]
  <2>1. backlog.lagging \in BOOLEAN
    BY DEF BudgetInv, QueueTyped
  <2> QED BY <2>1 DEF WriterStops, budgetVars
<1>2. SharesOK
  BY <1>1, SharesSame
<1>3. ShareInv'
  BY <1>1 DEF BudgetInv, ShareInv, ConnShare, SessShare, BacklogShare
<1> QED BY <1>1, <1>2, <1>3, NoMove

-----------------------------------------------------------------------------
(* Shares come and go. *)

LEMMA ConnShareKept ==
  ASSUME BudgetInv, NEW c \in Conns, task'[c] = task[c], conn'[c].pc = conn[c].pc,
         c \in on' <=> c \in on,
         task'[Hub].pc # "idle" /\ task'[Hub].share = c
           => task[Hub].pc # "idle" /\ task[Hub].share = c
  PROVE  ConnShare(c)'
BY DEF BudgetInv, ShareInv, ConnShare

LEMMA SessShareKept ==
  ASSUME BudgetInv, NEW s \in Sessions, Buffered(s)' <=> Buffered(s), s \in on' <=> s \in on,
         task'[Hub].share = s /\ task'[Hub].pc \in Dropping
           <=> task[Hub].share = s /\ task[Hub].pc \in Dropping
  PROVE  SessShare(s)'
BY DEF BudgetInv, ShareInv, SessShare, Buffered

LEMMA BacklogShareKept ==
  ASSUME BudgetInv, \A u \in Writers \cup Enqueuers : task'[u] = task[u],
         Backlog \in on' <=> Backlog \in on
  PROVE  BacklogShare'
BY DEF BudgetInv, ShareInv, BacklogShare

\* A connection that has no queue.
LEMMA NoQueue ==
  ASSUME BudgetInv, NEW c \in Conns,
         \/ conn[c].pc \notin {"up", "close", "drop"}
         \/ conn[c].pc = "drop" /\ task[c] = Idle
  PROVE  /\ c \notin on /\ task[c].pc \notin Dropping /\ task[c].pc \notin Giving
         /\ ~(task[Hub].pc # "idle" /\ task[Hub].share = c)
<1>1. ConnShare(c)
  BY DEF BudgetInv, ShareInv
<1>2. Idle.pc \notin Dropping /\ Idle.pc \notin Giving
  BY IdleFacts DEF Dropping, Giving
<1> QED BY <1>1, <1>2 DEF ConnShare

\* A connection moves on before it has a queue, or after.
LEMMA PassingStep ==
  ASSUME BudgetInv, NEW c \in Conns,
         \/ conn[c].pc \notin {"up", "close", "drop"}
         \/ conn[c].pc = "drop" /\ task[c] = Idle,
         \A d \in Conns : d # c => conn'[d] = conn[d],
         UNCHANGED <<budgetVars, sess, backlog>>
  PROVE  BudgetInv'
<1>1. UNCHANGED <<held, shares, own, on, queue, task>> /\ UNCHANGED <<sess, backlog>>
  BY DEF budgetVars
<1>2. ASSUME NEW d \in Conns PROVE ConnShare(d)'
  <2>1. CASE d = c
    BY <1>1, <2>1, NoQueue DEF ConnShare
  <2>2. CASE d # c
    BY <1>1, <2>2, ConnShareKept
  <2> QED BY <2>1, <2>2
<1>3. ASSUME NEW s \in Sessions PROVE SessShare(s)'
  BY <1>1, SessShareKept DEF Buffered
<1>4. BacklogShare'
  BY <1>1, BacklogShareKept
<1>5. ShareInv'
  BY <1>2, <1>3, <1>4 DEF ShareInv
<1> QED BY <1>1, <1>5, NoMove, SharesSame, BacklogSame

LEMMA PassingSteps ==
  ASSUME BudgetInv, Typed, NEW c \in Conns,
         \/ \E a \in Addrs : Accept(c, a)
         \/ Upgrade(c) \/ Identified(c) \/ Unidentified(c) \/ HangUp(c)
         \/ \E l \in Logins : LoginStart(c, l)
         \/ LoginTakeAddr(c) \/ LoginUnname(c) \/ Verdict(c)
         \/ RefundName(c) \/ RefundAddr(c) \/ AdmitAccount(c)
         \/ \E s \in Sessions : ResumeStart(c, s)
         \/ AdmitResume(c) \/ Uncarry(c) \/ DropPlace(c) \/ DropPort(c)
  PROVE  BudgetInv'
<1>1. conn = [d \in Conns |-> conn[d]]
  BY DEF Typed
<1>2. UNCHANGED <<budgetVars, sess, backlog>>
  BY DEF Accept, Upgrade, Identified, Unidentified, HangUp, LoginStart, LoginTakeAddr,
         LoginUnname, Verdict, RefundName, RefundAddr, AdmitAccount, ResumeStart,
         AdmitResume, Uncarry, DropPlace, DropPort
<1>3. \/ conn[c].pc \notin {"up", "close", "drop"}
      \/ conn[c].pc = "drop" /\ task[c] = Idle
  BY DEF Accept, Upgrade, Identified, Unidentified, HangUp, LoginStart, LoginTakeAddr,
         LoginUnname, Verdict, RefundName, RefundAddr, AdmitAccount, ResumeStart,
         AdmitResume, Uncarry, DropPlace, DropPort, At
<1>4. \E k : conn' = [conn EXCEPT ![c] = k]
  BY DEF Accept, Upgrade, Identified, Unidentified, HangUp, LoginStart, LoginTakeAddr,
         LoginUnname, Verdict, RefundName, RefundAddr, AdmitAccount, ResumeStart, Gate,
         AdmitResume, Uncarry, DropPlace, DropPort, To
<1>5. \A d \in Conns : d # c => conn'[d] = conn[d]
  BY <1>1, <1>4
<1> QED BY <1>2, <1>3, <1>5, PassingStep

\* One more share.
LEMMA AddShare ==
  ASSUME BudgetInv, NEW x \in Shares, x \notin on, shares' = shares + 1, on' = on \cup {x}
  PROVE  SharesOK
<1>1. on \subseteq Shares /\ IsFiniteSet(on) /\ shares = Cardinality(on)
  BY DEF BudgetInv, QueueTyped, CardInv
<1> QED BY <1>1, FS_AddElement DEF SharesOK

\* What the roster's lock keeps: no thread is in a buffer's share.
LEMMA UnlockedFacts ==
  ASSUME BudgetInv, Unlocked
  PROVE  /\ task[Hub].pc = "idle" /\ task[Hub] = Idle /\ task[Hub].pc \notin Dropping
         /\ \A s \in Sessions : s \in on <=> Buffered(s)
<1>1. task[Hub].pc = "idle" /\ task[Hub] = Idle /\ task[Hub].pc \notin Dropping
  BY IdleFacts DEF Unlocked, Dropping
<1> QED BY <1>1 DEF BudgetInv, ShareInv, SessShare, Buffered

\* The roster drops the share of a buffer, or of none.
Drops(s) == IF sess[s].sink \in {"buffering", "broken"}
              THEN Begin(Hub, "drop", s, 0, "idle") ELSE UNCHANGED task

LEMMA DropsFacts ==
  ASSUME BudgetInv, Unlocked, NEW s \in Sessions, Drops(s)
  PROVE  /\ \A u \in Tasks : u # Hub => task'[u] = task[u]
         /\ task'[Hub].pc = "idle" \/ task'[Hub].share = s
         /\ task'[Hub].share = s /\ task'[Hub].pc \in Dropping <=> Buffered(s)
         /\ \E k \in TaskRec : /\ task' = [task EXCEPT ![Hub] = k] /\ TaskAt(Hub, k)
                               /\ UserOf(Hub, k) /\ k.pc \in Still
<1>1. task[Hub] = Idle /\ task[Hub].pc = "idle" /\ task[Hub].pc \notin Dropping
  BY UnlockedFacts
<1>2. task \in [Tasks -> TaskRec] /\ Hub \in Tasks /\ s \in Shares
  BY ThreadAt, Threads
<1>3. CASE Buffered(s)
  <2>1. PICK k : /\ k \in TaskRec /\ k.pc = "drop" /\ k.share = s /\ TaskAt(Hub, k)
                 /\ task' = [task EXCEPT ![Hub] = k]
    BY <1>2, <1>3, BeginFacts, Threads DEF Buffered, Drops, Taking
  <2>2. UserOf(Hub, k) /\ k.pc \in Still /\ k.pc \in Dropping
    BY <2>1 DEF UserOf, Still, Dropping
  <2>3. task'[Hub] = k /\ \A u \in Tasks : u # Hub => task'[u] = task[u]
    BY <1>2, <2>1
  <2> QED BY <1>3, <2>1, <2>2, <2>3
<1>4. CASE ~Buffered(s)
  <2>1. task' = task
    BY <1>4 DEF Buffered, Drops
  <2>2. task' = [task EXCEPT ![Hub] = Idle]
    BY <1>1, <1>2, <2>1
  <2>3. Idle \in TaskRec /\ TaskAt(Hub, Idle) /\ UserOf(Hub, Idle) /\ Idle.pc \in Still
    BY IdleFacts DEF Still
  <2> QED BY <1>1, <1>4, <2>1, <2>2, <2>3
<1> QED BY <1>3, <1>4

LEMMA EndSessionBudget ==
  ASSUME BudgetInv, Typed, NEW s \in Sessions, EndSession(s) PROVE BudgetInv'
<1>1. /\ Unlocked /\ Drops(s)
      /\ sess' = [sess EXCEPT ![s].sink = "gone", ![s].conn = NoConn]
      /\ UNCHANGED <<held, shares, own, on, queue, conn, backlog>>
  BY DEF EndSession, Drops
<1>2. /\ task[Hub].pc = "idle" /\ task[Hub].pc \notin Dropping
      /\ \A x \in Sessions : x \in on <=> Buffered(x)
  BY <1>1, UnlockedFacts
<1>3. /\ \A u \in Tasks : u # Hub => task'[u] = task[u]
      /\ task'[Hub].pc = "idle" \/ task'[Hub].share = s
      /\ task'[Hub].share = s /\ task'[Hub].pc \in Dropping <=> Buffered(s)
  BY <1>1, DropsFacts
<1>4. PICK k \in TaskRec : /\ task' = [task EXCEPT ![Hub] = k] /\ TaskAt(Hub, k)
                           /\ UserOf(Hub, k) /\ k.pc \in Still
  BY <1>1, DropsFacts
<1>5. ~Buffered(s)' /\ \A x \in Sessions : x # s => (Buffered(x)' <=> Buffered(x))
  <2>1. sess \in [Sessions -> Sess]
    BY DEF Typed
  <2>2. sess'[s].sink = "gone" /\ \A x \in Sessions : x # s => sess'[x] = sess[x]
    BY <1>1, <2>1 DEF Sess
  <2> QED BY <2>2 DEF Buffered
<1>6. ASSUME NEW c \in Conns PROVE ConnShare(c)'
  <2>1. task'[c] = task[c] /\ c # s
    BY <1>3, Threads, MoreConstants
  <2> QED BY <1>1, <1>3, <2>1, ConnShareKept
<1>7. ASSUME NEW x \in Sessions PROVE SessShare(x)'
  <2>1. CASE x = s
    BY <1>1, <1>2, <1>3, <1>5, <2>1 DEF SessShare, Buffered
  <2>2. CASE x # s
    <3>1. ~(task'[Hub].share = x /\ task'[Hub].pc \in Dropping)
      BY <1>3, <2>2 DEF Dropping
    <3> QED BY <1>1, <1>2, <1>5, <2>2, <3>1, SessShareKept
  <2> QED BY <2>1, <2>2
<1>8. BacklogShare'
  BY <1>1, <1>3, BacklogShareKept, Threads, MoreConstants
<1>9. ShareInv'
  BY <1>6, <1>7, <1>8 DEF ShareInv
<1>10. task[Hub].pc \in Still
  BY <1>2 DEF Still
<1> QED BY <1>1, <1>4, <1>9, <1>10, StillStep, SharesSame, BacklogSame, Threads

\* A connection gets its queue, and its session a sink that is no buffer.
LEMMA ChannelShares ==
  ASSUME BudgetInv, Unlocked, NEW c \in Conns, NEW s \in Sessions, Drops(s), Channel(c),
         conn[c].pc \notin {"up", "close", "drop"}, conn'[c].pc = "up",
         \A d \in Conns : d # c => conn'[d] = conn[d],
         ~Buffered(s)', \A x \in Sessions : x # s => (Buffered(x)' <=> Buffered(x)),
         UNCHANGED backlog
  PROVE  BudgetInv'
<1>1. on' = on \cup {c} /\ shares' = shares + 1 /\ UNCHANGED <<held, own, queue>>
  BY DEF Channel
<1>2. /\ task[Hub].pc = "idle" /\ task[Hub].pc \notin Dropping
      /\ \A x \in Sessions : x \in on <=> Buffered(x)
  BY UnlockedFacts
<1>3. /\ \A u \in Tasks : u # Hub => task'[u] = task[u]
      /\ task'[Hub].pc = "idle" \/ task'[Hub].share = s
      /\ task'[Hub].share = s /\ task'[Hub].pc \in Dropping <=> Buffered(s)
  BY DropsFacts
<1>4. PICK k \in TaskRec : /\ task' = [task EXCEPT ![Hub] = k] /\ TaskAt(Hub, k)
                           /\ UserOf(Hub, k) /\ k.pc \in Still
  BY DropsFacts
<1>5. c \notin on /\ task[c].pc \notin Dropping /\ task[c].pc \notin Giving
  BY NoQueue
<1>6. /\ \A d \in Conns : task'[d] = task[d] /\ d # s
      /\ \A x \in Sessions : x \in on' <=> x \in on
      /\ Backlog \in on' <=> Backlog \in on
  BY <1>1, <1>3, Threads, MoreConstants
<1>7. ASSUME NEW d \in Conns PROVE ConnShare(d)'
  <2>1. CASE d = c
    BY <1>5, <1>6, <2>1 DEF ConnShare
  <2>2. CASE d # c
    <3>1. d \in on' <=> d \in on
      BY <1>1, <2>2
    <3> QED BY <1>3, <1>6, <2>2, <3>1, ConnShareKept
  <2> QED BY <2>1, <2>2
<1>8. ASSUME NEW x \in Sessions PROVE SessShare(x)'
  <2>1. CASE x = s
    BY <1>2, <1>3, <1>6, <2>1 DEF SessShare, Buffered
  <2>2. CASE x # s
    <3>1. ~(task'[Hub].share = x /\ task'[Hub].pc \in Dropping)
      BY <1>3, <2>2 DEF Dropping
    <3> QED BY <1>2, <1>6, <2>2, <3>1, SessShareKept
  <2> QED BY <2>1, <2>2
<1>9. BacklogShare'
  BY <1>3, <1>6, BacklogShareKept, Threads, MoreConstants
<1>10. ShareInv'
  BY <1>7, <1>8, <1>9 DEF ShareInv
<1>11. SharesOK
  BY <1>1, <1>5, AddShare, Threads
<1>12. task[Hub].pc \in Still
  BY <1>2 DEF Still
<1> QED BY <1>1, <1>4, <1>10, <1>11, <1>12, StillStep, BacklogSame, Threads

LEMMA AttachBudget ==
  ASSUME BudgetInv, Typed, NEW c \in Conns, NEW s \in Sessions, Attach(c, s)
  PROVE  BudgetInv'
<1>1. /\ conn[c].pc = "attach" /\ Unlocked /\ sess[s].sink = "new" /\ Channel(c)
      /\ sess' = [sess EXCEPT ![s] = [sink |-> "live", conn |-> c, login |-> conn[c].login]]
      /\ conn' = [conn EXCEPT ![c].pc = "up", ![c].sess = s]
      /\ UNCHANGED <<task, backlog>>
  BY DEF Attach, At
<1>2. conn \in [Conns -> Conn] /\ sess \in [Sessions -> Sess]
  BY DEF Typed
<1>3. conn'[c].pc = "up" /\ \A d \in Conns : d # c => conn'[d] = conn[d]
  BY <1>1, <1>2 DEF Conn
<1>4. sess'[s].sink = "live" /\ \A x \in Sessions : x # s => sess'[x] = sess[x]
  BY <1>1, <1>2
<1>5. ~Buffered(s)' /\ \A x \in Sessions : x # s => (Buffered(x)' <=> Buffered(x))
  BY <1>4 DEF Buffered
<1>6. Drops(s)
  BY <1>1 DEF Drops
<1> QED BY <1>1, <1>3, <1>5, <1>6, ChannelShares

LEMMA ResumeBudget ==
  ASSUME BudgetInv, Typed, IInv, NEW c \in Conns, Resume(c)
  PROVE  BudgetInv'
<1>1. PICK s : s = conn[c].sess
  OBVIOUS
<1>2. conn[c].pc = "resume" /\ Unlocked /\ UNCHANGED backlog
  BY DEF Resume, At
<1>3. s \in Sessions
  BY <1>1, <1>2 DEF IInv, ResumeInv, Resuming
<1>4. conn \in [Conns -> Conn] /\ sess \in [Sessions -> Sess]
  BY DEF Typed
<1>5. CASE /\ sess' = [sess EXCEPT ![s].sink = "live", ![s].conn = c]
           /\ To(c, "up") /\ Channel(c) /\ Drops(s)
  <2>1. conn'[c].pc = "up" /\ \A d \in Conns : d # c => conn'[d] = conn[d]
    BY <1>4, <1>5 DEF Conn, To
  <2>2. sess'[s].sink = "live" /\ \A x \in Sessions : x # s => sess'[x] = sess[x]
    BY <1>3, <1>4, <1>5 DEF Sess
  <2>3. ~Buffered(s)' /\ \A x \in Sessions : x # s => (Buffered(x)' <=> Buffered(x))
    BY <2>2 DEF Buffered
  <2> QED BY <1>2, <1>3, <1>5, <2>1, <2>3, ChannelShares
<1>6. CASE To(c, "close") /\ UNCHANGED <<sess, budgetVars>>
  <2>1. \A d \in Conns : d # c => conn'[d] = conn[d]
    BY <1>4, <1>6 DEF To
  <2> QED BY <1>2, <1>6, <2>1, PassingStep
<1> QED BY <1>1, <1>5, <1>6 DEF Resume, Drops

LEMMA LoseBudget ==
  ASSUME BudgetInv, Typed, NEW c \in Conns, Lose(c)
  PROVE  BudgetInv'
<1>1. PICK s : s = conn[c].sess
  OBVIOUS
<1>2. /\ conn[c].pc = "up" /\ task[c] = Idle /\ Unlocked /\ To(c, "close")
      /\ UNCHANGED <<held, own, queue, task, backlog>>
  BY DEF Lose, At
<1>3. conn \in [Conns -> Conn] /\ sess \in [Sessions -> Sess]
  BY DEF Typed
<1>4. conn'[c].pc = "close" /\ \A d \in Conns : d # c => conn'[d] = conn[d]
  BY <1>2, <1>3 DEF To, Conn
<1>5. /\ task[Hub].pc = "idle" /\ task[Hub].pc \notin Dropping
      /\ \A x \in Sessions : x \in on <=> Buffered(x)
  BY <1>2, UnlockedFacts
<1>6. /\ \A x \in Conns \cup {Backlog} : x \in on' <=> x \in on
      /\ \A x \in Sessions : x \in on' <=> Buffered(x)'
      /\ SharesOK
  <2>1. CASE /\ Holds(c)
             /\ sess' = [sess EXCEPT ![s].conn = NoConn,
                           ![s].sink = IF @ = "lagged" THEN "broken" ELSE "buffering"]
             /\ shares' = shares + 1 /\ on' = on \cup {s}
    <3>1. s \in Sessions /\ ~Buffered(s)
      BY <1>1, <1>3, <2>1 DEF Holds, Conn, Buffered
    <3>2. s \notin on /\ s \in Shares /\ s \notin Conns /\ s # Backlog
      BY <1>5, <3>1, Threads, MoreConstants
    <3>3. /\ sess'[s].sink \in {"broken", "buffering"}
          /\ \A x \in Sessions : x # s => sess'[x] = sess[x]
      BY <1>3, <2>1, <3>1 DEF Sess
    <3>4. Buffered(s)' /\ \A x \in Sessions : x # s => (Buffered(x)' <=> Buffered(x))
      BY <3>3 DEF Buffered
    <3> QED BY <1>5, <2>1, <3>2, <3>4, AddShare
  <2>2. CASE /\ Holds(c)
             /\ sess' = [sess EXCEPT ![s].conn = NoConn, ![s].sink = "gone"]
             /\ UNCHANGED <<shares, on>>
    <3>1. s \in Sessions /\ ~Buffered(s)
      BY <1>1, <1>3, <2>2 DEF Holds, Conn, Buffered
    <3>2. sess'[s].sink = "gone" /\ \A x \in Sessions : x # s => sess'[x] = sess[x]
      BY <1>3, <2>2, <3>1 DEF Sess
    <3>3. \A x \in Sessions : Buffered(x)' <=> Buffered(x)
      BY <3>1, <3>2 DEF Buffered
    <3> QED BY <1>5, <2>2, <3>3, SharesSame
  <2>3. CASE UNCHANGED <<sess, shares, on>>
    BY <1>5, <2>3, SharesSame DEF Buffered
  <2> QED BY <1>1, <2>1, <2>2, <2>3 DEF Lose
<1>7. ASSUME NEW d \in Conns PROVE ConnShare(d)'
  <2>1. d \in on' <=> d \in on
    BY <1>6
  <2>2. CASE d = c
    <3>1. task'[d].pc \notin Dropping /\ task'[d].pc \notin Giving /\ task'[Hub].pc = "idle"
      BY <1>2, <1>5, <2>2, IdleFacts DEF Dropping, Giving
    <3> QED BY <1>4, <2>2, <3>1 DEF ConnShare
  <2>3. CASE d # c
    BY <1>2, <1>4, <2>1, <2>3, ConnShareKept
  <2> QED BY <2>2, <2>3
<1>8. ASSUME NEW x \in Sessions PROVE SessShare(x)'
  BY <1>2, <1>5, <1>6 DEF SessShare, Buffered
<1>9. BacklogShare'
  BY <1>2, <1>6, BacklogShareKept
<1>10. ShareInv'
  BY <1>7, <1>8, <1>9 DEF ShareInv
<1> QED BY <1>2, <1>6, <1>10, NoMove, BacklogSame

LEMMA CloseQueueBudget ==
  ASSUME BudgetInv, Typed, NEW c \in Conns, CloseQueue(c)
  PROVE  BudgetInv'
<1>1. /\ conn[c].pc = "close" /\ To(c, "drop")
      /\ IF c \in on THEN Begin(c, "drop", c, 0, "idle") ELSE UNCHANGED task
      /\ UNCHANGED <<held, shares, own, on, queue, sess, backlog>>
  BY DEF CloseQueue, At
<1>2. conn'[c].pc = "drop" /\ \A d \in Conns : d # c => conn'[d] = conn[d]
  BY <1>1 DEF To, Typed, Conn
<1>3. ~(task[Hub].pc # "idle" /\ task[Hub].share = c)
  BY <1>1 DEF BudgetInv, ShareInv, ConnShare
<1>4. task[c].pc = "idle"
  <2>1. task[c].pc \notin Dropping /\ task[c].pc \notin Giving
    BY <1>1 DEF BudgetInv, ShareInv, ConnShare
  <2> QED BY <2>1, MoreConstants DEF BudgetInv, TaskInv, UserOf
<1>5. c \in Tasks /\ c \in Shares /\ c # Hub /\ c \notin Writers /\ c \notin Enqueuers
  BY Threads, MoreConstants
<1>6. task[c].pc \in Still /\ task[c].pc \notin Dropping /\ task[c].pc \notin Giving
  BY <1>4 DEF Still, Dropping, Giving
<1>7. SharesOK /\ backlog' \in [lagging : BOOLEAN, closed : BOOLEAN]
  BY <1>1, SharesSame, BacklogSame
<1>8. ASSUME \A u \in Tasks : u # c => task'[u] = task[u], ConnShare(c)' PROVE ShareInv'
  <2>1. ASSUME NEW d \in Conns PROVE ConnShare(d)'
    <3>1. CASE d = c
      BY <1>8, <3>1
    <3>2. CASE d # c
      BY <1>1, <1>2, <1>5, <1>8, <3>2, ConnShareKept, Threads
    <3> QED BY <3>1, <3>2
  <2>2. ASSUME NEW x \in Sessions PROVE SessShare(x)'
    BY <1>1, <1>5, <1>8, SessShareKept, Threads DEF Buffered
  <2>3. BacklogShare'
    BY <1>1, <1>5, <1>8, BacklogShareKept, Threads
  <2> QED BY <2>1, <2>2, <2>3 DEF ShareInv
<1>9. CASE c \in on
  <2>1. PICK k : /\ k \in TaskRec /\ k.pc = "drop" /\ k.share = c /\ TaskAt(c, k)
                 /\ task' = [task EXCEPT ![c] = k]
    BY <1>1, <1>5, <1>9, BeginFacts, Threads DEF Taking
  <2>2. UserOf(c, k) /\ k.pc \in Still /\ k.pc \in Dropping /\ k.pc \notin Giving
    BY <2>1 DEF UserOf, Still, Dropping, Giving
  <2>3. task'[c] = k /\ \A u \in Tasks : u # c => task'[u] = task[u]
    BY <1>5, <2>1, ThreadAt
  <2>4. ConnShare(c)'
    BY <1>1, <1>2, <1>3, <1>5, <1>9, <2>2, <2>3, Threads DEF ConnShare
  <2>5. ShareInv'
    BY <1>8, <2>3, <2>4
  <2> QED BY <1>1, <1>5, <1>6, <1>7, <2>1, <2>2, <2>5, StillStep
<1>10. CASE c \notin on
  <2>1. ConnShare(c)'
    BY <1>1, <1>2, <1>3, <1>6, <1>10 DEF ConnShare
  <2>2. ShareInv'
    BY <1>1, <1>8, <1>10, <2>1
  <2> QED BY <1>1, <1>7, <1>10, <2>2, NoMove
<1> QED BY <1>9, <1>10

LEMMA BacklogEndsStep ==
  ASSUME BudgetInv, NEW t \in Writers, BacklogEnds(t) PROVE BudgetInv'
<1>1. /\ Backlog \in on /\ \A u \in Writers \cup Enqueuers : task[u] = Idle
      /\ Begin(t, "drop", Backlog, 0, "idle")
      /\ UNCHANGED <<held, shares, own, on, queue, conn, sess, backlog>>
  BY DEF BacklogEnds
<1>2. t \in Tasks /\ Backlog \in Shares /\ t # Hub /\ t \notin Conns /\ t \notin Enqueuers
  BY Threads, MoreConstants
<1>3. PICK k : /\ k \in TaskRec /\ k.pc = "drop" /\ k.share = Backlog /\ TaskAt(t, k)
               /\ task' = [task EXCEPT ![t] = k]
  BY <1>1, <1>2, BeginFacts, Threads DEF Taking
<1>4. UserOf(t, k) /\ k.pc \in Still
  BY <1>3 DEF UserOf, Still, Dropping
<1>5. task'[t] = k /\ \A u \in Tasks : u # t => task'[u] = task[u]
  BY <1>2, <1>3, ThreadAt
<1>6. ASSUME NEW d \in Conns PROVE ConnShare(d)'
  BY <1>1, <1>2, <1>5, ConnShareKept, Threads
<1>7. ASSUME NEW x \in Sessions PROVE SessShare(x)'
  BY <1>1, <1>2, <1>5, SessShareKept, Threads DEF Buffered
<1>8. BacklogShare'
  <2>1. \A e \in Enqueuers : task'[e].pc = "idle"
    BY <1>1, <1>2, <1>5, Threads, IdleFacts
  <2> QED BY <1>1, <2>1 DEF BacklogShare
<1>9. ShareInv'
  BY <1>6, <1>7, <1>8 DEF ShareInv
<1>10. task[t].pc \in Still
  BY <1>1, IdleFacts DEF Still
<1> QED BY <1>1, <1>2, <1>3, <1>4, <1>9, <1>10, StillStep, SharesSame, BacklogSame

-----------------------------------------------------------------------------
LEMMA UntouchedStep ==
  ASSUME BudgetInv, UNCHANGED <<budgetVars, conn, sess, backlog>> PROVE BudgetInv'
<1>1. UNCHANGED <<held, shares, own, on, queue, task>> /\ UNCHANGED <<conn, sess, backlog>>
  BY DEF budgetVars
<1>2. ShareInv'
  BY <1>1 DEF BudgetInv, ShareInv, ConnShare, SessShare, BacklogShare
<1> QED BY <1>1, <1>2, NoMove, SharesSame, BacklogSame

LEMMA BudgetNext ==
  ASSUME BudgetInv, Typed, IInv, HubInv, [Next]_vars PROVE BudgetInv'
<1>1. ASSUME NEW c \in Conns, ConnStep(c) PROVE BudgetInv'
  BY <1>1, PassingSteps, AttachBudget, ResumeBudget, LoseBudget, RecvStep, CloseQueueBudget
     DEF ConnStep
<1>2. ASSUME NEW s \in Sessions,
             EndSession(s) \/ PushFull(s) \/ LoseSealed(s) \/ \E w \in Weights : Push(s, w)
      PROVE  BudgetInv'
  BY <1>2, EndSessionBudget, PushFullStep, LoseSealedStep, PushStep
<1>3. ASSUME NEW e \in Enqueuers, Enqueued(e) \/ \E w \in Weights : Enqueue(e, w)
      PROVE  BudgetInv'
  BY <1>3, EnqueuedStep, EnqueueStep
<1>4. ASSUME NEW t \in Writers, Write(t) \/ WriterStops(t) \/ BacklogEnds(t)
      PROVE  BudgetInv'
  BY <1>4, WriteStep, WriterStopsStep, BacklogEndsStep
<1>5. CASE Refill
  BY <1>5, UntouchedStep DEF Refill
<1>6. CASE UNCHANGED vars
  BY <1>6, UntouchedStep DEF vars
<1> QED BY <1>1, <1>2, <1>3, <1>4, <1>5, <1>6, PushedStep, RefusedStep, BudgetStepKeeps DEF Next

LEMMA BudgetStarts == Init => BudgetInv
<1> SUFFICES ASSUME Init PROVE BudgetInv
  OBVIOUS
<1>1. /\ held = 0 /\ shares = Cardinality({Backlog}) /\ on = {Backlog}
      /\ own = [s \in Shares |-> 0] /\ queue = [s \in Shares |-> <<>>]
      /\ task = [t \in Tasks |-> Idle] /\ conn = [c \in Conns |-> Gone]
      /\ sess = [s \in Sessions |-> [sink |-> "new", conn |-> NoConn, login |-> NoLogin]]
      /\ backlog = [lagging |-> FALSE, closed |-> FALSE]
  BY DEF Init, BudgetInit
<1>2. IsFiniteSet(on) /\ Cardinality(on) = 1
  BY <1>1, FS_Singleton
<1>3. QueueTyped
  <2>1. /\ task \in [Tasks -> TaskRec] /\ on \subseteq Shares /\ shares \in Nat
    BY <1>1, <1>2, IdleFacts, Threads
  <2>2. queue \in [Shares -> Seq(Weights)]
    BY <1>1
  <2> QED BY <1>1, <1>2, <2>1, <2>2 DEF QueueTyped
<1>4. TaskInv
  BY <1>1, IdleFacts DEF TaskInv
<1>5. ShareInv
  <2>1. \A t \in Tasks : /\ task[t].pc = "idle" /\ task[t].pc \notin Dropping
                         /\ task[t].pc \notin Giving
    BY <1>1, IdleFacts DEF Dropping, Giving
  <2>2. \A s \in Sessions : s \notin on /\ sess[s].sink = "new"
    BY <1>1, MoreConstants
  <2>3. \A c \in Conns : c \notin on
    BY <1>1, MoreConstants
  <2> QED BY <2>1, <2>2, <2>3, Threads DEF ShareInv, ConnShare, SessShare, BacklogShare
<1>6. CardInv
  BY <1>1 DEF CardInv
<1>7. \A s \in Shares : Total(queue[s]) = 0
  BY <1>1, TotalEmpty
<1>8. ASSUME NEW n, \A i \in DOMAIN n : n[i] = 0 PROVE IsFiniteSet(Units(n)) /\ Total(n) = 0
  BY <1>8, TotalZero
<1>9. IsFiniteSet(Units(Loads)) /\ Total(Loads) = 0
  BY <1>7, <1>8 DEF Loads
<1>10. IsFiniteSet(Units(OnServer)) /\ Total(OnServer) = 0
  BY <1>1, <1>8, IdleFacts DEF OnServer, InServer
<1>11. ASSUME NEW s \in Shares
       PROVE  /\ IsFiniteSet(Units(OnShare(s))) /\ Total(OnShare(s)) = 0
              /\ Total(Kept(s)) = 0
  BY <1>1, <1>8, IdleFacts DEF OnShare, InOwn, Kept, Granted
<1>12. CountInv
  BY <1>1, <1>7, <1>9, <1>10, <1>11 DEF CountInv
<1>13. BoundInv
  BY <1>7, <1>11, BudgetAssumption DEF BoundInv
<1> QED BY <1>3, <1>4, <1>5, <1>6, <1>12, <1>13 DEF BudgetInv

\* Share::take, give and drop: in every reachable state each share has the
\* threads that may use it and no other, whoever drops one is alone with it,
\* and every counter is what the queues hold and the threads have in hand.
THEOREM BudgetInvariant == Spec => []BudgetInv
<1>1. Init => BudgetInv
  BY BudgetStarts
<1>2. BudgetInv /\ (Typed /\ IInv /\ HubInv) /\ [Next]_vars => BudgetInv'
  BY BudgetNext
<1> QED BY <1>1, <1>2, AdmissionInvariant, PTL DEF Spec

\* However the threads interleave, no refusal, give or drop leaves bytes
\* behind in a counter or gives back too much.
THEOREM BudgetAlwaysCounted == Spec => []BudgetCounted
<1>1. BudgetInv => BudgetCounted
  BY DEF BudgetInv, CountInv, CardInv, BudgetCounted, Loads
<1> QED BY <1>1, BudgetInvariant, PTL

\* Share::take: whichever takes of a share race, its queue stays within its
\* own bound.
THEOREM QueueStaysBounded == Spec => []QueueBounded
<1>1. ASSUME BudgetInv, NEW s \in Shares PROVE Total(queue[s]) <= OwnBound[s]
  <2>1. Total(queue[s]) + Total(Kept(s)) <= OwnBound[s]
    BY <1>1 DEF BudgetInv, BoundInv
  <2>2. Total(Kept(s)) \in Nat
    BY <1>1, KeptLess DEF BudgetInv, QueueTyped, CountInv
  <2>3. Total(queue[s]) \in Nat /\ OwnBound[s] \in Nat
    <3>1. queue[s] \in Seq(Nat)
      BY <1>1, WeightsNat DEF BudgetInv, QueueTyped
    <3> QED BY <3>1, SeqFinite, BudgetAssumption
  <2> QED BY ONLY <2>1, <2>2, <2>3
<1>2. BudgetInv => QueueBounded
  BY <1>1 DEF QueueBounded
<1> QED BY <1>2, BudgetInvariant, PTL

-----------------------------------------------------------------------------
(* Types, with the limits. *)

Limits ==
  /\ \A a \in Addrs : addrLive[a] <= PerAddr
  /\ \A n \in Wides : wideLive[n] <= PerWide
  /\ \A a \in Addrs : portLive[a] <= PortPerAddr
  /\ \A k \in Addrs \X Logins : nameTok[k] <= NameBurst
  /\ \A a \in Addrs : addrTok[a] <= AddrBurst

\* What a step may do to a gate or a bucket.
LiveMove(a) == Admit(a) \/ ReleaseAddr(a) \/ UNCHANGED <<addrLive, wideLive>>
PortMove(a) == PortAdmit(a) \/ (\E h \in BOOLEAN : PortRelease(a, h)) \/ UNCHANGED portLive
NameMove(k) == TakeName(k) \/ FillName(k) \/ UNCHANGED nameTok
AddrMove(a) == TakeAddr(a) \/ FillAddr(a) \/ UNCHANGED addrTok

LEMMA LimitTypes ==
  PerAddr \in Nat /\ PerWide \in Nat /\ PortPerAddr \in Nat /\ NameBurst \in Nat /\ AddrBurst \in Nat
BY ConnGateAssumption

LEMMA LimitsKept ==
  ASSUME Typed, Limits, \E a : LiveMove(a), \E a : PortMove(a), \E k : NameMove(k),
         \E a : AddrMove(a)
  PROVE  Limits'
<1>1. PICK a, b, k, d : LiveMove(a) /\ PortMove(b) /\ NameMove(k) /\ AddrMove(d)
  OBVIOUS
<1>2. ASSUME NEW x \in Addrs PROVE addrLive'[x] <= PerAddr
  <2>1. addrLive[x] \in Nat /\ addrLive[x] <= PerAddr /\ addrLive \in [Addrs -> Nat]
    BY DEF Typed, Limits
  <2>2. \/ addrLive'[x] = addrLive[x]
        \/ addrLive'[x] = Less(addrLive[x])
        \/ addrLive'[x] = addrLive[x] + 1 /\ addrLive[x] < PerAddr
    BY <1>1, <2>1 DEF LiveMove, Admit, ReleaseAddr
  <2> QED BY <2>1, <2>2, LimitTypes DEF Less
<1>3. ASSUME NEW n \in Wides PROVE wideLive'[n] <= PerWide
  <2>1. wideLive[n] \in Nat /\ wideLive[n] <= PerWide /\ wideLive \in [Wides -> Nat]
    BY DEF Typed, Limits
  <2>2. \/ wideLive'[n] = wideLive[n]
        \/ wideLive'[n] = Less(wideLive[n])
        \/ wideLive'[n] = wideLive[n] + 1 /\ wideLive[n] < PerWide
    BY <1>1, <2>1 DEF LiveMove, Admit, ReleaseAddr
  <2> QED BY <2>1, <2>2, LimitTypes DEF Less
<1>4. ASSUME NEW x \in Addrs PROVE portLive'[x] <= PortPerAddr
  <2>1. portLive[x] \in Nat /\ portLive[x] <= PortPerAddr /\ portLive \in [Addrs -> Nat]
    BY DEF Typed, Limits
  <2>2. \/ portLive'[x] = portLive[x]
        \/ portLive'[x] = Less(portLive[x])
        \/ portLive'[x] = portLive[x] + 1 /\ portLive[x] < PortPerAddr
    BY <1>1, <2>1 DEF PortMove, PortAdmit, PortRelease
  <2> QED BY <2>1, <2>2, LimitTypes DEF Less
<1>5. ASSUME NEW x \in Addrs \X Logins PROVE nameTok'[x] <= NameBurst
  <2>1. nameTok[x] \in Nat /\ nameTok[x] <= NameBurst /\ nameTok \in [Addrs \X Logins -> Nat]
    BY DEF Typed, Limits
  <2>2. \/ nameTok'[x] = nameTok[x]
        \/ nameTok'[x] = nameTok[x] - 1
        \/ nameTok'[x] = Fuller(nameTok[x], NameBurst)
    BY <1>1, <2>1 DEF NameMove, TakeName, FillName
  <2> QED BY <2>1, <2>2, LimitTypes DEF Fuller
<1>6. ASSUME NEW x \in Addrs PROVE addrTok'[x] <= AddrBurst
  <2>1. addrTok[x] \in Nat /\ addrTok[x] <= AddrBurst /\ addrTok \in [Addrs -> Nat]
    BY DEF Typed, Limits
  <2>2. \/ addrTok'[x] = addrTok[x]
        \/ addrTok'[x] = addrTok[x] - 1
        \/ addrTok'[x] = Fuller(addrTok[x], AddrBurst)
    BY <1>1, <2>1 DEF AddrMove, TakeAddr, FillAddr
  <2> QED BY <2>1, <2>2, LimitTypes DEF Fuller
<1> QED BY <1>2, <1>3, <1>4, <1>5, <1>6 DEF Limits

\* A step that leaves the gates and the buckets alone.
LEMMA LimitsSame == ASSUME Limits, UNCHANGED gateVars PROVE Limits'
BY DEF Limits, gateVars, liveVars, rateVars

LEMMA ConnLimits ==
  ASSUME Typed, Limits, NEW c \in Conns, ConnStep(c) PROVE Limits'
<1>1. conn[c].port \in BOOLEAN
  BY DEF Typed, Conn
<1>2. \E a : LiveMove(a)
  BY DEF LiveMove, liveVars, gateVars, ConnStep, Accept, Upgrade, Identified, Unidentified, HangUp,
         LoginStart, LoginTakeAddr, LoginUnname, Verdict, RefundName, RefundAddr,
         AdmitAccount, ResumeStart, Attach, AdmitResume, Gate, MoveToAccount, Uncarry,
         Resume, Recv, Lose, CloseQueue, DropPlace, ReleasePlace, DropPort
<1>3. \E a : PortMove(a)
  BY <1>1 DEF PortMove, gateVars, ConnStep, Accept, Upgrade, Identified, Unidentified, HangUp,
         LoginStart, LoginTakeAddr, LoginUnname, Verdict, RefundName, RefundAddr,
         AdmitAccount, ResumeStart, Attach, AdmitResume, Uncarry,
         Resume, Recv, Lose, CloseQueue, DropPlace, DropPort
<1>4. \E k : NameMove(k)
  BY DEF NameMove, rateVars, gateVars, ConnStep, Accept, Upgrade, Identified, Unidentified, HangUp,
         LoginStart, LoginTakeAddr, LoginUnname, Verdict, RefundName, RefundAddr,
         AdmitAccount, ResumeStart, Attach, AdmitResume, Uncarry,
         Resume, Recv, Lose, CloseQueue, DropPlace, DropPort
<1>5. \E a : AddrMove(a)
  BY DEF AddrMove, rateVars, gateVars, ConnStep, Accept, Upgrade, Identified, Unidentified, HangUp,
         LoginStart, LoginTakeAddr, LoginUnname, Verdict, RefundName, RefundAddr,
         AdmitAccount, ResumeStart, Attach, AdmitResume, Uncarry,
         Resume, Recv, Lose, CloseQueue, DropPlace, DropPort
<1> QED BY <1>2, <1>3, <1>4, <1>5, LimitsKept

LEMMA NextLimits == ASSUME Typed, Limits, [Next]_vars PROVE Limits'
<1>1. CASE Refill
  <2>1. (\E a : LiveMove(a)) /\ (\E a : PortMove(a))
    BY <1>1 DEF Refill, LiveMove, PortMove, liveVars
  <2>2. (\E k : NameMove(k)) /\ (\E a : AddrMove(a))
    BY <1>1 DEF Refill, NameMove, AddrMove
  <2> QED BY <2>1, <2>2, LimitsKept
<1>2. ASSUME NEW s \in Sessions,
             EndSession(s) \/ PushFull(s) \/ LoseSealed(s) \/ \E w \in Weights : Push(s, w)
      PROVE  UNCHANGED gateVars
  BY <1>2 DEF EndSession, PushFull, LoseSealed, Push
<1>3. ASSUME Pushed \/ Refused \/ BudgetSteps PROVE UNCHANGED gateVars
  BY <1>3 DEF Pushed, Refused, BudgetSteps
<1>4. ASSUME NEW e \in Enqueuers, Enqueued(e) \/ \E w \in Weights : Enqueue(e, w)
      PROVE  UNCHANGED gateVars
  BY <1>4 DEF Enqueued, Enqueue
<1>5. ASSUME NEW t \in Writers, Write(t) \/ WriterStops(t) \/ BacklogEnds(t)
      PROVE  UNCHANGED gateVars
  BY <1>5 DEF Write, WriterStops, BacklogEnds
<1>6. CASE UNCHANGED vars
  BY <1>6, LimitsSame DEF vars
<1> QED BY <1>1, <1>2, <1>3, <1>4, <1>5, <1>6, ConnLimits, LimitsSame DEF Next

\* ConnGate, RateGate and QueueBudget: every count stays a natural number
\* within its limit, and what is queued, held and in hand is of its kind.
THEOREM AdmissionTyped == Spec => []TypeOK
<1>1. Init => Limits
  BY LimitTypes DEF Init, GateInit, Limits
<1>2. Limits /\ (Typed /\ IInv /\ HubInv) /\ [Next]_vars => Limits'
  BY NextLimits
<1>3. Limits /\ Typed /\ BudgetInv => TypeOK
  <2> SUFFICES ASSUME Limits, Typed, BudgetInv PROVE TypeOK
    OBVIOUS
  <2>1. /\ addrLive \in [Addrs -> 0..PerAddr] /\ wideLive \in [Wides -> 0..PerWide]
        /\ acctLive \in [Logins -> Nat] /\ portLive \in [Addrs -> 0..PortPerAddr]
    BY LimitTypes DEF Typed, Limits
  <2>2. /\ nameTok \in [Addrs \X Logins -> 0..NameBurst]
        /\ addrTok \in [Addrs -> 0..AddrBurst]
    BY LimitTypes DEF Typed, Limits
  <2>3. /\ held \in Nat /\ shares \in Nat /\ own \in [Shares -> Nat]
        /\ on \subseteq Shares /\ queue \in [Shares -> Seq(Weights)]
        /\ backlog \in [lagging : BOOLEAN, closed : BOOLEAN]
    BY DEF BudgetInv, QueueTyped
  <2>4. ASSUME NEW t \in Tasks
        PROVE  /\ task[t].pc \in TaskPcs /\ task[t].share \in Shares \cup {NoShare}
               /\ task[t].w \in Nat /\ task[t].mine \in Nat /\ task[t].all \in Nat
    <3>1. task[t] \in TaskRec
      BY DEF BudgetInv, QueueTyped
    <3> QED BY <3>1 DEF TaskRec
  <2>5. ASSUME NEW c \in Conns
        PROVE  /\ conn[c].pc \in Pcs
               /\ conn[c].addr \in Addrs \cup {NoAddr}
               /\ conn[c].login \in Logins \cup {NoLogin}
               /\ conn[c].place \in {"none", "addr", "account"} /\ conn[c].port \in BOOLEAN
               /\ conn[c].slack \in {0, 1} /\ conn[c].sess \in Sessions \cup {NoSession}
    <3>1. conn[c] \in Conn
      BY DEF Typed
    <3> QED BY <3>1 DEF Conn, Places
  <2>6. ASSUME NEW s \in Sessions
        PROVE  /\ sess[s].sink \in {"new", "live", "lagged", "buffering", "broken", "gone"}
               /\ sess[s].conn \in Conns \cup {NoConn}
               /\ sess[s].login \in Logins \cup {NoLogin}
    <3>1. sess[s] \in Sess
      BY DEF Typed
    <3> QED BY <3>1 DEF Sess, Sinks
  <2> QED BY <2>1, <2>2, <2>3, <2>4, <2>5, <2>6 DEF TypeOK
<1> QED BY <1>1, <1>2, <1>3, AdmissionInvariant, BudgetInvariant, PTL DEF Spec

=============================================================================
