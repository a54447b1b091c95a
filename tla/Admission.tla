----------------------------- MODULE Admission -----------------------------
(***************************************************************************)
(* What a connection holds of the server's limits, from its socket to its  *)
(* end: a place on the ng port, a place in the connection gate that moves  *)
(* from its address to its account, tokens for the password it tries, and  *)
(* a share of the queue budget for the session it carries.                 *)
(*                                                                         *)
(*   idle -> http -> upgrade -> open                                       *)
(*   login:  open -> attempt -> auth -> refund -> readdr -> admit          *)
(*                -> uncarry -> attach -> up                               *)
(*   resume: open -> gate -> uncarry -> resume -> up                       *)
(*   end:    close -> drop -> unport -> idle                               *)
(*                                                                         *)
(* A connection is a task and its gates, its rate buckets and the roster   *)
(* are separate mutexes, so each arrow is a step.  The roster's lock is    *)
(* held by Hub from the start of a push to its end; an action that takes   *)
(* the lock waits for it.  One backlog of a classic connection draws on    *)
(* the budget beside them, from threads that hold no lock.                 *)
(***************************************************************************)
EXTENDS ConnGate, QueueBudget

CONSTANTS
  Conns, Sessions, NoSession, NoConn, NoAddr, NoLogin,
  Hub,        \* the thread that holds the roster's lock
  Backlog,    \* the share of the classic connection
  Writers,    \* its writer_task, alone
  Enqueuers,  \* the tasks that enqueue on it
  LiveCap,    \* LIVE_QUEUE_CAP
  BufferCap,  \* OUTBOX_BUFFER_CAP
  Plans       \* bound: what a behaviour may have of connections, of items
              \* for the queues (or ends of the backlog), and of refills

ASSUME AdmissionAssumption ==
  /\ Shares = Conns \cup Sessions \cup {Backlog}
  /\ Tasks = Conns \cup {Hub} \cup Writers \cup Enqueuers
  /\ Hub \notin Conns \cup Writers \cup Enqueuers /\ Writers \cap Enqueuers = {}
  /\ Conns \cap (Writers \cup Enqueuers) = {} /\ \A t, u \in Writers : t = u
  /\ Conns \cap Sessions = {} /\ Backlog \notin Conns \cup Sessions
  /\ IsFiniteSet(Conns) /\ NoSession \notin Sessions /\ NoConn \notin Conns
  /\ NoAddr \notin Addrs /\ NoLogin \notin Logins
  /\ Plans \subseteq [conns : Nat, items : Nat, fills : Nat]

VARIABLES
  conn,     \* each connection task: where it is and what it holds
  sess,     \* each session's sink, account and connection
  backlog,  \* Backlog.lagging, and whether its writer has closed the queue
  left,     \* what is left of the behaviour's plan
  \* History, for GuessBound.
  wrong,    \* wrong guesses, by address and account name
  wrongFrom, \* and by address
  nameFills, addrFills  \* how often a bucket earned a token

guessVars == <<wrong, wrongFrom, nameFills, addrFills>>
vars == <<gateVars, budgetVars, conn, sess, backlog, left, guessVars>>

Gone == [pc |-> "idle", addr |-> NoAddr, login |-> NoLogin, place |-> "none",
         port |-> FALSE, refused |-> FALSE, slack |-> 0, sess |-> NoSession]

Init ==
  /\ GateInit
  /\ BudgetInit({Backlog})
  /\ conn = [c \in Conns |-> Gone]
  /\ sess = [s \in Sessions |-> [sink |-> "new", conn |-> NoConn, login |-> NoLogin]]
  /\ backlog = [lagging |-> FALSE, closed |-> FALSE]
  /\ left \in Plans
  /\ wrong = [k \in Addrs \X Logins |-> 0]
  /\ wrongFrom = [a \in Addrs |-> 0]
  /\ nameFills = [k \in Addrs \X Logins |-> 0]
  /\ addrFills = [a \in Addrs |-> 0]

At(c, pc) == conn[c].pc = pc
To(c, pc) == conn' = [conn EXCEPT ![c].pc = pc]
Key(c) == <<conn[c].addr, conn[c].login>>
Person(c) == conn[c].login \in Persons
Unlocked == task[Hub] = Idle

Spend(what) == left[what] > 0 /\ left' = [left EXCEPT ![what] = @ - 1]

-----------------------------------------------------------------------------
(* The socket (http.rs, limits.rs). *)

\* Gates::places; a trusted proxy's socket takes no place of an address.
Accept(c, a) ==
  /\ At(c, "idle") /\ Spend("conns")
  /\ \E direct \in BOOLEAN :
       /\ IF direct THEN PortAdmit(a) ELSE UNCHANGED portLive
       /\ conn' = [conn EXCEPT ![c] = [Gone EXCEPT !.pc = "http", !.addr = a,
                                                   !.port = direct]]
  /\ UNCHANGED <<liveVars, rateVars, budgetVars, sess, backlog, guessVars>>

\* upgrade: a place of the address, which carries the port's.  Refused, the
\* socket goes on speaking HTTP.
Upgrade(c) ==
  /\ At(c, "http") /\ Admit(conn[c].addr)
  /\ conn' = [conn EXCEPT ![c].pc = "upgrade", ![c].place = "addr"]
  /\ UNCHANGED <<portLive, rateVars, budgetVars, sess, backlog, left, guessVars>>

Identified(c) ==
  /\ At(c, "upgrade") /\ To(c, "open")
  /\ UNCHANGED <<gateVars, budgetVars, sess, backlog, left, guessVars>>

\* transport_identity refuses: the permit is dropped, the socket is not.
Unidentified(c) ==
  /\ At(c, "upgrade") /\ ReleaseAddr(conn[c].addr) /\ UNCHANGED acctLive
  /\ conn' = [conn EXCEPT ![c].pc = "http", ![c].place = "none"]
  /\ UNCHANGED <<portLive, rateVars, budgetVars, sess, backlog, left, guessVars>>

\* The client goes away, or says nothing in time, or something else first.
HangUp(c) ==
  /\ At(c, "http") \/ At(c, "upgrade") \/ At(c, "open")
  /\ To(c, "close")
  /\ UNCHANGED <<gateVars, budgetVars, sess, backlog, left, guessVars>>

-----------------------------------------------------------------------------
(* Login (handle_login, login_attempt). *)

\* A password tried at any login spends a token of the name's bucket.  An
\* empty one, or an identity, is not a guess; HangUp stands for its refusal.
LoginStart(c, l) ==
  /\ At(c, "open")
  /\ \/ /\ TakeName(<<conn[c].addr, l>>)
        /\ conn' = [conn EXCEPT ![c].pc = "attempt", ![c].login = l]
     \/ /\ nameTok[<<conn[c].addr, l>>] = 0
        /\ conn' = [conn EXCEPT ![c].pc = "close"] /\ UNCHANGED nameTok
     \/ /\ conn' = [conn EXCEPT ![c].pc = "admit", ![c].login = l]
        /\ UNCHANGED nameTok
  /\ UNCHANGED <<liveVars, portLive, addrTok, budgetVars, sess, backlog, left, guessVars>>

\* The address's own bucket; when it is empty the name's token goes back.
LoginTakeAddr(c) ==
  /\ At(c, "attempt")
  /\ \/ TakeAddr(conn[c].addr) /\ To(c, "auth")
     \/ /\ addrTok[conn[c].addr] = 0 /\ UNCHANGED addrTok
        /\ To(c, "unname")
  /\ UNCHANGED <<liveVars, portLive, nameTok, budgetVars, sess, backlog, left, guessVars>>

LoginUnname(c) ==
  /\ At(c, "unname") /\ FillName(Key(c)) /\ To(c, "close")
  /\ UNCHANGED <<liveVars, portLive, addrTok, budgetVars, sess, backlog, left, guessVars>>

\* authenticate, on a blocking thread: a wrong guess keeps its tokens, and
\* anything else, a refusal for another reason too, gets them back.
Verdict(c) ==
  /\ At(c, "auth")
  /\ \/ /\ wrong' = [wrong EXCEPT ![Key(c)] = @ + 1]
        /\ wrongFrom' = [wrongFrom EXCEPT ![conn[c].addr] = @ + 1]
        /\ To(c, "close")
     \/ /\ UNCHANGED <<wrong, wrongFrom>>
        /\ \E refused \in BOOLEAN :
             conn' = [conn EXCEPT ![c].pc = "refund", ![c].refused = refused]
  /\ UNCHANGED <<gateVars, budgetVars, sess, backlog, left, nameFills, addrFills>>

RefundName(c) ==
  /\ At(c, "refund") /\ FillName(Key(c)) /\ To(c, "readdr")
  /\ UNCHANGED <<liveVars, portLive, addrTok, budgetVars, sess, backlog, left, guessVars>>

RefundAddr(c) ==
  /\ At(c, "readdr") /\ FillAddr(conn[c].addr)
  /\ To(c, IF conn[c].refused THEN "close" ELSE "admit")
  /\ UNCHANGED <<liveVars, portLive, nameTok, budgetVars, sess, backlog, left, guessVars>>

-----------------------------------------------------------------------------
(* The account's place (Core::admit_account, Core::admit_resume). *)

\* The place moves, or the account refuses: it is full, or too fast.
Gate(c, slack, next) ==
  \/ /\ Room(conn[c].login, slack)
     /\ MoveToAccount(conn[c].addr, conn[c].login)
     /\ conn' = [conn EXCEPT ![c].pc = next, ![c].place = "account"]
  \/ UNCHANGED liveVars /\ To(c, "close")

\* A login asks for no slack, and a guest stays with its address.
AdmitAccount(c) ==
  /\ At(c, "admit")
  /\ \/ Person(c) /\ Gate(c, 0, "uncarry")
     \/ ~Person(c) /\ To(c, "attach") /\ UNCHANGED liveVars
  /\ UNCHANGED <<portLive, rateVars, budgetVars, sess, backlog, left, guessVars>>

\* A resume reads the session under the roster's lock: whose it is, and
\* whether a connection still holds it, in which case it may go one past
\* the cap.  A session that has gone is not the gate's business.
ResumeStart(c, s) ==
  /\ At(c, "open") /\ Unlocked /\ sess[s].sink # "new"
  /\ conn' = [conn EXCEPT ![c].sess = s,
       ![c].login = sess[s].login,
       ![c].slack = IF sess[s].sink \in {"live", "lagged"} THEN 1 ELSE 0,
       ![c].pc = IF sess[s].sink # "gone" /\ sess[s].login \in Persons
                 THEN "gate" ELSE "resume"]
  /\ UNCHANGED <<gateVars, budgetVars, sess, backlog, left, guessVars>>

AdmitResume(c) ==
  /\ At(c, "gate") /\ Gate(c, conn[c].slack, "uncarry")
  /\ UNCHANGED <<portLive, rateVars, budgetVars, sess, backlog, left, guessVars>>

\* The carried place on the port goes, under the port gate's own lock.
Uncarry(c) ==
  /\ At(c, "uncarry") /\ PortRelease(conn[c].addr, conn[c].port)
  /\ conn' = [conn EXCEPT ![c].port = FALSE,
       ![c].pc = IF conn[c].sess = NoSession THEN "attach" ELSE "resume"]
  /\ UNCHANGED <<liveVars, rateVars, budgetVars, sess, backlog, left, guessVars>>

-----------------------------------------------------------------------------
(* The session (roster.rs). *)

\* Events::channel makes the share of the connection's queue.
Channel(c) ==
  /\ shares' = shares + 1 /\ on' = on \cup {c}
  /\ UNCHANGED <<held, own, queue>>

Attach(c, s) ==
  /\ At(c, "attach") /\ Unlocked /\ sess[s].sink = "new"
  /\ sess' = [sess EXCEPT ![s] = [sink |-> "live", conn |-> c, login |-> conn[c].login]]
  /\ conn' = [conn EXCEPT ![c].pc = "up", ![c].sess = s]
  /\ Channel(c)
  /\ UNCHANGED <<gateVars, task, backlog, left, guessVars>>

\* resume_locked: the sink is the new connection's, and a buffer's share
\* goes with the buffer.  A session that has gone closes the connection.
Resume(c) ==
  LET s == conn[c].sess IN
  /\ At(c, "resume") /\ Unlocked
  /\ \/ /\ sess[s].sink # "gone"
        /\ sess' = [sess EXCEPT ![s].sink = "live", ![s].conn = c]
        /\ To(c, "up")
        /\ Channel(c)
        /\ IF sess[s].sink \in {"buffering", "broken"}
             THEN Begin(Hub, "drop", s, 0, "idle") ELSE UNCHANGED task
     \/ /\ sess[s].sink = "gone" /\ To(c, "close")
        /\ UNCHANGED <<sess, budgetVars>>
  /\ UNCHANGED <<gateVars, backlog, left, guessVars>>

Holds(c) == /\ conn[c].sess # NoSession
            /\ sess[conn[c].sess].conn = c
            /\ sess[conn[c].sess].sink \in {"live", "lagged"}

\* connection_lost_from: the session buffers, with a share of its own, or
\* ends if it may not be detached; one taken over is left alone.
Lose(c) ==
  LET s == conn[c].sess IN
  /\ At(c, "up") /\ task[c] = Idle /\ Unlocked
  /\ To(c, "close")
  /\ \/ /\ Holds(c)
        /\ sess' = [sess EXCEPT ![s].conn = NoConn,
             ![s].sink = IF @ = "lagged" THEN "broken" ELSE "buffering"]
        /\ shares' = shares + 1 /\ on' = on \cup {s}
     \/ /\ Holds(c)
        /\ sess' = [sess EXCEPT ![s].conn = NoConn, ![s].sink = "gone"]
        /\ UNCHANGED <<shares, on>>
     \/ ~Holds(c) /\ UNCHANGED <<sess, shares, on>>
  /\ UNCHANGED <<gateVars, held, own, queue, task, backlog, left, guessVars>>

\* end_session: a kick, a ban, the sweep of what stayed detached too long.
EndSession(s) ==
  /\ Unlocked /\ sess[s].sink \notin {"new", "gone"}
  /\ sess' = [sess EXCEPT ![s].sink = "gone", ![s].conn = NoConn]
  /\ IF sess[s].sink \in {"buffering", "broken"}
       THEN Begin(Hub, "drop", s, 0, "idle") ELSE UNCHANGED task
  /\ UNCHANGED <<gateVars, held, shares, own, on, queue, conn, backlog, left, guessVars>>

-----------------------------------------------------------------------------
(* The end of a connection: its locals, then its permit, then the place    *)
(* on the port that the permit carried.                                    *)

CloseQueue(c) ==
  /\ At(c, "close") /\ To(c, "drop")
  /\ IF c \in on THEN Begin(c, "drop", c, 0, "idle") ELSE UNCHANGED task
  /\ UNCHANGED <<gateVars, held, shares, own, on, queue, sess, backlog, left, guessVars>>

DropPlace(c) ==
  /\ At(c, "drop") /\ task[c] = Idle
  /\ ReleasePlace(conn[c].place, conn[c].addr, conn[c].login)
  /\ conn' = [conn EXCEPT ![c].pc = "unport", ![c].place = "none"]
  /\ UNCHANGED <<portLive, rateVars, budgetVars, sess, backlog, left, guessVars>>

DropPort(c) ==
  /\ At(c, "unport") /\ PortRelease(conn[c].addr, conn[c].port)
  /\ conn' = [conn EXCEPT ![c] = Gone]
  /\ UNCHANGED <<liveVars, rateVars, budgetVars, sess, backlog, left, guessVars>>

-----------------------------------------------------------------------------
(* The queues (Outbox::push, Events::took, enqueue, writer_task). *)

\* Whose share a push to the session draws on.
Sink(s) == IF sess[s].sink = "live" THEN sess[s].conn ELSE s

\* A full buffer breaks without asking the budget.
Push(s, w) ==
  /\ Unlocked /\ Spend("items")
  /\ \/ sess[s].sink = "live"
     \/ sess[s].sink = "buffering" /\ Len(queue[s]) < BufferCap
  /\ Begin(Hub, "take", Sink(s), w, "idle")
  /\ UNCHANGED <<gateVars, held, shares, own, on, queue, conn, sess, backlog, guessVars>>

\* Nothing partial is replayable: the buffer is emptied and given back.
Break(s) ==
  /\ sess' = [sess EXCEPT ![s].sink = "broken"]
  /\ queue' = [queue EXCEPT ![s] = <<>>]
  /\ Begin(Hub, "give", s, own[s], "idle")

PushFull(s) ==
  /\ Unlocked /\ Spend("items")
  /\ sess[s].sink = "buffering" /\ Len(queue[s]) >= BufferCap
  /\ Break(s)
  /\ UNCHANGED <<gateVars, held, shares, own, on, conn, backlog, guessVars>>

\* lose_sealed: a sealed message of a buffer becomes its placeholder and gives
\* back the difference, one message after the other.
LoseSealed(s) ==
  /\ Unlocked /\ sess[s].sink = "buffering"
  /\ \E i \in DOMAIN queue[s], w \in Weights :
       /\ w < queue[s][i]
       /\ queue' = [queue EXCEPT ![s] = [@ EXCEPT ![i] = w]]
       /\ Begin(Hub, "give", s, queue[s][i] - w, "idle")
  /\ UNCHANGED <<gateVars, held, shares, own, on, conn, sess, backlog, left, guessVars>>

\* try_send: a queue full by count gives back what it took, and lags.  A task
\* says it is gone before it drops its receiver, so no queue here is closed.
Pushed ==
  LET q == task[Hub].share IN
  /\ task[Hub].pc = "got"
  /\ IF q \in Conns /\ Len(queue[q]) >= LiveCap
       THEN Begin(Hub, "give", q, task[Hub].w, "over") /\ UNCHANGED queue
       ELSE /\ queue' = [queue EXCEPT ![q] = Append(@, task[Hub].w)]
            /\ task' = [task EXCEPT ![Hub] = Idle]
  /\ UNCHANGED <<gateVars, held, shares, own, on, conn, sess, backlog, left, guessVars>>

Refused ==
  LET q == task[Hub].share IN
  /\ task[Hub].pc = "over"
  /\ \/ /\ q \in Conns
        /\ sess' = [s \in Sessions |-> IF sess[s].sink = "live" /\ sess[s].conn = q
                                       THEN [sess[s] EXCEPT !.sink = "lagged"] ELSE sess[s]]
        /\ task' = [task EXCEPT ![Hub] = Idle] /\ UNCHANGED queue
     \/ q \in Sessions /\ Break(q)
  /\ UNCHANGED <<gateVars, held, shares, own, on, conn, backlog, left, guessVars>>

\* Events::recv: the connection takes an event and gives its bytes back.
Recv(c) ==
  /\ At(c, "up") /\ task[c] = Idle /\ queue[c] # <<>>
  /\ queue' = [queue EXCEPT ![c] = Tail(@)]
  /\ Begin(c, "give", c, Head(queue[c]), "idle")
  /\ UNCHANGED <<gateVars, held, shares, own, on, conn, sess, backlog, left, guessVars>>

\* enqueue, on any task of the classic connection.
Enqueue(e, w) ==
  /\ task[e] = Idle /\ Spend("items") /\ ~backlog.lagging
  /\ Backlog \in on /\ \A t \in Writers : task[t].pc \notin {"drop", "uncount"}
  /\ Begin(e, "take", Backlog, w, "idle")
  /\ UNCHANGED <<gateVars, held, shares, own, on, queue, conn, sess, backlog, guessVars>>

Enqueued(e) ==
  /\ \/ /\ task[e].pc = "got" /\ ~backlog.closed
        /\ queue' = [queue EXCEPT ![Backlog] = Append(@, task[e].w)]
        /\ task' = [task EXCEPT ![e] = Idle] /\ UNCHANGED backlog
     \/ /\ task[e].pc = "got" /\ backlog.closed
        /\ Begin(e, "give", Backlog, task[e].w, "idle")
        /\ UNCHANGED <<queue, backlog>>
     \/ /\ task[e].pc = "over"
        /\ backlog' = [backlog EXCEPT !.lagging = TRUE]
        /\ task' = [task EXCEPT ![e] = Idle] /\ UNCHANGED queue
  /\ UNCHANGED <<gateVars, held, shares, own, on, conn, sess, left, guessVars>>

BatchBytes(n) == Total(SubSeq(queue[Backlog], 1, n))

\* A write takes a batch off the queue and gives it back when it is out.
Write(t) ==
  /\ task[t] = Idle
  /\ \E n \in 1..Len(queue[Backlog]) :
       /\ queue' = [queue EXCEPT ![Backlog] = SubSeq(@, n + 1, Len(@))]
       /\ Begin(t, "give", Backlog, BatchBytes(n), "idle")
  /\ UNCHANGED <<gateVars, held, shares, own, on, conn, sess, backlog, left, guessVars>>

\* The writer ends: a stall, a dead socket, or the session's end.
WriterStops(t) ==
  /\ task[t] = Idle /\ ~backlog.closed /\ Spend("items")
  /\ \E stalled \in BOOLEAN :
       backlog' = [closed |-> TRUE, lagging |-> backlog.lagging \/ stalled]
  /\ UNCHANGED <<gateVars, budgetVars, conn, sess, guessVars>>

\* The last of the connection's tasks drops the backlog.
BacklogEnds(t) ==
  /\ backlog.closed /\ Backlog \in on
  /\ \A u \in Writers \cup Enqueuers : task[u] = Idle
  /\ Begin(t, "drop", Backlog, 0, "idle")
  /\ UNCHANGED <<gateVars, held, shares, own, on, queue, conn, sess, backlog, left, guessVars>>

-----------------------------------------------------------------------------
(* Time. *)

Refill ==
  /\ Spend("fills")
  /\ \/ \E k \in Addrs \X Logins :
          /\ nameTok[k] < NameBurst /\ FillName(k)
          /\ nameFills' = [nameFills EXCEPT ![k] = @ + 1]
          /\ UNCHANGED <<addrTok, addrFills>>
     \/ \E a \in Addrs :
          /\ addrTok[a] < AddrBurst /\ FillAddr(a)
          /\ addrFills' = [addrFills EXCEPT ![a] = @ + 1]
          /\ UNCHANGED <<nameTok, nameFills>>
  /\ UNCHANGED <<liveVars, portLive, budgetVars, conn, sess, backlog, wrong, wrongFrom>>

BudgetSteps ==
  /\ \E t \in Tasks : BudgetStep(t)
  /\ UNCHANGED <<gateVars, conn, sess, backlog, left, guessVars>>

ConnStep(c) ==
  \/ \E a \in Addrs : Accept(c, a)
  \/ Upgrade(c) \/ Identified(c) \/ Unidentified(c) \/ HangUp(c)
  \/ \E l \in Logins : LoginStart(c, l)
  \/ LoginTakeAddr(c) \/ LoginUnname(c) \/ Verdict(c)
  \/ RefundName(c) \/ RefundAddr(c) \/ AdmitAccount(c)
  \/ \E s \in Sessions : ResumeStart(c, s) \/ Attach(c, s)
  \/ AdmitResume(c) \/ Uncarry(c) \/ Resume(c) \/ Recv(c) \/ Lose(c)
  \/ CloseQueue(c) \/ DropPlace(c) \/ DropPort(c)

Next ==
  \/ \E c \in Conns : ConnStep(c)
  \/ \E s \in Sessions : \/ EndSession(s) \/ PushFull(s) \/ LoseSealed(s)
                         \/ \E w \in Weights : Push(s, w)
  \/ Pushed \/ Refused
  \/ \E e \in Enqueuers : Enqueued(e) \/ \E w \in Weights : Enqueue(e, w)
  \/ \E t \in Writers : Write(t) \/ WriterStops(t) \/ BacklogEnds(t)
  \/ Refill
  \/ BudgetSteps

Spec == Init /\ [][Next]_vars

-----------------------------------------------------------------------------
(* Properties. *)

Pcs == {"idle", "http", "upgrade", "open", "attempt", "unname", "auth", "refund",
        "readdr", "admit", "gate", "uncarry", "attach", "resume", "up", "close",
        "drop", "unport"}

TaskPcs == {"idle", "take", "server", "judge", "got", "unserver", "unown", "over",
            "give", "given", "drop", "uncount"}

\* Type invariant: every counter is a natural number that no release takes
\* below zero, and no bucket of RateGate is fuller than its burst.
TypeOK ==
  /\ addrLive \in [Addrs -> 0..PerAddr] /\ wideLive \in [Wides -> 0..PerWide]
  /\ acctLive \in [Logins -> Nat] /\ portLive \in [Addrs -> 0..PortPerAddr]
  /\ nameTok \in [Addrs \X Logins -> 0..NameBurst]
  /\ addrTok \in [Addrs -> 0..AddrBurst]
  /\ held \in Nat /\ shares \in Nat /\ own \in [Shares -> Nat]
  /\ on \subseteq Shares /\ queue \in [Shares -> Seq(Weights)]
  /\ \A t \in Tasks :
       /\ task[t].pc \in TaskPcs /\ task[t].share \in Shares \cup {NoShare}
       /\ task[t].w \in Nat /\ task[t].mine \in Nat /\ task[t].all \in Nat
  /\ \A c \in Conns :
       /\ conn[c].pc \in Pcs
       /\ conn[c].addr \in Addrs \cup {NoAddr} /\ conn[c].login \in Logins \cup {NoLogin}
       /\ conn[c].place \in {"none", "addr", "account"} /\ conn[c].port \in BOOLEAN
       /\ conn[c].slack \in {0, 1} /\ conn[c].sess \in Sessions \cup {NoSession}
  /\ \A s \in Sessions :
       /\ sess[s].sink \in {"new", "live", "lagged", "buffering", "broken", "gone"}
       /\ sess[s].conn \in Conns \cup {NoConn} /\ sess[s].login \in Logins \cup {NoLogin}
  /\ backlog \in [lagging : BOOLEAN, closed : BOOLEAN]

\* The connections that hold a place of each kind.
AddrHolders(a) == {c \in Conns : conn[c].place = "addr" /\ conn[c].addr = a}
WideHolders(n) == {c \in Conns : conn[c].place = "addr" /\ WideOf[conn[c].addr] = n}
AccountHolders(l) == {c \in Conns : conn[c].place = "account" /\ conn[c].login = l}
PortHolders(a) == {c \in Conns : conn[c].port /\ conn[c].addr = a}

\* Every count of the gates is the number of connections that hold a place
\* of that kind, through the move to the account, the release of the place
\* it carried, a refusal, a takeover and the end (ConnPermit, SharedPlace):
\* no place is lost, and none is given back twice, which saturating_sub
\* would take from somebody else.
PlacesCounted ==
  /\ \A a \in Addrs : /\ addrLive[a] = Cardinality(AddrHolders(a))
                      /\ portLive[a] = Cardinality(PortHolders(a))
  /\ \A n \in Wides : wideLive[n] = Cardinality(WideHolders(n))
  /\ \A l \in Logins : acctLive[l] = Cardinality(AccountHolders(l))

Attached(l) == {s \in Sessions : sess[s].login = l /\ sess[s].sink \in {"live", "lagged"}}

\* However many resumes of an account's sessions race, with their slack read
\* before the gate judges them, the account is never more than one
\* connection past its cap, and never has more sessions attached than it
\* has places (admit_resume, ConnGate::admit_account).
AccountCap ==
  \A l \in Persons : /\ acctLive[l] <= PerAccount + 1
                     /\ Cardinality(Attached(l)) <= acctLive[l]

\* Guesses are paid for before they are judged: however many connections of
\* an address try at once, the wrong guesses at an account, and from the
\* address at all accounts, are no more than the burst and what time has
\* given back, whatever is refunded meanwhile (login_attempt, login_refund).
GuessBound ==
  /\ \A k \in Addrs \X Logins : wrong[k] <= NameBurst + nameFills[k]
  /\ \A a \in Addrs : wrongFrom[a] <= AddrBurst + addrFills[a]
=============================================================================
