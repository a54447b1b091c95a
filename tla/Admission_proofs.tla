-------------------------- MODULE Admission_proofs --------------------------
(***************************************************************************)
(* Proofs about Admission, for any number of connections, sessions,        *)
(* addresses and accounts and any limits: every place is counted once, an  *)
(* account is at most one connection past its cap and has no more sessions *)
(* attached than places, and guesses stay within what was paid for them.   *)
(*                                                                         *)
(* IInv adds to the properties what a connection may rely on between its   *)
(* steps:                                                                  *)
(*   PlaceInv   which place it holds where, and that it knows its address  *)
(*              and its account there;                                     *)
(*   ResumeInv, AttachedInv                                                *)
(*              a session it is resuming keeps its account, and a session  *)
(*              that is attached is the one its connection carries;        *)
(*   HubInv     the buffer a push draws on is still one when the budget     *)
(*              answers;                                                   *)
(*   NameInv, FromInv                                                      *)
(*              wrong guesses, the tokens left in a bucket and the tokens  *)
(*              in the hands of connections add up to no more than was     *)
(*              ever in the bucket.                                        *)
(***************************************************************************)
EXTENDS Admission, FiniteSetTheorems, TLAPS

Places == {"none", "addr", "account"}
Sinks == {"new", "live", "lagged", "buffering", "broken", "gone"}

Conn == [pc : Pcs, addr : Addrs \cup {NoAddr}, login : Logins \cup {NoLogin},
         place : Places, port : BOOLEAN, refused : BOOLEAN, slack : {0, 1},
         sess : Sessions \cup {NoSession}]

Sess == [sink : Sinks, conn : Conns \cup {NoConn}, login : Logins \cup {NoLogin}]

Typed ==
  /\ conn \in [Conns -> Conn]
  /\ sess \in [Sessions -> Sess]
  /\ addrLive \in [Addrs -> Nat] /\ wideLive \in [Wides -> Nat]
  /\ acctLive \in [Logins -> Nat] /\ portLive \in [Addrs -> Nat]
  /\ nameTok \in [Addrs \X Logins -> Nat] /\ addrTok \in [Addrs -> Nat]
  /\ wrong \in [Addrs \X Logins -> Nat] /\ wrongFrom \in [Addrs -> Nat]
  /\ nameFills \in [Addrs \X Logins -> Nat] /\ addrFills \in [Addrs -> Nat]

\* The places a connection may hold at each of its steps.
PlaceAt(k) ==
  /\ k.pc \in {"idle", "http", "unport"} => k.place = "none"
  /\ k.pc = "idle" => ~k.port
  /\ k.pc \in {"upgrade", "open", "attempt", "unname", "auth", "refund", "readdr",
               "admit", "gate"} => k.place = "addr"
  /\ k.pc # "idle" => k.addr \in Addrs
  /\ k.place = "account" => k.login \in Logins
  /\ k.pc = "gate" => k.login \in Persons
  /\ k.pc \in {"attempt", "unname", "auth", "refund", "readdr", "admit", "attach"}
       => k.login \in Logins
  /\ k.pc \in {"http", "upgrade", "open", "attempt", "unname", "auth", "refund",
               "readdr", "admit"} => k.sess = NoSession
  /\ k.pc = "uncarry" => k.place = "account"
  /\ k.pc \in {"attach", "up"} /\ k.login \in Persons => k.place = "account"

PlaceInv == \A c \in Conns : PlaceAt(conn[c])

Resuming(k) == k.pc \in {"gate", "resume"} \/ (k.pc = "uncarry" /\ k.sess # NoSession)

ResumeInv ==
  \A c \in Conns : Resuming(conn[c]) =>
    /\ conn[c].sess \in Sessions
    /\ sess[conn[c].sess].sink # "new"
    /\ sess[conn[c].sess].login = conn[c].login
    /\ conn[c].pc = "resume" /\ conn[c].login \in Persons
         /\ sess[conn[c].sess].sink # "gone" => conn[c].place = "account"

AttachedInv ==
  \A s \in Sessions : sess[s].sink \in {"live", "lagged"} =>
    /\ sess[s].conn \in Conns
    /\ conn[sess[s].conn].pc = "up"
    /\ conn[sess[s].conn].sess = s
    /\ conn[sess[s].conn].login = sess[s].login

CapInv == \A l \in Persons : acctLive[l] <= PerAccount + 1

\* The connections that hold a token of a bucket.
NameHolders(k) == {c \in Conns : /\ conn[c].pc \in {"attempt", "unname", "auth", "refund"}
                                 /\ conn[c].addr = k[1] /\ conn[c].login = k[2]}
TokenHolders(a) == {c \in Conns : /\ conn[c].pc \in {"auth", "refund", "readdr"}
                                  /\ conn[c].addr = a}

NameInv ==
  \A k \in Addrs \X Logins :
    wrong[k] + nameTok[k] + Cardinality(NameHolders(k)) <= NameBurst + nameFills[k]

FromInv ==
  \A a \in Addrs :
    wrongFrom[a] + addrTok[a] + Cardinality(TokenHolders(a)) <= AddrBurst + addrFills[a]

\* PlacesCounted, by what is counted.
AddrCounted ==
  /\ \A a \in Addrs : addrLive[a] = Cardinality(AddrHolders(a))
  /\ \A n \in Wides : wideLive[n] = Cardinality(WideHolders(n))

AccountCounted == \A l \in Logins : acctLive[l] = Cardinality(AccountHolders(l))

PortCounted == \A a \in Addrs : portLive[a] = Cardinality(PortHolders(a))

\* What the roster's lock keeps still: from a push's first step to its last,
\* the buffer it draws on stays a buffer.
Taking == {"take", "server", "judge", "unserver", "unown", "got", "over"}

IsTask(k) == \E V : k \in [pc : V, share : V, w : V, mine : V, all : V, then : V]

HubInv ==
  /\ task = [t \in Tasks |-> task[t]]
  /\ IsTask(task[Hub])
  /\ task[Hub].then \in {"idle", "over"}
  /\ task[Hub].then = "over" => task[Hub].share \in Conns
  /\ task[Hub].pc \in Taking /\ task[Hub].share \in Sessions
       => sess[task[Hub].share].sink = "buffering"

IInv == /\ PlaceInv /\ ResumeInv /\ AttachedInv
        /\ AddrCounted /\ AccountCounted /\ PortCounted /\ CapInv
        /\ NameInv /\ FromInv

-----------------------------------------------------------------------------
(* Types. *)

LEMMA Constants ==
  /\ Persons \subseteq Logins /\ IsFiniteSet(Conns)
  /\ NoSession \notin Sessions /\ NoConn \notin Conns
  /\ NoAddr \notin Addrs /\ NoLogin \notin Logins
  /\ PerAccount \in Nat /\ NameBurst \in Nat /\ AddrBurst \in Nat
  /\ Hub \in Tasks /\ Hub \notin Conns /\ Hub \notin Writers /\ Hub \notin Enqueuers
  /\ Conns \cap Sessions = {}
BY ConnGateAssumption, AdmissionAssumption

LEMMA InitTyped == Init => Typed
BY Constants DEF Init, GateInit, Typed, Conn, Sess, Gone, Pcs, Places, Sinks

LEMMA LiveTyped ==
  ASSUME addrLive \in [Addrs -> Nat], wideLive \in [Wides -> Nat], NEW a \in Addrs,
         Admit(a) \/ ReleaseAddr(a)
  PROVE  addrLive' \in [Addrs -> Nat] /\ wideLive' \in [Wides -> Nat]
<1>1. WideOf[a] \in Wides
  BY DEF Wides
<1>2. CASE Admit(a)
  BY <1>1, <1>2 DEF Admit
<1>3. CASE ReleaseAddr(a)
  BY <1>1, <1>3 DEF ReleaseAddr, Less
<1> QED BY <1>2, <1>3

LEMMA PortTyped ==
  ASSUME portLive \in [Addrs -> Nat], NEW a \in Addrs, NEW h \in BOOLEAN, PortRelease(a, h)
  PROVE  portLive' \in [Addrs -> Nat]
<1>1. CASE h
  <2>1. portLive' = [portLive EXCEPT ![a] = Less(@)]
    BY <1>1 DEF PortRelease
  <2>2. Less(portLive[a]) \in Nat
    BY DEF Less
  <2> QED BY <2>1, <2>2
<1>2. CASE ~h
  BY <1>2 DEF PortRelease
<1> QED BY <1>1, <1>2

\* What changes of a connection, and that nothing changes of the others.
Only(c) == /\ conn' \in [Conns -> Conn]
           /\ \A d \in Conns : d # c => conn'[d] = conn[d]

LEMMA Goes ==
  ASSUME NEW c \in Conns, conn \in [Conns -> Conn], NEW pc \in Pcs, To(c, pc)
  PROVE  /\ Only(c)
         /\ conn'[c].pc = pc
         /\ conn'[c].addr = conn[c].addr /\ conn'[c].login = conn[c].login
         /\ conn'[c].place = conn[c].place /\ conn'[c].port = conn[c].port
         /\ conn'[c].sess = conn[c].sess
BY DEF Only, To, Conn

LEMMA Becomes ==
  ASSUME NEW c \in Conns, conn \in [Conns -> Conn], NEW k \in Conn,
         conn' = [conn EXCEPT ![c] = k]
  PROVE  Only(c) /\ conn'[c] = k
BY DEF Only

LEMMA GoneIsConn ==
  /\ Gone \in Conn
  /\ Gone.pc = "idle" /\ Gone.place = "none" /\ Gone.port = FALSE
  /\ Gone.sess = NoSession
BY DEF Gone, Conn, Pcs, Places

LEMMA AcceptAfter ==
  ASSUME Typed, NEW c \in Conns, NEW a \in Addrs, Accept(c, a)
  PROVE  /\ Only(c) /\ conn[c].pc = "idle"
         /\ conn'[c].pc = "http" /\ conn'[c].addr = a
         /\ conn'[c].place = "none" /\ conn'[c].sess = NoSession
         /\ \/ ~conn'[c].port /\ UNCHANGED portLive
            \/ conn'[c].port /\ PortAdmit(a)
<1>1. PICK direct \in BOOLEAN :
        /\ IF direct THEN PortAdmit(a) ELSE UNCHANGED portLive
        /\ conn' = [conn EXCEPT ![c] = [Gone EXCEPT !.pc = "http", !.addr = a,
                                                    !.port = direct]]
  BY DEF Accept
<1> DEFINE k == [Gone EXCEPT !.pc = "http", !.addr = a, !.port = direct]
<1>2. /\ k \in Conn
      /\ k.pc = "http" /\ k.addr = a /\ k.port = direct
      /\ k.place = "none" /\ k.sess = NoSession
  BY DEF Gone, Conn, Pcs, Places
<1>3. conn' = [conn EXCEPT ![c] = k]
  BY <1>1
<1> HIDE DEF k
<1>4. Only(c) /\ conn'[c] = k
  BY <1>2, <1>3, Becomes DEF Typed
<1>5. conn[c].pc = "idle"
  BY DEF Accept, At
<1> QED BY <1>1, <1>2, <1>4, <1>5

\* One field or two beside the step a connection is at.
LEMMA TakesPlace ==
  ASSUME NEW c \in Conns, conn \in [Conns -> Conn], NEW pc \in Pcs, NEW p \in Places,
         conn' = [conn EXCEPT ![c].pc = pc, ![c].place = p]
  PROVE  /\ Only(c)
         /\ conn'[c].pc = pc
         /\ conn'[c].place = p
         /\ conn'[c].addr = conn[c].addr
         /\ conn'[c].login = conn[c].login
         /\ conn'[c].port = conn[c].port
         /\ conn'[c].sess = conn[c].sess
BY ZenonT(60) DEF Only, Conn

LEMMA TakesLogin ==
  ASSUME NEW c \in Conns, conn \in [Conns -> Conn], NEW pc \in Pcs, NEW l \in Logins,
         conn' = [conn EXCEPT ![c].pc = pc, ![c].login = l]
  PROVE  /\ Only(c)
         /\ conn'[c].pc = pc
         /\ conn'[c].login = l
         /\ conn'[c].addr = conn[c].addr
         /\ conn'[c].place = conn[c].place
         /\ conn'[c].port = conn[c].port
         /\ conn'[c].sess = conn[c].sess
BY ZenonT(60) DEF Only, Conn

LEMMA TakesVerdict ==
  ASSUME NEW c \in Conns, conn \in [Conns -> Conn], NEW pc \in Pcs, NEW r \in BOOLEAN,
         conn' = [conn EXCEPT ![c].pc = pc, ![c].refused = r]
  PROVE  /\ Only(c)
         /\ conn'[c].pc = pc
         /\ conn'[c].addr = conn[c].addr
         /\ conn'[c].login = conn[c].login
         /\ conn'[c].place = conn[c].place
         /\ conn'[c].port = conn[c].port
         /\ conn'[c].sess = conn[c].sess
BY ZenonT(60) DEF Only, Conn

LEMMA TakesPort ==
  ASSUME NEW c \in Conns, conn \in [Conns -> Conn], NEW pc \in Pcs,
         conn' = [conn EXCEPT ![c].port = FALSE, ![c].pc = pc]
  PROVE  /\ Only(c)
         /\ conn'[c].pc = pc
         /\ conn'[c].port = FALSE
         /\ conn'[c].addr = conn[c].addr
         /\ conn'[c].login = conn[c].login
         /\ conn'[c].place = conn[c].place
         /\ conn'[c].sess = conn[c].sess
BY ZenonT(60) DEF Only, Conn

LEMMA TakesSession ==
  ASSUME NEW c \in Conns, conn \in [Conns -> Conn], NEW pc \in Pcs, NEW s \in Sessions,
         conn' = [conn EXCEPT ![c].pc = pc, ![c].sess = s]
  PROVE  /\ Only(c)
         /\ conn'[c].pc = pc
         /\ conn'[c].sess = s
         /\ conn'[c].addr = conn[c].addr
         /\ conn'[c].login = conn[c].login
         /\ conn'[c].place = conn[c].place
         /\ conn'[c].port = conn[c].port
BY ZenonT(60) DEF Only, Conn

-----------------------------------------------------------------------------
(* Counting the connections that hold something. *)

LEMMA OneChanges ==
  ASSUME NEW S \in SUBSET Conns, NEW T \in SUBSET Conns, NEW c \in Conns,
         S \ {c} = T \ {c}
  PROVE  /\ Cardinality(S) \in Nat /\ Cardinality(T) \in Nat
         /\ c \in S /\ c \in T => Cardinality(S) = Cardinality(T)
         /\ c \notin S /\ c \notin T => Cardinality(S) = Cardinality(T)
         /\ c \in S /\ c \notin T => Cardinality(S) = Cardinality(T) + 1
         /\ c \notin S /\ c \in T => Cardinality(T) = Cardinality(S) + 1
<1>1. IsFiniteSet(S) /\ IsFiniteSet(T)
  BY Constants, FS_Subset
<1>2. Cardinality(S) \in Nat /\ Cardinality(T) \in Nat
  BY <1>1, FS_CardinalityType
<1>3. c \in S => Cardinality(S \ {c}) = Cardinality(S) - 1
  BY <1>1, FS_RemoveElement
<1>4. c \in T => Cardinality(T \ {c}) = Cardinality(T) - 1
  BY <1>1, FS_RemoveElement
<1>5. (c \notin S => S \ {c} = S) /\ (c \notin T => T \ {c} = T)
  OBVIOUS
<1> QED BY <1>2, <1>3, <1>4, <1>5

\* A connection's own step changes whether it is in a set, and no other.
LEMMA OthersStay ==
  ASSUME NEW c \in Conns, Only(c), NEW a, NEW k
  PROVE  /\ AddrHolders(a) \ {c} = AddrHolders(a)' \ {c}
         /\ WideHolders(a) \ {c} = WideHolders(a)' \ {c}
         /\ AccountHolders(a) \ {c} = AccountHolders(a)' \ {c}
         /\ PortHolders(a) \ {c} = PortHolders(a)' \ {c}
         /\ TokenHolders(a) \ {c} = TokenHolders(a)' \ {c}
         /\ NameHolders(k) \ {c} = NameHolders(k)' \ {c}
BY DEF Only, AddrHolders, WideHolders, AccountHolders, PortHolders, TokenHolders, NameHolders

\* By how much a step of c changes the size of a set.
Grows(S, T, c) ==
  /\ Cardinality(S) \in Nat /\ Cardinality(T) \in Nat
  /\ Cardinality(T) = IF (c \in S <=> c \in T) THEN Cardinality(S)
                      ELSE IF c \in T THEN Cardinality(S) + 1 ELSE Cardinality(S) - 1

LEMMA OneGrows ==
  ASSUME NEW S \in SUBSET Conns, NEW T \in SUBSET Conns, NEW c \in Conns,
         S \ {c} = T \ {c}
  PROVE  Grows(S, T, c)
BY OneChanges DEF Grows

LEMMA AddrHoldersGrow ==
  ASSUME NEW c \in Conns, Only(c), NEW a
  PROVE  Grows(AddrHolders(a), AddrHolders(a)', c)
<1>1. AddrHolders(a) \in SUBSET Conns /\ AddrHolders(a)' \in SUBSET Conns
  BY DEF AddrHolders
<1> QED BY <1>1, OthersStay, OneGrows

LEMMA WideHoldersGrow ==
  ASSUME NEW c \in Conns, Only(c), NEW a
  PROVE  Grows(WideHolders(a), WideHolders(a)', c)
<1>1. WideHolders(a) \in SUBSET Conns /\ WideHolders(a)' \in SUBSET Conns
  BY DEF WideHolders
<1> QED BY <1>1, OthersStay, OneGrows

LEMMA AccountHoldersGrow ==
  ASSUME NEW c \in Conns, Only(c), NEW a
  PROVE  Grows(AccountHolders(a), AccountHolders(a)', c)
<1>1. AccountHolders(a) \in SUBSET Conns /\ AccountHolders(a)' \in SUBSET Conns
  BY DEF AccountHolders
<1> QED BY <1>1, OthersStay, OneGrows

LEMMA PortHoldersGrow ==
  ASSUME NEW c \in Conns, Only(c), NEW a
  PROVE  Grows(PortHolders(a), PortHolders(a)', c)
<1>1. PortHolders(a) \in SUBSET Conns /\ PortHolders(a)' \in SUBSET Conns
  BY DEF PortHolders
<1> QED BY <1>1, OthersStay, OneGrows

LEMMA TokenHoldersGrow ==
  ASSUME NEW c \in Conns, Only(c), NEW a
  PROVE  Grows(TokenHolders(a), TokenHolders(a)', c)
<1>1. TokenHolders(a) \in SUBSET Conns /\ TokenHolders(a)' \in SUBSET Conns
  BY DEF TokenHolders
<1> QED BY <1>1, OthersStay, OneGrows

LEMMA NameHoldersGrow ==
  ASSUME NEW c \in Conns, Only(c), NEW a
  PROVE  Grows(NameHolders(a), NameHolders(a)', c)
<1>1. NameHolders(a) \in SUBSET Conns /\ NameHolders(a)' \in SUBSET Conns
  BY DEF NameHolders
<1> QED BY <1>1, OthersStay, OneGrows

LEMMA AddrKept ==
  ASSUME Typed, AddrCounted, NEW c \in Conns, Only(c),
         conn[c].place = "addr" <=> conn'[c].place = "addr",
         conn'[c].addr = conn[c].addr \/ conn[c].place # "addr",
         UNCHANGED <<addrLive, wideLive>>
  PROVE  AddrCounted'
<1>1. ASSUME NEW a \in Addrs PROVE addrLive'[a] = Cardinality(AddrHolders(a)')
  <2>1. c \in AddrHolders(a) <=> c \in AddrHolders(a)'
    BY DEF AddrHolders
  <2> QED BY <2>1, AddrHoldersGrow DEF AddrCounted, Grows
<1>2. ASSUME NEW n \in Wides PROVE wideLive'[n] = Cardinality(WideHolders(n)')
  <2>1. c \in WideHolders(n) <=> c \in WideHolders(n)'
    BY DEF WideHolders
  <2> QED BY <2>1, WideHoldersGrow DEF AddrCounted, Grows
<1> QED BY <1>1, <1>2 DEF AddrCounted

LEMMA AddrTaken ==
  ASSUME Typed, AddrCounted, NEW c \in Conns, Only(c), NEW a \in Addrs, Admit(a),
         conn[c].place # "addr", conn'[c].place = "addr", conn'[c].addr = a
  PROVE  AddrCounted'
<1>1. ASSUME NEW b \in Addrs PROVE addrLive'[b] = Cardinality(AddrHolders(b)')
  <2>1. c \notin AddrHolders(b) /\ (c \in AddrHolders(b)' <=> a = b)
    BY DEF AddrHolders
  <2>2. addrLive'[b] = IF a = b THEN addrLive[b] + 1 ELSE addrLive[b]
    BY DEF Admit, Typed
  <2> QED BY <2>1, <2>2, AddrHoldersGrow DEF AddrCounted, Grows
<1>2. ASSUME NEW n \in Wides PROVE wideLive'[n] = Cardinality(WideHolders(n)')
  <2>1. c \notin WideHolders(n) /\ (c \in WideHolders(n)' <=> WideOf[a] = n)
    BY DEF WideHolders
  <2>2. wideLive'[n] = IF WideOf[a] = n THEN wideLive[n] + 1 ELSE wideLive[n]
    BY DEF Admit, Typed
  <2> QED BY <2>1, <2>2, WideHoldersGrow DEF AddrCounted, Grows
<1> QED BY <1>1, <1>2 DEF AddrCounted

LEMMA AddrGiven ==
  ASSUME Typed, AddrCounted, NEW c \in Conns, Only(c), NEW a \in Addrs, ReleaseAddr(a),
         conn[c].place = "addr", conn[c].addr = a, conn'[c].place # "addr"
  PROVE  AddrCounted'
<1>1. ASSUME NEW b \in Addrs PROVE addrLive'[b] = Cardinality(AddrHolders(b)')
  <2>1. c \notin AddrHolders(b)' /\ (c \in AddrHolders(b) <=> a = b)
    BY DEF AddrHolders
  <2>2. addrLive'[b] = IF a = b THEN Less(addrLive[b]) ELSE addrLive[b]
    BY DEF ReleaseAddr, Typed
  <2> QED BY <2>1, <2>2, AddrHoldersGrow DEF AddrCounted, Grows, Less
<1>2. ASSUME NEW n \in Wides PROVE wideLive'[n] = Cardinality(WideHolders(n)')
  <2>1. c \notin WideHolders(n)' /\ (c \in WideHolders(n) <=> WideOf[a] = n)
    BY DEF WideHolders
  <2>2. wideLive'[n] = IF WideOf[a] = n THEN Less(wideLive[n]) ELSE wideLive[n]
    BY DEF ReleaseAddr, Typed
  <2> QED BY <2>1, <2>2, WideHoldersGrow DEF AddrCounted, Grows, Less
<1> QED BY <1>1, <1>2 DEF AddrCounted

LEMMA AccountKept ==
  ASSUME Typed, AccountCounted, NEW c \in Conns, Only(c),
         conn[c].place = "account" <=> conn'[c].place = "account",
         conn'[c].login = conn[c].login \/ conn[c].place # "account",
         UNCHANGED acctLive
  PROVE  AccountCounted'
<1>1. ASSUME NEW l \in Logins PROVE acctLive'[l] = Cardinality(AccountHolders(l)')
  <2>1. c \in AccountHolders(l) <=> c \in AccountHolders(l)'
    BY DEF AccountHolders
  <2> QED BY <2>1, AccountHoldersGrow DEF AccountCounted, Grows
<1> QED BY <1>1 DEF AccountCounted

LEMMA AccountTaken ==
  ASSUME Typed, AccountCounted, NEW c \in Conns, Only(c), NEW l \in Logins,
         acctLive' = [acctLive EXCEPT ![l] = @ + 1],
         conn[c].place # "account", conn'[c].place = "account", conn'[c].login = l
  PROVE  AccountCounted'
<1>1. ASSUME NEW m \in Logins PROVE acctLive'[m] = Cardinality(AccountHolders(m)')
  <2>1. c \notin AccountHolders(m) /\ (c \in AccountHolders(m)' <=> l = m)
    BY DEF AccountHolders
  <2>2. acctLive'[m] = IF l = m THEN acctLive[m] + 1 ELSE acctLive[m]
    BY DEF Typed
  <2> QED BY <2>1, <2>2, AccountHoldersGrow DEF AccountCounted, Grows
<1> QED BY <1>1 DEF AccountCounted

LEMMA AccountGiven ==
  ASSUME Typed, AccountCounted, NEW c \in Conns, Only(c), NEW l \in Logins,
         acctLive' = [acctLive EXCEPT ![l] = Less(@)],
         conn[c].place = "account", conn[c].login = l, conn'[c].place # "account"
  PROVE  AccountCounted'
<1>1. ASSUME NEW m \in Logins PROVE acctLive'[m] = Cardinality(AccountHolders(m)')
  <2>1. c \notin AccountHolders(m)' /\ (c \in AccountHolders(m) <=> l = m)
    BY DEF AccountHolders
  <2>2. acctLive'[m] = IF l = m THEN Less(acctLive[m]) ELSE acctLive[m]
    BY DEF Typed
  <2> QED BY <2>1, <2>2, AccountHoldersGrow DEF AccountCounted, Grows, Less
<1> QED BY <1>1 DEF AccountCounted

LEMMA PortKept ==
  ASSUME Typed, PortCounted, NEW c \in Conns, Only(c),
         conn'[c].port = conn[c].port,
         conn'[c].addr = conn[c].addr \/ ~conn[c].port,
         UNCHANGED portLive
  PROVE  PortCounted'
<1>1. ASSUME NEW a \in Addrs PROVE portLive'[a] = Cardinality(PortHolders(a)')
  <2>1. c \in PortHolders(a) <=> c \in PortHolders(a)'
    BY DEF PortHolders
  <2> QED BY <2>1, PortHoldersGrow DEF PortCounted, Grows
<1> QED BY <1>1 DEF PortCounted

LEMMA PortTaken ==
  ASSUME Typed, PortCounted, NEW c \in Conns, Only(c), NEW a \in Addrs, PortAdmit(a),
         ~conn[c].port, conn'[c].port, conn'[c].addr = a
  PROVE  PortCounted'
<1>1. ASSUME NEW b \in Addrs PROVE portLive'[b] = Cardinality(PortHolders(b)')
  <2>1. c \notin PortHolders(b) /\ (c \in PortHolders(b)' <=> a = b)
    BY DEF PortHolders
  <2>2. portLive'[b] = IF a = b THEN portLive[b] + 1 ELSE portLive[b]
    BY DEF PortAdmit, Typed
  <2> QED BY <2>1, <2>2, PortHoldersGrow DEF PortCounted, Grows
<1> QED BY <1>1 DEF PortCounted

LEMMA PortGiven ==
  ASSUME Typed, PortCounted, NEW c \in Conns, Only(c), conn[c].addr \in Addrs,
         PortRelease(conn[c].addr, conn[c].port), ~conn'[c].port
  PROVE  PortCounted'
<1> DEFINE a == conn[c].addr
<1>1. ASSUME NEW b \in Addrs PROVE portLive'[b] = Cardinality(PortHolders(b)')
  <2>1. c \notin PortHolders(b)' /\ (c \in PortHolders(b) <=> conn[c].port /\ a = b)
    BY DEF PortHolders
  <2>2. portLive'[b] = IF conn[c].port /\ a = b THEN Less(portLive[b]) ELSE portLive[b]
    BY DEF PortRelease, Typed
  <2> QED BY <2>1, <2>2, PortHoldersGrow DEF PortCounted, Grows, Less
<1> QED BY <1>1 DEF PortCounted

-----------------------------------------------------------------------------
(* The tokens of guesses. *)

InName == {"attempt", "unname", "auth", "refund"}
InFrom == {"auth", "refund", "readdr"}

LEMMA NameKept ==
  ASSUME Typed, NameInv, NEW c \in Conns, Only(c),
         conn[c].pc \in InName <=> conn'[c].pc \in InName,
         \/ conn[c].pc \notin InName
         \/ conn'[c].addr = conn[c].addr /\ conn'[c].login = conn[c].login,
         UNCHANGED <<wrong, nameTok, nameFills>>
  PROVE  NameInv'
<1>1. ASSUME NEW k \in Addrs \X Logins
      PROVE  wrong[k] + nameTok[k] + Cardinality(NameHolders(k)')
               <= NameBurst + nameFills[k]
  <2>1. c \in NameHolders(k) <=> c \in NameHolders(k)'
    BY DEF NameHolders, InName
  <2> QED BY <2>1, NameHoldersGrow DEF NameInv, Grows
<1> QED BY <1>1 DEF NameInv

LEMMA NameTaken ==
  ASSUME Typed, NameInv, NEW c \in Conns, Only(c), NEW a \in Addrs, NEW l \in Logins,
         TakeName(<<a, l>>), conn[c].pc \notin InName, conn'[c].pc \in InName,
         conn'[c].addr = a, conn'[c].login = l, UNCHANGED <<wrong, nameFills>>
  PROVE  NameInv'
<1>1. ASSUME NEW k \in Addrs \X Logins
      PROVE  wrong[k] + nameTok'[k] + Cardinality(NameHolders(k)')
               <= NameBurst + nameFills[k]
  <2>1. c \notin NameHolders(k) /\ (c \in NameHolders(k)' <=> k = <<a, l>>)
    BY DEF NameHolders, InName
  <2>2. nameTok'[k] = IF k = <<a, l>> THEN nameTok[k] - 1 ELSE nameTok[k]
    BY DEF TakeName, Typed
  <2>3. Grows(NameHolders(k), NameHolders(k)', c)
    BY NameHoldersGrow
  <2>4. wrong[k] \in Nat /\ nameTok[k] \in Nat /\ nameFills[k] \in Nat /\ NameBurst \in Nat
    BY Constants DEF Typed
  <2> QED BY <2>1, <2>2, <2>3, <2>4 DEF NameInv, Grows
<1> QED BY <1>1 DEF NameInv

\* A token that goes back, or that a wrong guess used up.
LEMMA NameGiven ==
  ASSUME Typed, NameInv, NEW c \in Conns, Only(c),
         conn[c].addr \in Addrs, conn[c].login \in Logins,
         conn[c].pc \in InName, conn'[c].pc \notin InName, UNCHANGED nameFills,
         \/ FillName(Key(c)) /\ UNCHANGED wrong
         \/ UNCHANGED nameTok /\ wrong' = [wrong EXCEPT ![Key(c)] = @ + 1]
  PROVE  NameInv'
<1> DEFINE key == <<conn[c].addr, conn[c].login>>
<1>1. ASSUME NEW k \in Addrs \X Logins
      PROVE  wrong'[k] + nameTok'[k] + Cardinality(NameHolders(k)')
               <= NameBurst + nameFills[k]
  <2>1. c \notin NameHolders(k)' /\ (c \in NameHolders(k) <=> k = key)
    BY DEF NameHolders, InName
  <2>2. Grows(NameHolders(k), NameHolders(k)', c)
    BY NameHoldersGrow
  <2>3. /\ wrong[k] \in Nat /\ nameTok[k] \in Nat /\ nameFills[k] \in Nat
        /\ NameBurst \in Nat
    BY Constants DEF Typed
  <2>4. /\ wrong'[k] \in Nat /\ nameTok'[k] \in Int
        /\ wrong'[k] + nameTok'[k] <= wrong[k] + nameTok[k] + (IF k = key THEN 1 ELSE 0)
    <3>1. CASE FillName(Key(c)) /\ UNCHANGED wrong
      <4>1. nameTok'[k] = IF k = key THEN Fuller(nameTok[k], NameBurst) ELSE nameTok[k]
        BY <3>1 DEF FillName, Key, Typed
      <4>2. Fuller(nameTok[k], NameBurst) <= nameTok[k] + 1
            /\ Fuller(nameTok[k], NameBurst) \in Nat
        BY <2>3 DEF Fuller
      <4> QED BY <3>1, <4>1, <4>2, <2>3
    <3>2. CASE UNCHANGED nameTok /\ wrong' = [wrong EXCEPT ![Key(c)] = @ + 1]
      <4>1. wrong'[k] = IF k = key THEN wrong[k] + 1 ELSE wrong[k]
        BY <3>2 DEF Key, Typed
      <4> QED BY <3>2, <4>1, <2>3
    <3> QED BY <3>1, <3>2
  <2>5. wrong[k] + nameTok[k] + Cardinality(NameHolders(k)) <= NameBurst + nameFills[k]
    BY DEF NameInv
  <2>6. CASE k = key
    BY <2>1, <2>2, <2>3, <2>4, <2>5, <2>6 DEF Grows
  <2>7. CASE k # key
    BY <2>1, <2>2, <2>3, <2>4, <2>5, <2>7 DEF Grows
  <2> QED BY <2>6, <2>7
<1> QED BY <1>1 DEF NameInv

LEMMA FromKept ==
  ASSUME Typed, FromInv, NEW c \in Conns, Only(c),
         conn[c].pc \in InFrom <=> conn'[c].pc \in InFrom,
         conn[c].pc \notin InFrom \/ conn'[c].addr = conn[c].addr,
         UNCHANGED <<wrongFrom, addrTok, addrFills>>
  PROVE  FromInv'
<1>1. ASSUME NEW a \in Addrs
      PROVE  wrongFrom[a] + addrTok[a] + Cardinality(TokenHolders(a)')
               <= AddrBurst + addrFills[a]
  <2>1. c \in TokenHolders(a) <=> c \in TokenHolders(a)'
    BY DEF TokenHolders, InFrom
  <2> QED BY <2>1, TokenHoldersGrow DEF FromInv, Grows
<1> QED BY <1>1 DEF FromInv

LEMMA FromTaken ==
  ASSUME Typed, FromInv, NEW c \in Conns, Only(c), NEW b \in Addrs,
         TakeAddr(b), conn[c].pc \notin InFrom, conn'[c].pc \in InFrom,
         conn'[c].addr = b, UNCHANGED <<wrongFrom, addrFills>>
  PROVE  FromInv'
<1>1. ASSUME NEW a \in Addrs
      PROVE  wrongFrom[a] + addrTok'[a] + Cardinality(TokenHolders(a)')
               <= AddrBurst + addrFills[a]
  <2>1. c \notin TokenHolders(a) /\ (c \in TokenHolders(a)' <=> a = b)
    BY DEF TokenHolders, InFrom
  <2>2. addrTok'[a] = IF a = b THEN addrTok[a] - 1 ELSE addrTok[a]
    BY DEF TakeAddr, Typed
  <2>3. Grows(TokenHolders(a), TokenHolders(a)', c)
    BY TokenHoldersGrow
  <2>4. wrongFrom[a] \in Nat /\ addrTok[a] \in Nat /\ addrFills[a] \in Nat /\ AddrBurst \in Nat
    BY Constants DEF Typed
  <2> QED BY <2>1, <2>2, <2>3, <2>4 DEF FromInv, Grows
<1> QED BY <1>1 DEF FromInv

LEMMA FromGiven ==
  ASSUME Typed, FromInv, NEW c \in Conns, Only(c), conn[c].addr \in Addrs,
         conn[c].pc \in InFrom, conn'[c].pc \notin InFrom, UNCHANGED addrFills,
         \/ FillAddr(conn[c].addr) /\ UNCHANGED wrongFrom
         \/ UNCHANGED addrTok /\ wrongFrom' = [wrongFrom EXCEPT ![conn[c].addr] = @ + 1]
  PROVE  FromInv'
<1> DEFINE b == conn[c].addr
<1>1. ASSUME NEW a \in Addrs
      PROVE  wrongFrom'[a] + addrTok'[a] + Cardinality(TokenHolders(a)')
               <= AddrBurst + addrFills[a]
  <2>1. c \notin TokenHolders(a)' /\ (c \in TokenHolders(a) <=> a = b)
    BY DEF TokenHolders, InFrom
  <2>2. Grows(TokenHolders(a), TokenHolders(a)', c)
    BY TokenHoldersGrow
  <2>3. /\ wrongFrom[a] \in Nat /\ addrTok[a] \in Nat /\ addrFills[a] \in Nat
        /\ AddrBurst \in Nat
    BY Constants DEF Typed
  <2>4. /\ wrongFrom'[a] \in Nat /\ addrTok'[a] \in Int
        /\ wrongFrom'[a] + addrTok'[a]
             <= wrongFrom[a] + addrTok[a] + (IF a = b THEN 1 ELSE 0)
    <3>1. CASE FillAddr(conn[c].addr) /\ UNCHANGED wrongFrom
      <4>1. addrTok'[a] = IF a = b THEN Fuller(addrTok[a], AddrBurst) ELSE addrTok[a]
        BY <3>1 DEF FillAddr, Typed
      <4>2. Fuller(addrTok[a], AddrBurst) <= addrTok[a] + 1
            /\ Fuller(addrTok[a], AddrBurst) \in Nat
        BY <2>3 DEF Fuller
      <4> QED BY <3>1, <4>1, <4>2, <2>3
    <3>2. CASE UNCHANGED addrTok /\ wrongFrom' = [wrongFrom EXCEPT ![conn[c].addr] = @ + 1]
      <4>1. wrongFrom'[a] = IF a = b THEN wrongFrom[a] + 1 ELSE wrongFrom[a]
        BY <3>2 DEF Typed
      <4> QED BY <3>2, <4>1, <2>3
    <3> QED BY <3>1, <3>2
  <2>5. wrongFrom[a] + addrTok[a] + Cardinality(TokenHolders(a)) <= AddrBurst + addrFills[a]
    BY DEF FromInv
  <2>6. CASE a = b
    BY <2>1, <2>2, <2>3, <2>4, <2>5, <2>6 DEF Grows
  <2>7. CASE a # b
    BY <2>1, <2>2, <2>3, <2>4, <2>5, <2>7 DEF Grows
  <2> QED BY <2>6, <2>7
<1> QED BY <1>1 DEF FromInv

-----------------------------------------------------------------------------
(* What a step that is only c's keeps. *)

LEMMA PlaceKept ==
  ASSUME PlaceInv, NEW c \in Conns, Only(c), PlaceAt(conn'[c]) PROVE PlaceInv'
BY DEF PlaceInv, Only

LEMMA ResumeKept ==
  ASSUME ResumeInv, NEW c \in Conns, Only(c), UNCHANGED sess,
         Resuming(conn'[c]) =>
           /\ conn'[c].sess \in Sessions
           /\ sess[conn'[c].sess].sink # "new"
           /\ sess[conn'[c].sess].login = conn'[c].login
           /\ conn'[c].pc = "resume" /\ conn'[c].login \in Persons
                /\ sess[conn'[c].sess].sink # "gone" => conn'[c].place = "account"
  PROVE  ResumeInv'
<1> SUFFICES ASSUME NEW d \in Conns, Resuming(conn'[d])
             PROVE  /\ conn'[d].sess \in Sessions
                    /\ sess[conn'[d].sess].sink # "new"
                    /\ sess[conn'[d].sess].login = conn'[d].login
                    /\ conn'[d].pc = "resume" /\ conn'[d].login \in Persons
                         /\ sess[conn'[d].sess].sink # "gone" => conn'[d].place = "account"
  BY DEF ResumeInv
<1>1. CASE d = c
  BY <1>1
<1>2. CASE d # c
  BY <1>2 DEF ResumeInv, Only
<1> QED BY <1>1, <1>2

LEMMA AttachedKept ==
  ASSUME AttachedInv, NEW c \in Conns, Only(c), UNCHANGED sess, conn[c].pc # "up"
  PROVE  AttachedInv'
<1> SUFFICES ASSUME NEW s \in Sessions, sess[s].sink \in {"live", "lagged"}
             PROVE  /\ sess[s].conn \in Conns
                    /\ conn'[sess[s].conn].pc = "up"
                    /\ conn'[sess[s].conn].sess = s
                    /\ conn'[sess[s].conn].login = sess[s].login
  BY DEF AttachedInv
<1>1. /\ sess[s].conn \in Conns
      /\ conn[sess[s].conn].pc = "up"
      /\ conn[sess[s].conn].sess = s
      /\ conn[sess[s].conn].login = sess[s].login
  BY DEF AttachedInv
<1> QED BY <1>1 DEF Only

LEMMA SessKept ==
  ASSUME ResumeInv, AttachedInv, NEW c \in Conns, Only(c), UNCHANGED sess,
         conn[c].pc # "up", ~Resuming(conn'[c])
  PROVE  ResumeInv' /\ AttachedInv'
BY ResumeKept, AttachedKept

CountsKept ==
  AddrCounted' /\ AccountCounted' /\ PortCounted' /\ CapInv'

TokensKept == NameInv' /\ FromInv'

LEMMA StillCounts ==
  ASSUME Typed, IInv, NEW c \in Conns, Only(c),
         conn'[c].place = conn[c].place, conn'[c].addr = conn[c].addr,
         conn'[c].port = conn[c].port,
         conn'[c].login = conn[c].login \/ conn[c].place # "account",
         UNCHANGED <<liveVars, portLive>>
  PROVE  CountsKept
<1>1. UNCHANGED <<addrLive, wideLive>> /\ UNCHANGED acctLive /\ UNCHANGED portLive
  BY DEF liveVars
<1> QED BY <1>1, AddrKept, AccountKept, PortKept DEF IInv, CountsKept, CapInv

LEMMA StillTokens ==
  ASSUME Typed, IInv, NEW c \in Conns, Only(c),
         conn[c].pc \notin InName \cup InFrom, conn'[c].pc \notin InName \cup InFrom,
         UNCHANGED <<rateVars, guessVars>>
  PROVE  TokensKept
<1>1. UNCHANGED <<wrong, nameTok, nameFills>> /\ UNCHANGED <<wrongFrom, addrTok, addrFills>>
  BY DEF rateVars, guessVars
<1> QED BY <1>1, NameKept, FromKept DEF IInv, TokensKept

LEMMA StillTyped ==
  ASSUME Typed, NEW c \in Conns, Only(c), UNCHANGED <<sess, gateVars, guessVars>>
  PROVE  Typed'
BY DEF Typed, Only, gateVars, liveVars, rateVars, guessVars

\* A step that does no more than move to another pc.
LEMMA PlainStep ==
  ASSUME Typed, IInv, NEW c \in Conns, NEW pc \in Pcs, To(c, pc),
         UNCHANGED <<sess, gateVars, guessVars>>,
         conn[c].pc # "up", conn[c].pc \notin InName \cup InFrom,
         pc \notin InName \cup InFrom \cup {"gate", "resume", "uncarry"},
         PlaceAt(conn'[c])
  PROVE  Typed' /\ IInv'
<1>1. /\ Only(c) /\ conn'[c].pc = pc
      /\ conn'[c].addr = conn[c].addr /\ conn'[c].login = conn[c].login
      /\ conn'[c].place = conn[c].place /\ conn'[c].port = conn[c].port
      /\ conn'[c].sess = conn[c].sess
  BY Goes DEF Typed
<1>2. Typed'
  BY <1>1, StillTyped
<1>3. CountsKept
  BY <1>1, StillCounts DEF gateVars
<1>4. TokensKept
  BY <1>1, StillTokens DEF gateVars
<1>5. PlaceInv'
  BY <1>1, PlaceKept DEF IInv
<1>6. ResumeInv' /\ AttachedInv'
  BY <1>1, SessKept DEF IInv, Resuming
<1> QED BY <1>2, <1>3, <1>4, <1>5, <1>6 DEF IInv, CountsKept, TokensKept

LEMMA CloseOK ==
  ASSUME Typed, IInv, NEW c \in Conns, Only(c), conn[c].pc # "idle",
         conn'[c].pc \in {"close", "drop"}, conn'[c].addr = conn[c].addr,
         conn'[c].login = conn[c].login, conn'[c].place = conn[c].place
  PROVE  PlaceAt(conn'[c])
BY DEF IInv, PlaceInv, PlaceAt

-----------------------------------------------------------------------------
(* The socket. *)

LEMMA AcceptStep ==
  ASSUME Typed, IInv, NEW c \in Conns, NEW a \in Addrs, Accept(c, a)
  PROVE  Typed' /\ IInv'
<1>1. /\ Only(c) /\ conn[c].pc = "idle"
      /\ conn'[c].pc = "http" /\ conn'[c].addr = a
      /\ conn'[c].place = "none" /\ conn'[c].sess = NoSession
      /\ \/ ~conn'[c].port /\ UNCHANGED portLive
         \/ conn'[c].port /\ PortAdmit(a)
  BY AcceptAfter
<1>2. UNCHANGED <<liveVars, rateVars, sess, guessVars>>
  BY DEF Accept
<1>3. conn[c].place = "none" /\ ~conn[c].port
  BY <1>1 DEF IInv, PlaceInv, PlaceAt
<1>4. Typed'
  <2>1. portLive' \in [Addrs -> Nat]
    BY <1>1 DEF Typed, PortAdmit
  <2> QED BY <1>1, <1>2, <2>1 DEF Typed, Only, liveVars, rateVars, guessVars
<1>5. PlaceInv'
  BY <1>1, PlaceKept DEF IInv, PlaceAt
<1>6. ResumeInv' /\ AttachedInv'
  BY <1>1, <1>2, SessKept DEF IInv, Resuming
<1>7. AddrCounted' /\ AccountCounted'
  BY <1>1, <1>2, <1>3, AddrKept, AccountKept DEF IInv, liveVars
<1>8. PortCounted'
  <2>1. conn'[c].port = FALSE \/ conn'[c].port = TRUE
    BY <1>1 DEF Only, Conn
  <2>2. conn[c].port = FALSE
    BY <1>3 DEF Typed, Conn
  <2> QED BY <2>1, <2>2, <1>1, PortKept, PortTaken DEF IInv
<1>9. CapInv'
  BY <1>2 DEF IInv, CapInv, liveVars
<1>10. TokensKept
  BY <1>1, <1>2, StillTokens DEF InName, InFrom
<1> QED BY <1>4, <1>5, <1>6, <1>7, <1>8, <1>9, <1>10 DEF IInv, TokensKept

LEMMA UpgradeStep ==
  ASSUME Typed, IInv, NEW c \in Conns, Upgrade(c)
  PROVE  Typed' /\ IInv'
<1>1. /\ conn[c].pc = "http" /\ Admit(conn[c].addr)
      /\ conn' = [conn EXCEPT ![c].pc = "upgrade", ![c].place = "addr"]
      /\ UNCHANGED <<portLive, rateVars, sess, guessVars>>
  BY DEF Upgrade, At
<1>2. /\ Only(c) /\ conn'[c].pc = "upgrade" /\ conn'[c].place = "addr"
      /\ conn'[c].addr = conn[c].addr /\ conn'[c].login = conn[c].login
      /\ conn'[c].port = conn[c].port /\ conn'[c].sess = conn[c].sess
  BY <1>1, TakesPlace DEF Typed, Pcs, Places
<1>3. conn[c].place = "none" /\ conn[c].addr \in Addrs /\ conn[c].sess = NoSession
  BY <1>1 DEF IInv, PlaceInv, PlaceAt
<1>4. Typed'
  <2>1. addrLive' \in [Addrs -> Nat] /\ wideLive' \in [Wides -> Nat] /\ UNCHANGED acctLive
    BY <1>1, <1>3, LiveTyped DEF Typed, Admit
  <2> QED BY <1>1, <1>2, <2>1 DEF Typed, Only, rateVars, guessVars
<1>5. PlaceInv'
  BY <1>2, <1>3, PlaceKept DEF IInv, PlaceAt
<1>6. ResumeInv' /\ AttachedInv'
  BY <1>1, <1>2, SessKept DEF IInv, Resuming
<1>7. AddrCounted'
  BY <1>1, <1>2, <1>3, AddrTaken DEF IInv
<1>8. AccountCounted' /\ PortCounted' /\ CapInv'
  BY <1>1, <1>2, <1>3, AccountKept, PortKept DEF IInv, CapInv, Admit
<1>9. TokensKept
  BY <1>1, <1>2, StillTokens DEF InName, InFrom
<1> QED BY <1>4, <1>5, <1>6, <1>7, <1>8, <1>9 DEF IInv, TokensKept

LEMMA UnidentifiedStep ==
  ASSUME Typed, IInv, NEW c \in Conns, Unidentified(c)
  PROVE  Typed' /\ IInv'
<1>1. /\ conn[c].pc = "upgrade" /\ ReleaseAddr(conn[c].addr) /\ UNCHANGED acctLive
      /\ conn' = [conn EXCEPT ![c].pc = "http", ![c].place = "none"]
      /\ UNCHANGED <<portLive, rateVars, sess, guessVars>>
  BY DEF Unidentified, At
<1>2. /\ Only(c) /\ conn'[c].pc = "http" /\ conn'[c].place = "none"
      /\ conn'[c].addr = conn[c].addr /\ conn'[c].login = conn[c].login
      /\ conn'[c].port = conn[c].port /\ conn'[c].sess = conn[c].sess
  BY <1>1, TakesPlace DEF Typed, Pcs, Places
<1>3. conn[c].place = "addr" /\ conn[c].addr \in Addrs /\ conn[c].sess = NoSession
  BY <1>1 DEF IInv, PlaceInv, PlaceAt
<1>4. Typed'
  <2>1. addrLive' \in [Addrs -> Nat] /\ wideLive' \in [Wides -> Nat]
    BY <1>1, <1>3, LiveTyped DEF Typed
  <2> QED BY <1>1, <1>2, <2>1 DEF Typed, Only, rateVars, guessVars
<1>5. PlaceInv'
  BY <1>2, <1>3, PlaceKept DEF IInv, PlaceAt
<1>6. ResumeInv' /\ AttachedInv'
  BY <1>1, <1>2, SessKept DEF IInv, Resuming
<1>7. AddrCounted'
  BY <1>1, <1>2, <1>3, AddrGiven DEF IInv
<1>8. AccountCounted' /\ PortCounted' /\ CapInv'
  BY <1>1, <1>2, <1>3, AccountKept, PortKept DEF IInv, CapInv
<1>9. TokensKept
  BY <1>1, <1>2, StillTokens DEF InName, InFrom
<1> QED BY <1>4, <1>5, <1>6, <1>7, <1>8, <1>9 DEF IInv, TokensKept

LEMMA PlainSteps ==
  ASSUME Typed, IInv, NEW c \in Conns, Identified(c) \/ HangUp(c)
  PROVE  Typed' /\ IInv'
<1>1. CASE Identified(c)
  <2>1. To(c, "open") /\ conn[c].pc = "upgrade" /\ UNCHANGED <<sess, gateVars, guessVars>>
    BY <1>1 DEF Identified, At
  <2>2. /\ Only(c) /\ conn'[c].pc = "open"
        /\ conn'[c].addr = conn[c].addr /\ conn'[c].login = conn[c].login
        /\ conn'[c].place = conn[c].place /\ conn'[c].sess = conn[c].sess
    BY <2>1, Goes DEF Typed, Pcs
  <2>3. PlaceAt(conn'[c])
    BY <2>1, <2>2 DEF IInv, PlaceInv, PlaceAt
  <2> QED BY <2>1, <2>3, PlainStep DEF Pcs, InName, InFrom
<1>2. CASE HangUp(c)
  <2>1. /\ To(c, "close") /\ conn[c].pc \in {"http", "upgrade", "open"}
        /\ UNCHANGED <<sess, gateVars, guessVars>>
    BY <1>2 DEF HangUp, At
  <2>2. /\ Only(c) /\ conn'[c].pc = "close"
        /\ conn'[c].addr = conn[c].addr /\ conn'[c].login = conn[c].login
        /\ conn'[c].place = conn[c].place
    BY <2>1, Goes DEF Typed, Pcs
  <2>3. PlaceAt(conn'[c])
    BY <2>1, <2>2, CloseOK
  <2> QED BY <2>1, <2>3, PlainStep DEF Pcs, InName, InFrom
<1> QED BY <1>1, <1>2

-----------------------------------------------------------------------------
(* Login. *)

LEMMA LoginStartStep ==
  ASSUME Typed, IInv, NEW c \in Conns, NEW l \in Logins, LoginStart(c, l)
  PROVE  Typed' /\ IInv'
<1>1. /\ conn[c].pc = "open"
      /\ UNCHANGED <<liveVars, portLive, addrTok, sess, guessVars>>
  BY DEF LoginStart, At
<1>2. conn[c].place = "addr" /\ conn[c].addr \in Addrs /\ conn[c].sess = NoSession
  BY <1>1 DEF IInv, PlaceInv, PlaceAt
<1>3. CASE /\ TakeName(<<conn[c].addr, l>>)
           /\ conn' = [conn EXCEPT ![c].pc = "attempt", ![c].login = l]
  <2>1. /\ Only(c) /\ conn'[c].pc = "attempt" /\ conn'[c].login = l
        /\ conn'[c].addr = conn[c].addr /\ conn'[c].place = conn[c].place
        /\ conn'[c].port = conn[c].port /\ conn'[c].sess = conn[c].sess
    BY <1>3, TakesLogin DEF Typed, Pcs
  <2>2. nameTok' \in [Addrs \X Logins -> Nat]
    BY <1>2, <1>3 DEF TakeName, Typed
  <2>3. Typed'
    BY <1>1, <2>1, <2>2 DEF Typed, Only, liveVars, guessVars
  <2>4. PlaceInv'
    BY <1>2, <1>3, <2>1, PlaceKept DEF IInv, PlaceAt
  <2>5. ResumeInv' /\ AttachedInv'
    BY <1>1, <2>1, SessKept DEF IInv, Resuming
  <2>6. CountsKept
    BY <1>1, <1>2, <2>1, StillCounts
  <2>7. NameInv'
    BY <1>1, <1>2, <1>3, <2>1, NameTaken DEF IInv, InName, guessVars
  <2>8. FromInv'
    BY <1>1, <2>1, FromKept DEF IInv, InFrom, guessVars
  <2> QED BY <2>3, <2>4, <2>5, <2>6, <2>7, <2>8 DEF IInv, CountsKept
<1>4. CASE conn' = [conn EXCEPT ![c].pc = "close"] /\ UNCHANGED nameTok
  <2>1. To(c, "close") /\ UNCHANGED <<sess, gateVars, guessVars>>
    BY <1>1, <1>4 DEF To, gateVars, rateVars
  <2>2. /\ Only(c) /\ conn'[c].pc = "close"
        /\ conn'[c].addr = conn[c].addr /\ conn'[c].login = conn[c].login
        /\ conn'[c].place = conn[c].place
    BY <2>1, Goes DEF Typed, Pcs
  <2>3. PlaceAt(conn'[c])
    BY <1>1, <2>2, CloseOK
  <2> QED BY <1>1, <2>1, <2>3, PlainStep DEF Pcs, InName, InFrom
<1>5. CASE /\ UNCHANGED nameTok
           /\ conn' = [conn EXCEPT ![c].pc = "admit", ![c].login = l]
  <2>1. /\ Only(c) /\ conn'[c].pc = "admit" /\ conn'[c].login = l
        /\ conn'[c].addr = conn[c].addr /\ conn'[c].place = conn[c].place
        /\ conn'[c].port = conn[c].port /\ conn'[c].sess = conn[c].sess
    BY ZenonT(60), <1>5, TakesLogin DEF Typed, Pcs
  <2>2. UNCHANGED <<sess, gateVars, guessVars>>
    BY <1>1, <1>5 DEF gateVars, rateVars
  <2>3. Typed'
    BY <2>1, <2>2, StillTyped
  <2>4. PlaceInv'
    BY <1>2, <2>1, PlaceKept DEF IInv, PlaceAt
  <2>5. ResumeInv' /\ AttachedInv'
    BY <1>1, <2>1, SessKept DEF IInv, Resuming
  <2>6. CountsKept
    BY <1>1, <1>2, <2>1, StillCounts
  <2>7. TokensKept
    BY <1>1, <2>1, <2>2, StillTokens DEF InName, InFrom, gateVars
  <2> QED BY <2>3, <2>4, <2>5, <2>6, <2>7 DEF IInv, CountsKept, TokensKept
<1> QED BY <1>3, <1>4, <1>5 DEF LoginStart

\* The steps of an attempt: where it is, where it goes, and which of the two
\* buckets it leaves alone.
LEMMA AttemptStep ==
  ASSUME Typed, IInv, NEW c \in Conns, Only(c),
         conn[c].pc \in InName \cup InFrom,
         conn'[c].pc \in {"auth", "unname", "refund", "readdr", "admit", "close"},
         conn'[c].addr = conn[c].addr, conn'[c].login = conn[c].login,
         conn'[c].place = conn[c].place, conn'[c].port = conn[c].port,
         conn'[c].sess = conn[c].sess,
         UNCHANGED <<liveVars, portLive, sess, nameFills, addrFills>>,
         nameTok' \in [Addrs \X Logins -> Nat], addrTok' \in [Addrs -> Nat],
         wrong' \in [Addrs \X Logins -> Nat], wrongFrom' \in [Addrs -> Nat],
         NameInv', FromInv'
  PROVE  Typed' /\ IInv'
<1>1. conn[c].pc \in {"attempt", "unname", "auth", "refund", "readdr"}
  BY DEF InName, InFrom
<1>2. /\ conn[c].place = "addr" /\ conn[c].addr \in Addrs /\ conn[c].sess = NoSession
      /\ conn[c].login \in Logins
  BY <1>1 DEF IInv, PlaceInv, PlaceAt
<1>3. Typed'
  BY DEF Typed, Only, liveVars
<1>4. PlaceAt(conn'[c])
  BY <1>2, Constants DEF PlaceAt
<1>5. PlaceInv'
  BY <1>4, PlaceKept DEF IInv
<1>6. ResumeInv' /\ AttachedInv'
  BY <1>1, SessKept DEF IInv, Resuming
<1>7. CountsKept
  BY StillCounts
<1> QED BY <1>3, <1>5, <1>6, <1>7 DEF IInv, CountsKept

LEMMA AttemptKnows ==
  ASSUME IInv, NEW c \in Conns, conn[c].pc \in InName \cup InFrom
  PROVE  /\ conn[c].addr \in Addrs /\ conn[c].login \in Logins
         /\ Key(c) \in Addrs \X Logins
BY DEF IInv, PlaceInv, PlaceAt, InName, InFrom, Key

LEMMA BucketsTyped ==
  ASSUME Typed
  PROVE  /\ \A k \in Addrs \X Logins : FillName(k) => nameTok' \in [Addrs \X Logins -> Nat]
         /\ \A a \in Addrs : FillAddr(a) \/ TakeAddr(a) => addrTok' \in [Addrs -> Nat]
BY Constants DEF Typed, FillName, FillAddr, TakeAddr, Fuller

LEMMA LoginTakeAddrStep ==
  ASSUME Typed, IInv, NEW c \in Conns, LoginTakeAddr(c)
  PROVE  Typed' /\ IInv'
<1>1. /\ conn[c].pc = "attempt"
      /\ UNCHANGED <<liveVars, portLive, nameTok, sess, guessVars>>
  BY DEF LoginTakeAddr, At
<1>2. conn[c].addr \in Addrs
  BY <1>1, AttemptKnows DEF InName
<1>3. PICK pc \in {"auth", "unname"} :
        /\ To(c, pc)
        /\ \/ pc = "auth" /\ TakeAddr(conn[c].addr)
           \/ pc = "unname" /\ UNCHANGED addrTok
  BY DEF LoginTakeAddr
<1>4. /\ Only(c) /\ conn'[c].pc = pc
      /\ conn'[c].addr = conn[c].addr /\ conn'[c].login = conn[c].login
      /\ conn'[c].place = conn[c].place /\ conn'[c].port = conn[c].port
      /\ conn'[c].sess = conn[c].sess
  BY <1>3, Goes DEF Typed, Pcs
<1>5. NameInv'
  BY <1>1, <1>3, <1>4, NameKept DEF IInv, InName, guessVars
<1>6. FromInv'
  BY <1>1, <1>2, <1>3, <1>4, FromTaken, FromKept DEF IInv, InFrom, guessVars
<1>7. addrTok' \in [Addrs -> Nat]
  BY <1>2, <1>3, BucketsTyped DEF Typed
<1>8. /\ nameTok' \in [Addrs \X Logins -> Nat] /\ wrong' \in [Addrs \X Logins -> Nat]
      /\ wrongFrom' \in [Addrs -> Nat]
  BY <1>1 DEF Typed, guessVars
<1> QED BY <1>1, <1>3, <1>4, <1>5, <1>6, <1>7, <1>8, AttemptStep DEF InName, guessVars

\* LoginUnname and RefundName give the name's token back.
LEMMA RefundNameStep ==
  ASSUME Typed, IInv, NEW c \in Conns, LoginUnname(c) \/ RefundName(c)
  PROVE  Typed' /\ IInv'
<1>1. /\ FillName(Key(c)) /\ UNCHANGED <<liveVars, portLive, addrTok, sess, guessVars>>
      /\ \/ conn[c].pc = "unname" /\ To(c, "close")
         \/ conn[c].pc = "refund" /\ To(c, "readdr")
  BY DEF LoginUnname, RefundName, At
<1>2. PICK pc \in {"close", "readdr"} :
        /\ To(c, pc)
        /\ \/ conn[c].pc = "unname" /\ pc = "close"
           \/ conn[c].pc = "refund" /\ pc = "readdr"
  BY <1>1
<1>3. /\ Only(c) /\ conn'[c].pc = pc
      /\ conn'[c].addr = conn[c].addr /\ conn'[c].login = conn[c].login
      /\ conn'[c].place = conn[c].place /\ conn'[c].port = conn[c].port
      /\ conn'[c].sess = conn[c].sess
  BY <1>2, Goes DEF Typed, Pcs
<1>4. conn[c].addr \in Addrs /\ conn[c].login \in Logins /\ Key(c) \in Addrs \X Logins
  BY <1>2, AttemptKnows DEF InName
<1>5. NameInv'
  BY <1>1, <1>2, <1>3, <1>4, NameGiven DEF IInv, InName, guessVars
<1>6. FromInv'
  BY <1>1, <1>2, <1>3, FromKept DEF IInv, InFrom, guessVars
<1>7. nameTok' \in [Addrs \X Logins -> Nat]
  BY <1>1, <1>4, BucketsTyped
<1>8. /\ addrTok' \in [Addrs -> Nat] /\ wrong' \in [Addrs \X Logins -> Nat]
      /\ wrongFrom' \in [Addrs -> Nat]
  BY <1>1 DEF Typed, guessVars
<1> QED BY <1>1, <1>2, <1>3, <1>5, <1>6, <1>7, <1>8, AttemptStep DEF InName, guessVars

LEMMA RefundAddrStep ==
  ASSUME Typed, IInv, NEW c \in Conns, RefundAddr(c)
  PROVE  Typed' /\ IInv'
<1>1. /\ FillAddr(conn[c].addr) /\ conn[c].pc = "readdr"
      /\ UNCHANGED <<liveVars, portLive, nameTok, sess, guessVars>>
  BY DEF RefundAddr, At
<1>2. PICK pc \in {"close", "admit"} : To(c, pc)
  BY DEF RefundAddr
<1>3. /\ Only(c) /\ conn'[c].pc = pc
      /\ conn'[c].addr = conn[c].addr /\ conn'[c].login = conn[c].login
      /\ conn'[c].place = conn[c].place /\ conn'[c].port = conn[c].port
      /\ conn'[c].sess = conn[c].sess
  BY <1>2, Goes DEF Typed, Pcs
<1>4. conn[c].addr \in Addrs
  BY <1>1, AttemptKnows DEF InFrom
<1>5. NameInv'
  BY <1>1, <1>2, <1>3, NameKept DEF IInv, InName, guessVars
<1>6. FromInv'
  BY <1>1, <1>2, <1>3, <1>4, FromGiven DEF IInv, InFrom, guessVars
<1>7. addrTok' \in [Addrs -> Nat]
  BY <1>1, <1>4, BucketsTyped
<1>8. /\ nameTok' \in [Addrs \X Logins -> Nat] /\ wrong' \in [Addrs \X Logins -> Nat]
      /\ wrongFrom' \in [Addrs -> Nat]
  BY <1>1 DEF Typed, guessVars
<1> QED BY <1>1, <1>2, <1>3, <1>5, <1>6, <1>7, <1>8, AttemptStep DEF InFrom, guessVars

LEMMA VerdictStep ==
  ASSUME Typed, IInv, NEW c \in Conns, Verdict(c)
  PROVE  Typed' /\ IInv'
<1>1. conn[c].pc = "auth" /\ UNCHANGED <<gateVars, sess, nameFills, addrFills>>
  BY DEF Verdict, At
<1>2. /\ UNCHANGED <<liveVars, portLive, nameTok, addrTok>>
      /\ nameTok' \in [Addrs \X Logins -> Nat] /\ addrTok' \in [Addrs -> Nat]
  BY <1>1 DEF Typed, gateVars, rateVars
<1>3. conn[c].addr \in Addrs /\ conn[c].login \in Logins /\ Key(c) \in Addrs \X Logins
  BY <1>1, AttemptKnows DEF InName
<1>4. CASE /\ wrong' = [wrong EXCEPT ![Key(c)] = @ + 1]
           /\ wrongFrom' = [wrongFrom EXCEPT ![conn[c].addr] = @ + 1]
           /\ To(c, "close")
  <2>1. /\ Only(c) /\ conn'[c].pc = "close"
        /\ conn'[c].addr = conn[c].addr /\ conn'[c].login = conn[c].login
        /\ conn'[c].place = conn[c].place /\ conn'[c].port = conn[c].port
        /\ conn'[c].sess = conn[c].sess
    BY <1>4, Goes DEF Typed, Pcs
  <2>2. wrong' \in [Addrs \X Logins -> Nat] /\ wrongFrom' \in [Addrs -> Nat]
    BY <1>3, <1>4 DEF Typed
  <2>3. NameInv' /\ FromInv'
    BY <1>1, <1>2, <1>3, <1>4, <2>1, NameGiven, FromGiven DEF IInv, InName, InFrom
  <2> QED BY <1>1, <1>2, <2>1, <2>2, <2>3, AttemptStep DEF InName
<1>5. CASE /\ UNCHANGED <<wrong, wrongFrom>>
           /\ \E refused \in BOOLEAN :
                conn' = [conn EXCEPT ![c].pc = "refund", ![c].refused = refused]
  <2>1. /\ Only(c) /\ conn'[c].pc = "refund"
        /\ conn'[c].addr = conn[c].addr /\ conn'[c].login = conn[c].login
        /\ conn'[c].place = conn[c].place /\ conn'[c].port = conn[c].port
        /\ conn'[c].sess = conn[c].sess
    BY <1>5, TakesVerdict DEF Typed, Pcs
  <2>2. wrong' \in [Addrs \X Logins -> Nat] /\ wrongFrom' \in [Addrs -> Nat]
    BY <1>5 DEF Typed
  <2>3. NameInv' /\ FromInv'
    BY <1>1, <1>2, <1>5, <2>1, NameKept, FromKept DEF IInv, InName, InFrom
  <2> QED BY <1>1, <1>2, <2>1, <2>2, <2>3, AttemptStep DEF InName
<1> QED BY <1>4, <1>5 DEF Verdict

-----------------------------------------------------------------------------
(* The account's place. *)

LEMMA GateStep ==
  ASSUME Typed, IInv, NEW c \in Conns, conn[c].pc \in {"admit", "gate"},
         conn[c].login \in Persons, NEW slack \in {0, 1}, Gate(c, slack, "uncarry"),
         UNCHANGED <<portLive, rateVars, sess, guessVars>>
  PROVE  Typed' /\ IInv'
<1>1. /\ conn[c].place = "addr" /\ conn[c].addr \in Addrs /\ conn[c].login \in Logins
      /\ conn[c].pc = "admit" => conn[c].sess = NoSession
  BY Constants DEF IInv, PlaceInv, PlaceAt
<1>2. CASE /\ Room(conn[c].login, slack)
           /\ MoveToAccount(conn[c].addr, conn[c].login)
           /\ conn' = [conn EXCEPT ![c].pc = "uncarry", ![c].place = "account"]
  <2>1. /\ Only(c) /\ conn'[c].pc = "uncarry" /\ conn'[c].place = "account"
        /\ conn'[c].addr = conn[c].addr /\ conn'[c].login = conn[c].login
        /\ conn'[c].port = conn[c].port /\ conn'[c].sess = conn[c].sess
    BY <1>2, TakesPlace DEF Typed, Pcs, Places
  <2>2. /\ acctLive' = [acctLive EXCEPT ![conn[c].login] = @ + 1]
        /\ ReleaseAddr(conn[c].addr)
    BY <1>2 DEF MoveToAccount
  <2>3. Typed'
    <3>1. addrLive' \in [Addrs -> Nat] /\ wideLive' \in [Wides -> Nat]
      BY <1>1, <2>2, LiveTyped DEF Typed
    <3>2. acctLive' \in [Logins -> Nat]
      BY <1>1, <2>2 DEF Typed
    <3> QED BY <2>1, <3>1, <3>2 DEF Typed, Only, rateVars, guessVars
  <2>4. PlaceInv'
    BY <1>1, <2>1, PlaceKept DEF IInv, PlaceAt
  <2>5. ResumeInv'
    <3>1. conn[c].sess # NoSession => Resuming(conn[c])
      BY <1>1 DEF Resuming
    <3>2. Resuming(conn'[c]) => Resuming(conn[c])
      BY <2>1, <3>1 DEF Resuming
    <3> QED BY <2>1, <3>2, ResumeKept DEF IInv, ResumeInv
  <2>6. AttachedInv'
    BY <2>1, AttachedKept DEF IInv
  <2>7. AddrCounted'
    BY <1>1, <2>1, <2>2, AddrGiven DEF IInv
  <2>8. AccountCounted'
    BY <1>1, <2>1, <2>2, AccountTaken DEF IInv
  <2>9. PortCounted'
    BY <2>1, PortKept DEF IInv
  <2>10. CapInv'
    <3> SUFFICES ASSUME NEW l \in Persons PROVE acctLive'[l] <= PerAccount + 1
      BY DEF CapInv
    <3>1. l \in Logins /\ PerAccount \in Nat /\ acctLive[l] \in Nat
      BY Constants DEF Typed
    <3>2. CASE l = conn[c].login
      <4>1. acctLive'[l] = acctLive[l] + 1
        BY <2>2, <3>1, <3>2 DEF Typed
      <4>2. acctLive[l] < PerAccount + slack
        BY <1>2, <3>2 DEF Room
      <4> QED BY <3>1, <4>1, <4>2
    <3>3. CASE l # conn[c].login
      BY <2>2, <3>1, <3>3 DEF Typed, IInv, CapInv
    <3> QED BY <3>2, <3>3
  <2>11. TokensKept
    BY <2>1, StillTokens DEF InName, InFrom
  <2> QED BY <2>3, <2>4, <2>5, <2>6, <2>7, <2>8, <2>9, <2>10, <2>11 DEF IInv, TokensKept
<1>3. CASE UNCHANGED liveVars /\ To(c, "close")
  <2>1. UNCHANGED <<sess, gateVars, guessVars>>
    BY <1>3 DEF gateVars
  <2>2. /\ Only(c) /\ conn'[c].pc = "close"
        /\ conn'[c].addr = conn[c].addr /\ conn'[c].login = conn[c].login
        /\ conn'[c].place = conn[c].place
    BY <1>3, Goes DEF Typed, Pcs
  <2>3. PlaceAt(conn'[c])
    BY <2>2, CloseOK
  <2> QED BY <1>3, <2>1, <2>3, PlainStep DEF Pcs, InName, InFrom
<1> QED BY <1>2, <1>3 DEF Gate

LEMMA AdmitAccountStep ==
  ASSUME Typed, IInv, NEW c \in Conns, AdmitAccount(c)
  PROVE  Typed' /\ IInv'
<1>1. conn[c].pc = "admit" /\ UNCHANGED <<portLive, rateVars, sess, guessVars>>
  BY DEF AdmitAccount, At
<1>2. CASE Person(c) /\ Gate(c, 0, "uncarry")
  BY <1>1, <1>2, GateStep DEF Person
<1>3. CASE ~Person(c) /\ To(c, "attach") /\ UNCHANGED liveVars
  <2>1. UNCHANGED <<sess, gateVars, guessVars>>
    BY <1>1, <1>3 DEF gateVars
  <2>2. /\ Only(c) /\ conn'[c].pc = "attach"
        /\ conn'[c].addr = conn[c].addr /\ conn'[c].login = conn[c].login
        /\ conn'[c].place = conn[c].place /\ conn'[c].sess = conn[c].sess
    BY <1>3, Goes DEF Typed, Pcs
  <2>3. PlaceAt(conn'[c])
    BY <1>1, <1>3, <2>2 DEF IInv, PlaceInv, PlaceAt, Person
  <2> QED BY <1>1, <1>3, <2>1, <2>3, PlainStep DEF Pcs, InName, InFrom
<1> QED BY <1>2, <1>3 DEF AdmitAccount

LEMMA AdmitResumeStep ==
  ASSUME Typed, IInv, NEW c \in Conns, AdmitResume(c)
  PROVE  Typed' /\ IInv'
<1>1. /\ conn[c].pc = "gate" /\ Gate(c, conn[c].slack, "uncarry")
      /\ UNCHANGED <<portLive, rateVars, sess, guessVars>>
  BY DEF AdmitResume, At
<1>2. conn[c].slack \in {0, 1}
  BY DEF Typed, Conn
<1>3. conn[c].login \in Persons
  BY <1>1 DEF IInv, PlaceInv, PlaceAt
<1> QED BY <1>1, <1>2, <1>3, GateStep

LEMMA ResumeStartStep ==
  ASSUME Typed, IInv, NEW c \in Conns, NEW s \in Sessions, ResumeStart(c, s)
  PROVE  Typed' /\ IInv'
<1> DEFINE l == sess[s].login
           n == IF sess[s].sink \in {"live", "lagged"} THEN 1 ELSE 0
           pc == IF sess[s].sink # "gone" /\ sess[s].login \in Persons
                 THEN "gate" ELSE "resume"
<1>1. /\ conn[c].pc = "open" /\ sess[s].sink # "new"
      /\ conn' = [conn EXCEPT ![c].sess = s, ![c].login = l, ![c].slack = n, ![c].pc = pc]
      /\ UNCHANGED <<gateVars, sess, guessVars>>
  BY DEF ResumeStart, At
<1>2. /\ l \in Logins \cup {NoLogin} /\ n \in {0, 1} /\ pc \in {"gate", "resume"}
      /\ pc = "gate" => l \in Persons
      /\ pc = "resume" => sess[s].sink = "gone" \/ l \notin Persons
  BY DEF Typed, Sess
<1> HIDE DEF l, n, pc
<1>3. /\ Only(c) /\ conn'[c].pc = pc /\ conn'[c].sess = s /\ conn'[c].login = l
      /\ conn'[c].addr = conn[c].addr /\ conn'[c].place = conn[c].place
      /\ conn'[c].port = conn[c].port
  <2>1. pc \in Pcs /\ conn \in [Conns -> Conn]
    BY <1>2 DEF Typed, Pcs
  <2>2. l \in Logins \cup {NoLogin} /\ n \in {0, 1}
    BY <1>2
  <2> DEFINE k == [conn[c] EXCEPT !.sess = s, !.login = l, !.slack = n, !.pc = pc]
  <2>3. /\ k \in Conn
        /\ k.pc = pc /\ k.sess = s /\ k.login = l
        /\ k.addr = conn[c].addr /\ k.place = conn[c].place /\ k.port = conn[c].port
    BY <2>1, <2>2 DEF Conn
  <2>4. conn' = [conn EXCEPT ![c] = k]
    BY <1>1, <2>1
  <2> HIDE DEF k
  <2> QED BY <2>1, <2>3, <2>4, Becomes
<1>4. conn[c].place = "addr" /\ conn[c].addr \in Addrs
  BY <1>1 DEF IInv, PlaceInv, PlaceAt
<1>5. Typed'
  BY <1>1, <1>3, StillTyped
<1>6. PlaceInv'
  BY <1>2, <1>3, <1>4, PlaceKept DEF IInv, PlaceAt
<1>7. ResumeInv'
  BY <1>1, <1>2, <1>3, ResumeKept DEF IInv, l
<1>8. AttachedInv'
  BY <1>1, <1>3, AttachedKept DEF IInv
<1>9. CountsKept
  BY <1>1, <1>3, <1>4, StillCounts DEF gateVars
<1>10. TokensKept
  BY <1>1, <1>2, <1>3, StillTokens DEF gateVars, InName, InFrom
<1> QED BY <1>5, <1>6, <1>7, <1>8, <1>9, <1>10 DEF IInv, CountsKept, TokensKept

LEMMA UncarryStep ==
  ASSUME Typed, IInv, NEW c \in Conns, Uncarry(c)
  PROVE  Typed' /\ IInv'
<1> DEFINE pc == IF conn[c].sess = NoSession THEN "attach" ELSE "resume"
<1>1. /\ conn[c].pc = "uncarry" /\ PortRelease(conn[c].addr, conn[c].port)
      /\ conn' = [conn EXCEPT ![c].port = FALSE, ![c].pc = pc]
      /\ UNCHANGED <<liveVars, rateVars, sess, guessVars>>
  BY DEF Uncarry, At
<1>2. pc \in {"attach", "resume"} /\ (pc = "resume" => conn[c].sess # NoSession)
  OBVIOUS
<1> HIDE DEF pc
<1>3. /\ Only(c) /\ conn'[c].pc = pc /\ conn'[c].port = FALSE
      /\ conn'[c].addr = conn[c].addr /\ conn'[c].place = conn[c].place
      /\ conn'[c].login = conn[c].login /\ conn'[c].sess = conn[c].sess
  BY <1>1, <1>2, TakesPort DEF Typed, Pcs
<1>4. conn[c].place = "account" /\ conn[c].addr \in Addrs /\ conn[c].login \in Logins
  BY <1>1 DEF IInv, PlaceInv, PlaceAt
<1>5. Typed'
  <2>1. portLive' \in [Addrs -> Nat]
    <3>1. conn[c].port \in BOOLEAN
      BY DEF Typed, Conn
    <3> QED BY <1>1, <1>4, <3>1, PortTyped DEF Typed
  <2> QED BY <1>1, <1>3, <2>1 DEF Typed, Only, liveVars, rateVars, guessVars
<1>6. PlaceInv'
  BY <1>2, <1>3, <1>4, PlaceKept DEF IInv, PlaceAt
<1>7. ResumeInv'
  <2>1. Resuming(conn'[c]) => Resuming(conn[c])
    BY <1>1, <1>2, <1>3 DEF Resuming
  <2> QED BY <1>1, <1>3, <1>4, <2>1, ResumeKept DEF IInv, ResumeInv
<1>8. AttachedInv'
  BY <1>1, <1>3, AttachedKept DEF IInv
<1>9. AddrCounted' /\ AccountCounted' /\ CapInv'
  BY <1>1, <1>3, AddrKept, AccountKept DEF IInv, CapInv, liveVars
<1>10. PortCounted'
  BY <1>1, <1>3, <1>4, PortGiven DEF IInv
<1>11. TokensKept
  BY <1>1, <1>2, <1>3, StillTokens DEF InName, InFrom
<1> QED BY <1>5, <1>6, <1>7, <1>8, <1>9, <1>10, <1>11 DEF IInv, TokensKept

-----------------------------------------------------------------------------
(* The session. *)

LEMMA AttachStep ==
  ASSUME Typed, IInv, NEW c \in Conns, NEW s \in Sessions, Attach(c, s)
  PROVE  Typed' /\ IInv'
<1>1. /\ conn[c].pc = "attach" /\ sess[s].sink = "new"
      /\ sess' = [sess EXCEPT ![s] = [sink |-> "live", conn |-> c,
                                      login |-> conn[c].login]]
      /\ conn' = [conn EXCEPT ![c].pc = "up", ![c].sess = s]
      /\ UNCHANGED <<gateVars, guessVars>>
  BY DEF Attach, At
<1>2. /\ Only(c) /\ conn'[c].pc = "up" /\ conn'[c].sess = s
      /\ conn'[c].addr = conn[c].addr /\ conn'[c].login = conn[c].login
      /\ conn'[c].place = conn[c].place /\ conn'[c].port = conn[c].port
  BY <1>1, TakesSession DEF Typed, Pcs
<1>3. conn[c].login \in Logins
  BY <1>1 DEF IInv, PlaceInv, PlaceAt
<1>4. /\ sess' \in [Sessions -> Sess]
      /\ sess'[s].sink = "live" /\ sess'[s].conn = c /\ sess'[s].login = conn[c].login
      /\ \A t \in Sessions : t # s => sess'[t] = sess[t]
  <2> DEFINE r == [sink |-> "live", conn |-> c, login |-> conn[c].login]
  <2>1. r \in Sess /\ r.sink = "live" /\ r.conn = c /\ r.login = conn[c].login
    BY <1>3 DEF Sess, Sinks
  <2>2. sess' = [sess EXCEPT ![s] = r]
    BY <1>1
  <2> HIDE DEF r
  <2> QED BY <2>1, <2>2 DEF Typed
<1>5. Typed'
  BY <1>1, <1>2, <1>4 DEF Typed, Only, gateVars, liveVars, rateVars, guessVars
<1>6. PlaceInv'
  BY <1>1, <1>2, PlaceKept DEF IInv, PlaceInv, PlaceAt
<1>7. ResumeInv'
  <2> SUFFICES ASSUME NEW d \in Conns, Resuming(conn'[d])
               PROVE  /\ conn'[d].sess \in Sessions
                      /\ sess'[conn'[d].sess].sink # "new"
                      /\ sess'[conn'[d].sess].login = conn'[d].login
                      /\ conn'[d].pc = "resume" /\ conn'[d].login \in Persons
                           /\ sess'[conn'[d].sess].sink # "gone"
                         => conn'[d].place = "account"
    BY DEF ResumeInv
  <2>1. d # c
    BY <1>2 DEF Resuming
  <2>2. conn'[d] = conn[d]
    BY <1>2, <2>1 DEF Only
  <2>3. conn[d].sess \in Sessions /\ sess[conn[d].sess].sink # "new"
    BY <2>2 DEF IInv, ResumeInv
  <2>4. conn[d].sess # s
    BY <1>1, <2>3
  <2> QED BY <1>4, <2>2, <2>3, <2>4 DEF IInv, ResumeInv
<1>8. AttachedInv'
  <2> SUFFICES ASSUME NEW t \in Sessions, sess'[t].sink \in {"live", "lagged"}
               PROVE  /\ sess'[t].conn \in Conns
                      /\ conn'[sess'[t].conn].pc = "up"
                      /\ conn'[sess'[t].conn].sess = t
                      /\ conn'[sess'[t].conn].login = sess'[t].login
    BY DEF AttachedInv
  <2>1. CASE t = s
    BY <1>2, <1>4, <2>1
  <2>2. CASE t # s
    <3>1. sess'[t] = sess[t]
      BY <1>4, <2>2
    <3>2. /\ sess[t].conn \in Conns
          /\ conn[sess[t].conn].pc = "up"
          /\ conn[sess[t].conn].sess = t
          /\ conn[sess[t].conn].login = sess[t].login
      BY <3>1 DEF IInv, AttachedInv
    <3> QED BY <1>1, <1>2, <3>1, <3>2 DEF Only
  <2> QED BY <2>1, <2>2
<1>9. CountsKept
  BY <1>1, <1>2, StillCounts DEF gateVars
<1>10. TokensKept
  BY <1>1, <1>2, StillTokens DEF gateVars, InName, InFrom
<1> QED BY <1>5, <1>6, <1>7, <1>8, <1>9, <1>10 DEF IInv, CountsKept, TokensKept

\* What a change of one session's sink and connection leaves of the others.
OnlySess(s) ==
  /\ sess' \in [Sessions -> Sess]
  /\ sess'[s].login = sess[s].login
  /\ \A t \in Sessions : t # s => sess'[t] = sess[t]

LEMMA ResumeStep ==
  ASSUME Typed, IInv, NEW c \in Conns, Resume(c)
  PROVE  Typed' /\ IInv'
<1> DEFINE s == conn[c].sess
<1>1. conn[c].pc = "resume" /\ UNCHANGED <<gateVars, guessVars>>
  BY DEF Resume, At
<1>2. /\ s \in Sessions /\ sess[s].sink # "new" /\ sess[s].login = conn[c].login
      /\ conn[c].login \in Persons /\ sess[s].sink # "gone" => conn[c].place = "account"
  BY <1>1 DEF IInv, ResumeInv, Resuming
<1> HIDE DEF s
<1>3. CASE /\ sess[s].sink # "gone"
           /\ sess' = [sess EXCEPT ![s].sink = "live", ![s].conn = c]
           /\ To(c, "up")
  <2>1. /\ Only(c) /\ conn'[c].pc = "up"
        /\ conn'[c].addr = conn[c].addr /\ conn'[c].login = conn[c].login
        /\ conn'[c].place = conn[c].place /\ conn'[c].port = conn[c].port
        /\ conn'[c].sess = s
    BY <1>3, Goes DEF Typed, Pcs, s
  <2>2. OnlySess(s) /\ sess'[s].sink = "live" /\ sess'[s].conn = c
    BY <1>2, <1>3 DEF OnlySess, Typed, Sess, Sinks
  <2>3. Typed'
    BY <1>1, <2>1, <2>2 DEF Typed, Only, OnlySess, gateVars, liveVars, rateVars, guessVars
  <2>4. PlaceAt(conn'[c])
    BY <1>1, <1>2, <1>3, <2>1 DEF IInv, PlaceInv, PlaceAt
  <2>5. PlaceInv'
    BY <2>1, <2>4, PlaceKept DEF IInv
  <2>6. ResumeInv'
    <3> SUFFICES ASSUME NEW d \in Conns, Resuming(conn'[d])
                 PROVE  /\ conn'[d].sess \in Sessions
                        /\ sess'[conn'[d].sess].sink # "new"
                        /\ sess'[conn'[d].sess].login = conn'[d].login
                        /\ conn'[d].pc = "resume" /\ conn'[d].login \in Persons
                             /\ sess'[conn'[d].sess].sink # "gone"
                           => conn'[d].place = "account"
      BY DEF ResumeInv
    <3>1. d # c /\ conn'[d] = conn[d]
      BY <2>1 DEF Resuming, Only
    <3>2. /\ conn[d].sess \in Sessions /\ sess[conn[d].sess].sink # "new"
          /\ sess[conn[d].sess].login = conn[d].login
          /\ conn[d].pc = "resume" /\ conn[d].login \in Persons
               /\ sess[conn[d].sess].sink # "gone" => conn[d].place = "account"
      BY <3>1 DEF IInv, ResumeInv
    <3>3. CASE conn[d].sess = s
      BY <1>3, <2>2, <3>1, <3>2, <3>3 DEF OnlySess
    <3>4. CASE conn[d].sess # s
      BY <2>2, <3>1, <3>2, <3>4 DEF OnlySess
    <3> QED BY <3>3, <3>4
  <2>7. AttachedInv'
    <3> SUFFICES ASSUME NEW t \in Sessions, sess'[t].sink \in {"live", "lagged"}
                 PROVE  /\ sess'[t].conn \in Conns
                        /\ conn'[sess'[t].conn].pc = "up"
                        /\ conn'[sess'[t].conn].sess = t
                        /\ conn'[sess'[t].conn].login = sess'[t].login
      BY DEF AttachedInv
    <3>1. CASE t = s
      BY <1>2, <2>1, <2>2, <3>1 DEF OnlySess
    <3>2. CASE t # s
      <4>1. sess'[t] = sess[t]
        BY <2>2, <3>2 DEF OnlySess
      <4>2. /\ sess[t].conn \in Conns
            /\ conn[sess[t].conn].pc = "up"
            /\ conn[sess[t].conn].sess = t
            /\ conn[sess[t].conn].login = sess[t].login
        BY <4>1 DEF IInv, AttachedInv
      <4> QED BY <1>1, <2>1, <4>1, <4>2 DEF Only
    <3> QED BY <3>1, <3>2
  <2>8. CountsKept
    BY <1>1, <2>1, StillCounts DEF gateVars
  <2>9. TokensKept
    BY <1>1, <2>1, StillTokens DEF gateVars, InName, InFrom
  <2> QED BY <2>3, <2>5, <2>6, <2>7, <2>8, <2>9 DEF IInv, CountsKept, TokensKept
<1>4. CASE To(c, "close") /\ UNCHANGED sess
  <2>1. /\ Only(c) /\ conn'[c].pc = "close"
        /\ conn'[c].addr = conn[c].addr /\ conn'[c].login = conn[c].login
        /\ conn'[c].place = conn[c].place
    BY <1>4, Goes DEF Typed, Pcs
  <2>2. PlaceAt(conn'[c])
    BY <1>1, <2>1, CloseOK
  <2> QED BY <1>1, <1>4, <2>2, PlainStep DEF Pcs, InName, InFrom
<1> QED BY <1>3, <1>4 DEF Resume, s

\* A session that is no longer attached disturbs nothing.
LEMMA SessLeaves ==
  ASSUME Typed, ResumeInv, AttachedInv, NEW s \in Sessions, OnlySess(s), UNCHANGED conn,
         sess[s].sink # "new", sess'[s].sink # "new",
         sess[s].sink = "gone" => sess'[s].sink = "gone",
         \/ sess'[s].sink \notin {"live", "lagged"}
         \/ /\ sess'[s].conn = sess[s].conn /\ sess[s].sink \in {"live", "lagged"}
  PROVE  ResumeInv' /\ AttachedInv'
<1>1. ResumeInv'
  <2> SUFFICES ASSUME NEW d \in Conns, Resuming(conn[d])
               PROVE  /\ conn[d].sess \in Sessions
                      /\ sess'[conn[d].sess].sink # "new"
                      /\ sess'[conn[d].sess].login = conn[d].login
                      /\ conn[d].pc = "resume" /\ conn[d].login \in Persons
                           /\ sess'[conn[d].sess].sink # "gone"
                         => conn[d].place = "account"
    BY DEF ResumeInv
  <2>1. /\ conn[d].sess \in Sessions /\ sess[conn[d].sess].sink # "new"
        /\ sess[conn[d].sess].login = conn[d].login
        /\ conn[d].pc = "resume" /\ conn[d].login \in Persons
             /\ sess[conn[d].sess].sink # "gone" => conn[d].place = "account"
    BY DEF ResumeInv
  <2>2. CASE conn[d].sess = s
    BY <2>1, <2>2 DEF OnlySess
  <2>3. CASE conn[d].sess # s
    BY <2>1, <2>3 DEF OnlySess
  <2> QED BY <2>2, <2>3
<1>2. AttachedInv'
  <2> SUFFICES ASSUME NEW t \in Sessions, sess'[t].sink \in {"live", "lagged"}
               PROVE  /\ sess'[t].conn \in Conns
                      /\ conn[sess'[t].conn].pc = "up"
                      /\ conn[sess'[t].conn].sess = t
                      /\ conn[sess'[t].conn].login = sess'[t].login
    BY DEF AttachedInv
  <2>1. CASE t = s
    BY <2>1 DEF OnlySess, AttachedInv
  <2>2. CASE t # s
    BY <2>2 DEF OnlySess, AttachedInv
  <2> QED BY <2>1, <2>2
<1> QED BY <1>1, <1>2

\* The connection goes: what it carried has left it, or is not its own.
LEMMA CarrierGoes ==
  ASSUME ResumeInv, AttachedInv, NEW c \in Conns, Only(c), conn[c].pc = "up",
         conn'[c].pc = "close", sess \in [Sessions -> Sess],
         sess' \in [Sessions -> Sess],
         \A t \in Sessions :
           /\ sess'[t].login = sess[t].login
           /\ sess'[t].sink = "new" <=> sess[t].sink = "new"
           /\ sess[t].sink = "gone" => sess'[t].sink = "gone"
           /\ sess'[t].sink \in {"live", "lagged"} =>
                sess'[t] = sess[t] /\ sess[t].conn # c
  PROVE  ResumeInv' /\ AttachedInv'
<1>1. ResumeInv'
  <2> SUFFICES ASSUME NEW d \in Conns, Resuming(conn'[d])
               PROVE  /\ conn'[d].sess \in Sessions
                      /\ sess'[conn'[d].sess].sink # "new"
                      /\ sess'[conn'[d].sess].login = conn'[d].login
                      /\ conn'[d].pc = "resume" /\ conn'[d].login \in Persons
                           /\ sess'[conn'[d].sess].sink # "gone"
                         => conn'[d].place = "account"
    BY DEF ResumeInv
  <2>1. d # c /\ conn'[d] = conn[d]
    BY DEF Resuming, Only
  <2>2. /\ conn[d].sess \in Sessions /\ sess[conn[d].sess].sink # "new"
        /\ sess[conn[d].sess].login = conn[d].login
        /\ conn[d].pc = "resume" /\ conn[d].login \in Persons
             /\ sess[conn[d].sess].sink # "gone" => conn[d].place = "account"
    BY <2>1 DEF ResumeInv
  <2> QED BY <2>1, <2>2
<1>2. AttachedInv'
  <2> SUFFICES ASSUME NEW t \in Sessions, sess'[t].sink \in {"live", "lagged"}
               PROVE  /\ sess'[t].conn \in Conns
                      /\ conn'[sess'[t].conn].pc = "up"
                      /\ conn'[sess'[t].conn].sess = t
                      /\ conn'[sess'[t].conn].login = sess'[t].login
    BY DEF AttachedInv
  <2>1. sess'[t] = sess[t] /\ sess[t].conn # c
    OBVIOUS
  <2>2. /\ sess[t].conn \in Conns
        /\ conn[sess[t].conn].pc = "up"
        /\ conn[sess[t].conn].sess = t
        /\ conn[sess[t].conn].login = sess[t].login
    BY <2>1 DEF AttachedInv
  <2> QED BY <2>1, <2>2 DEF Only
<1> QED BY <1>1, <1>2

LEMMA LoseStep ==
  ASSUME Typed, IInv, NEW c \in Conns, Lose(c)
  PROVE  Typed' /\ IInv'
<1> DEFINE s == conn[c].sess
<1>1. conn[c].pc = "up" /\ To(c, "close") /\ UNCHANGED <<gateVars, guessVars>>
  BY DEF Lose, At
<1>2. \/ ~Holds(c) /\ UNCHANGED sess
      \/ /\ Holds(c)
         /\ \/ sess' = [sess EXCEPT ![s].conn = NoConn,
                          ![s].sink = IF @ = "lagged" THEN "broken" ELSE "buffering"]
            \/ sess' = [sess EXCEPT ![s].conn = NoConn, ![s].sink = "gone"]
  BY DEF Lose
<1>3. /\ Only(c) /\ conn'[c].pc = "close"
      /\ conn'[c].addr = conn[c].addr /\ conn'[c].login = conn[c].login
      /\ conn'[c].place = conn[c].place /\ conn'[c].port = conn[c].port
      /\ conn'[c].sess = s
  BY <1>1, Goes DEF Typed, Pcs
<1>4. s \in Sessions \cup {NoSession}
  BY DEF Typed, Conn
<1> HIDE DEF s
<1>5. \A t \in Sessions : sess[t].sink \in {"live", "lagged"} /\ sess[t].conn = c
                           => t = s /\ Holds(c)
  BY Constants DEF IInv, AttachedInv, Holds, s
<1>6. /\ sess' \in [Sessions -> Sess]
      /\ \A t \in Sessions :
           /\ sess'[t].login = sess[t].login
           /\ sess'[t].sink = "new" <=> sess[t].sink = "new"
           /\ sess[t].sink = "gone" => sess'[t].sink = "gone"
           /\ sess'[t].sink \in {"live", "lagged"} =>
                sess'[t] = sess[t] /\ sess[t].conn # c
  <2>1. CASE ~Holds(c) /\ UNCHANGED sess
    BY <1>5, <2>1 DEF Typed
  <2>2. CASE /\ Holds(c)
             /\ \/ sess' = [sess EXCEPT ![s].conn = NoConn,
                              ![s].sink = IF @ = "lagged" THEN "broken" ELSE "buffering"]
                \/ sess' = [sess EXCEPT ![s].conn = NoConn, ![s].sink = "gone"]
    <3>1. s \in Sessions /\ sess[s].sink \in {"live", "lagged"}
      BY <1>4, <2>2 DEF Holds, s
    <3>2. sess' \in [Sessions -> Sess]
      BY <2>2, <3>1 DEF Typed, Sess, Sinks
    <3>3. /\ sess'[s].login = sess[s].login
          /\ sess'[s].sink \in {"broken", "buffering", "gone"}
          /\ \A t \in Sessions : t # s => sess'[t] = sess[t]
      BY <2>2, <3>1 DEF Typed, Sess
    <3> QED BY <1>5, <3>1, <3>2, <3>3
  <2> QED BY <1>2, <2>1, <2>2
<1>7. Typed'
  BY <1>1, <1>3, <1>6 DEF Typed, Only, gateVars, liveVars, rateVars, guessVars
<1>8. PlaceInv'
  <2>1. PlaceAt(conn'[c])
    BY <1>1, <1>3, CloseOK
  <2> QED BY <1>3, <2>1, PlaceKept DEF IInv
<1>9. ResumeInv' /\ AttachedInv'
  BY <1>1, <1>3, <1>6, CarrierGoes DEF IInv, Typed
<1>10. CountsKept
  BY <1>1, <1>3, StillCounts DEF gateVars
<1>11. TokensKept
  BY <1>1, <1>3, StillTokens DEF gateVars, InName, InFrom
<1> QED BY <1>7, <1>8, <1>9, <1>10, <1>11 DEF IInv, CountsKept, TokensKept

\* A step that changes sessions and nothing a gate or a connection holds.
LEMMA SessStep ==
  ASSUME Typed, IInv, UNCHANGED <<conn, gateVars, guessVars>>,
         sess' \in [Sessions -> Sess], ResumeInv' /\ AttachedInv'
  PROVE  Typed' /\ IInv'
<1>1. /\ UNCHANGED <<addrLive, wideLive, acctLive, portLive, nameTok, addrTok>>
      /\ UNCHANGED <<wrong, wrongFrom, nameFills, addrFills>>
  BY DEF gateVars, liveVars, rateVars, guessVars
<1>2. Typed'
  BY <1>1 DEF Typed
<1>3. PlaceInv' /\ CapInv'
  BY <1>1 DEF IInv, PlaceInv, CapInv
<1>4. AddrCounted' /\ AccountCounted' /\ PortCounted'
  BY <1>1 DEF IInv, AddrCounted, AccountCounted, PortCounted, AddrHolders, WideHolders,
              AccountHolders, PortHolders
<1>5. NameInv' /\ FromInv'
  BY <1>1 DEF IInv, NameInv, FromInv, NameHolders, TokenHolders
<1> QED BY <1>2, <1>3, <1>4, <1>5 DEF IInv

LEMMA EndSessionStep ==
  ASSUME Typed, IInv, NEW s \in Sessions, EndSession(s)
  PROVE  Typed' /\ IInv'
<1>1. /\ sess[s].sink \notin {"new", "gone"}
      /\ sess' = [sess EXCEPT ![s].sink = "gone", ![s].conn = NoConn]
      /\ UNCHANGED <<conn, gateVars, guessVars>>
  BY DEF EndSession
<1>2. OnlySess(s) /\ sess'[s].sink = "gone"
  BY <1>1 DEF OnlySess, Typed, Sess, Sinks
<1>3. ResumeInv' /\ AttachedInv'
  BY <1>1, <1>2, SessLeaves DEF IInv
<1> QED BY <1>1, <1>2, <1>3, SessStep DEF OnlySess

\* A queue that lags or a buffer that breaks.
LEMMA BreakStep ==
  ASSUME Typed, IInv, NEW s \in Sessions, sess[s].sink \notin {"new", "gone"},
         sess' = [sess EXCEPT ![s].sink = "broken"],
         UNCHANGED <<conn, gateVars, guessVars>>
  PROVE  Typed' /\ IInv'
<1>1. OnlySess(s) /\ sess'[s].sink = "broken"
  BY DEF OnlySess, Typed, Sess, Sinks
<1>2. ResumeInv' /\ AttachedInv'
  BY <1>1, SessLeaves DEF IInv
<1> QED BY <1>1, <1>2, SessStep DEF OnlySess

LEMMA LagStep ==
  ASSUME Typed, IInv, NEW q \in Conns, UNCHANGED <<conn, gateVars, guessVars>>,
         sess' = [s \in Sessions |-> IF sess[s].sink = "live" /\ sess[s].conn = q
                                     THEN [sess[s] EXCEPT !.sink = "lagged"] ELSE sess[s]]
  PROVE  Typed' /\ IInv'
<1>1. /\ sess' \in [Sessions -> Sess]
      /\ \A s \in Sessions :
           /\ sess'[s].login = sess[s].login /\ sess'[s].conn = sess[s].conn
           /\ \/ sess'[s].sink = sess[s].sink
              \/ sess'[s].sink = "lagged" /\ sess[s].sink = "live"
  BY DEF Typed, Sess, Sinks
<1>2. ResumeInv'
  <2> SUFFICES ASSUME NEW d \in Conns, Resuming(conn[d])
               PROVE  /\ conn[d].sess \in Sessions
                      /\ sess'[conn[d].sess].sink # "new"
                      /\ sess'[conn[d].sess].login = conn[d].login
                      /\ conn[d].pc = "resume" /\ conn[d].login \in Persons
                           /\ sess'[conn[d].sess].sink # "gone"
                         => conn[d].place = "account"
    BY DEF ResumeInv
  <2>1. /\ conn[d].sess \in Sessions /\ sess[conn[d].sess].sink # "new"
        /\ sess[conn[d].sess].login = conn[d].login
        /\ conn[d].pc = "resume" /\ conn[d].login \in Persons
             /\ sess[conn[d].sess].sink # "gone" => conn[d].place = "account"
    BY DEF IInv, ResumeInv
  <2> QED BY <1>1, <2>1
<1>3. AttachedInv'
  BY <1>1 DEF IInv, AttachedInv
<1> QED BY <1>1, <1>2, <1>3, SessStep

-----------------------------------------------------------------------------
(* The end of a connection. *)

LEMMA CloseQueueStep ==
  ASSUME Typed, IInv, NEW c \in Conns, CloseQueue(c)
  PROVE  Typed' /\ IInv'
<1>1. /\ conn[c].pc = "close" /\ To(c, "drop")
      /\ UNCHANGED <<sess, gateVars, guessVars>>
  BY DEF CloseQueue, At
<1>2. /\ Only(c) /\ conn'[c].pc = "drop"
      /\ conn'[c].addr = conn[c].addr /\ conn'[c].login = conn[c].login
      /\ conn'[c].place = conn[c].place
  BY <1>1, Goes DEF Typed, Pcs
<1>3. PlaceAt(conn'[c])
  BY <1>1, <1>2, CloseOK
<1> QED BY <1>1, <1>3, PlainStep DEF Pcs, InName, InFrom

LEMMA DropPlaceStep ==
  ASSUME Typed, IInv, NEW c \in Conns, DropPlace(c)
  PROVE  Typed' /\ IInv'
<1>1. /\ conn[c].pc = "drop"
      /\ ReleasePlace(conn[c].place, conn[c].addr, conn[c].login)
      /\ conn' = [conn EXCEPT ![c].pc = "unport", ![c].place = "none"]
      /\ UNCHANGED <<portLive, rateVars, sess, guessVars>>
  BY DEF DropPlace, At
<1>2. /\ Only(c) /\ conn'[c].pc = "unport" /\ conn'[c].place = "none"
      /\ conn'[c].addr = conn[c].addr /\ conn'[c].login = conn[c].login
      /\ conn'[c].port = conn[c].port /\ conn'[c].sess = conn[c].sess
  <2>1. conn \in [Conns -> Conn] /\ "unport" \in Pcs /\ "none" \in Places
    BY DEF Typed, Pcs, Places
  <2>2. conn' = [conn EXCEPT ![c].pc = "unport", ![c].place = "none"]
    BY <1>1
  <2> QED BY <2>1, <2>2, TakesPlace
<1>3. /\ conn[c].addr \in Addrs
      /\ conn[c].place = "account" => conn[c].login \in Logins
  BY <1>1 DEF IInv, PlaceInv, PlaceAt
<1>4. /\ addrLive' \in [Addrs -> Nat] /\ wideLive' \in [Wides -> Nat]
      /\ acctLive' \in [Logins -> Nat]
      /\ \A l \in Logins : acctLive'[l] <= acctLive[l]
      /\ AddrCounted' /\ AccountCounted'
  <2>1. CASE conn[c].place = "addr" /\ ReleaseAddr(conn[c].addr) /\ UNCHANGED acctLive
    <3>1. addrLive' \in [Addrs -> Nat] /\ wideLive' \in [Wides -> Nat]
      BY <1>3, <2>1, LiveTyped DEF Typed
    <3>2. AddrCounted'
      BY <1>2, <1>3, <2>1, AddrGiven DEF IInv
    <3>3. AccountCounted'
      BY <1>2, <2>1, AccountKept DEF IInv
    <3> QED BY <2>1, <3>1, <3>2, <3>3 DEF Typed
  <2>2. CASE /\ conn[c].place = "account"
             /\ acctLive' = [acctLive EXCEPT ![conn[c].login] = Less(@)]
             /\ UNCHANGED <<addrLive, wideLive>>
    <3>1. conn[c].login \in Logins
      BY <1>3, <2>2
    <3>2. \A l \in Logins : acctLive'[l] =
            IF l = conn[c].login THEN Less(acctLive[l]) ELSE acctLive[l]
      BY <2>2, <3>1 DEF Typed
    <3>3. acctLive' \in [Logins -> Nat] /\ \A l \in Logins : acctLive'[l] <= acctLive[l]
      <4>1. \A n \in Nat : Less(n) \in Nat /\ Less(n) <= n /\ n <= n
        BY DEF Less
      <4>2. acctLive \in [Logins -> Nat] /\ acctLive' = [l \in Logins |-> acctLive'[l]]
        BY <2>2 DEF Typed
      <4> QED BY <3>2, <4>1, <4>2
    <3>4. AccountCounted'
      BY <1>2, <2>2, <3>1, AccountGiven DEF IInv
    <3>5. AddrCounted'
      BY <1>2, <2>2, AddrKept DEF IInv
    <3> QED BY <2>2, <3>3, <3>4, <3>5 DEF Typed
  <2>3. CASE conn[c].place = "none" /\ UNCHANGED liveVars
    <3>1. UNCHANGED <<addrLive, wideLive>> /\ UNCHANGED acctLive
      BY <2>3 DEF liveVars
    <3>2. AddrCounted' /\ AccountCounted'
      BY <1>2, <2>3, <3>1, AddrKept, AccountKept DEF IInv
    <3> QED BY <3>1, <3>2 DEF Typed
  <2> QED BY <1>1, <2>1, <2>2, <2>3 DEF ReleasePlace
<1>5. Typed'
  BY <1>1, <1>2, <1>4 DEF Typed, Only, rateVars, guessVars
<1>6. PlaceInv'
  BY <1>2, <1>3, PlaceKept DEF IInv, PlaceAt
<1>7. ResumeInv' /\ AttachedInv'
  BY <1>1, <1>2, SessKept DEF IInv, Resuming
<1>8. PortCounted'
  BY <1>1, <1>2, PortKept DEF IInv
<1>9. CapInv'
  <2> SUFFICES ASSUME NEW l \in Persons PROVE acctLive'[l] <= PerAccount + 1
    BY DEF CapInv
  <2>1. l \in Logins /\ acctLive[l] \in Nat /\ acctLive'[l] \in Nat /\ PerAccount \in Nat
    BY <1>4, Constants DEF Typed
  <2> QED BY <1>4, <2>1 DEF IInv, CapInv
<1>10. TokensKept
  BY <1>1, <1>2, StillTokens DEF InName, InFrom
<1> QED BY <1>4, <1>5, <1>6, <1>7, <1>8, <1>9, <1>10 DEF IInv, TokensKept

LEMMA DropPortStep ==
  ASSUME Typed, IInv, NEW c \in Conns, DropPort(c)
  PROVE  Typed' /\ IInv'
<1>1. /\ conn[c].pc = "unport" /\ PortRelease(conn[c].addr, conn[c].port)
      /\ conn' = [conn EXCEPT ![c] = Gone]
      /\ UNCHANGED <<liveVars, rateVars, sess, guessVars>>
  BY DEF DropPort, At
<1>2. /\ Only(c) /\ conn'[c].pc = "idle" /\ conn'[c].place = "none"
      /\ conn'[c].port = FALSE /\ conn'[c].sess = NoSession
  BY <1>1, Becomes, GoneIsConn DEF Typed
<1>3. conn[c].place = "none" /\ conn[c].addr \in Addrs
  BY <1>1 DEF IInv, PlaceInv, PlaceAt
<1>4. Typed'
  <2>1. portLive' \in [Addrs -> Nat]
    <3>1. conn[c].port \in BOOLEAN
      BY DEF Typed, Conn
    <3> QED BY <1>1, <1>3, <3>1, PortTyped DEF Typed
  <2> QED BY <1>1, <1>2, <2>1 DEF Typed, Only, liveVars, rateVars, guessVars
<1>5. PlaceInv'
  BY <1>2, PlaceKept DEF IInv, PlaceAt
<1>6. ResumeInv' /\ AttachedInv'
  BY <1>1, <1>2, SessKept DEF IInv, Resuming
<1>7. AddrCounted' /\ AccountCounted' /\ CapInv'
  BY <1>1, <1>2, <1>3, AddrKept, AccountKept DEF IInv, CapInv, liveVars
<1>8. PortCounted'
  BY <1>1, <1>2, <1>3, PortGiven DEF IInv
<1>9. TokensKept
  BY <1>1, <1>2, StillTokens DEF InName, InFrom
<1> QED BY <1>4, <1>5, <1>6, <1>7, <1>8, <1>9 DEF IInv, TokensKept

-----------------------------------------------------------------------------
(* Time. *)

LEMMA RefillStep ==
  ASSUME Typed, IInv, Refill
  PROVE  Typed' /\ IInv'
<1>1. /\ UNCHANGED <<conn, sess, addrLive, wideLive, acctLive, portLive>>
      /\ UNCHANGED <<wrong, wrongFrom>>
  BY DEF Refill, liveVars
<1>2. /\ PlaceInv' /\ ResumeInv' /\ AttachedInv' /\ CapInv'
      /\ AddrCounted' /\ AccountCounted' /\ PortCounted'
  BY <1>1 DEF IInv, PlaceInv, ResumeInv, AttachedInv, CapInv, AddrCounted, AccountCounted,
              PortCounted, AddrHolders, WideHolders, AccountHolders, PortHolders
<1>3. /\ \A k : NameHolders(k)' = NameHolders(k)
      /\ \A a : TokenHolders(a)' = TokenHolders(a)
  BY <1>1 DEF NameHolders, TokenHolders
<1>4. /\ \A k : Cardinality(NameHolders(k)) \in Nat
      /\ \A a : Cardinality(TokenHolders(a)) \in Nat
  <2>1. ASSUME NEW k PROVE Cardinality(NameHolders(k)) \in Nat
    BY Constants, FS_Subset, FS_CardinalityType DEF NameHolders
  <2>2. ASSUME NEW a PROVE Cardinality(TokenHolders(a)) \in Nat
    BY Constants, FS_Subset, FS_CardinalityType DEF TokenHolders
  <2> QED BY <2>1, <2>2
<1>5. ASSUME NEW k \in Addrs \X Logins, nameTok[k] < NameBurst, FillName(k),
             nameFills' = [nameFills EXCEPT ![k] = @ + 1],
             UNCHANGED <<addrTok, addrFills>>
      PROVE  Typed' /\ NameInv' /\ FromInv'
  <2>1. nameTok' = [nameTok EXCEPT ![k] = @ + 1]
    BY <1>5, Constants DEF FillName, Fuller, Typed
  <2>2. Typed'
    BY <1>1, <1>5, <2>1 DEF Typed
  <2>3. FromInv'
    BY <1>1, <1>3, <1>5 DEF IInv, FromInv
  <2>4. ASSUME NEW j \in Addrs \X Logins
        PROVE  wrong'[j] + nameTok'[j] + Cardinality(NameHolders(j)')
                 <= NameBurst + nameFills'[j]
    <3>1. /\ wrong[j] \in Nat /\ nameTok[j] \in Nat /\ nameFills[j] \in Nat
          /\ Cardinality(NameHolders(j)) \in Nat /\ NameBurst \in Nat
      BY <1>4, Constants DEF Typed
    <3>2. /\ nameTok'[j] = IF j = k THEN nameTok[j] + 1 ELSE nameTok[j]
          /\ nameFills'[j] = IF j = k THEN nameFills[j] + 1 ELSE nameFills[j]
          /\ wrong'[j] = wrong[j]
      BY <1>1, <1>5, <2>1 DEF Typed
    <3>3. wrong[j] + nameTok[j] + Cardinality(NameHolders(j)) <= NameBurst + nameFills[j]
      BY DEF IInv, NameInv
    <3>4. Cardinality(NameHolders(j)') = Cardinality(NameHolders(j))
      BY <1>3
    <3> QED BY <3>1, <3>2, <3>3, <3>4
  <2> QED BY <2>2, <2>3, <2>4 DEF NameInv
<1>6. ASSUME NEW a \in Addrs, addrTok[a] < AddrBurst, FillAddr(a),
             addrFills' = [addrFills EXCEPT ![a] = @ + 1],
             UNCHANGED <<nameTok, nameFills>>
      PROVE  Typed' /\ NameInv' /\ FromInv'
  <2>1. addrTok' = [addrTok EXCEPT ![a] = @ + 1]
    BY <1>6, Constants DEF FillAddr, Fuller, Typed
  <2>2. Typed'
    BY <1>1, <1>6, <2>1 DEF Typed
  <2>3. NameInv'
    BY <1>1, <1>3, <1>6 DEF IInv, NameInv
  <2>4. ASSUME NEW b \in Addrs
        PROVE  wrongFrom'[b] + addrTok'[b] + Cardinality(TokenHolders(b)')
                 <= AddrBurst + addrFills'[b]
    <3>1. /\ wrongFrom[b] \in Nat /\ addrTok[b] \in Nat /\ addrFills[b] \in Nat
          /\ Cardinality(TokenHolders(b)) \in Nat /\ AddrBurst \in Nat
      BY <1>4, Constants DEF Typed
    <3>2. /\ addrTok'[b] = IF b = a THEN addrTok[b] + 1 ELSE addrTok[b]
          /\ addrFills'[b] = IF b = a THEN addrFills[b] + 1 ELSE addrFills[b]
          /\ wrongFrom'[b] = wrongFrom[b]
      BY <1>1, <1>6, <2>1 DEF Typed
    <3>3. wrongFrom[b] + addrTok[b] + Cardinality(TokenHolders(b)) <= AddrBurst + addrFills[b]
      BY DEF IInv, FromInv
    <3>4. Cardinality(TokenHolders(b)') = Cardinality(TokenHolders(b))
      BY <1>3
    <3> QED BY <3>1, <3>2, <3>3, <3>4
  <2> QED BY <2>2, <2>3, <2>4 DEF FromInv
<1>7. Typed' /\ NameInv' /\ FromInv'
  BY <1>5, <1>6 DEF Refill
<1> QED BY <1>2, <1>7 DEF IInv

-----------------------------------------------------------------------------
(* The roster's lock. *)

LEMMA HubKept ==
  ASSUME HubInv, task' = [t \in Tasks |-> task'[t]], task'[Hub] = task[Hub],
         UNCHANGED sess \/ task[Hub] = Idle
  PROVE  HubInv'
<1>1. task[Hub] = Idle => task[Hub].pc \notin Taking
  BY DEF Idle, Taking
<1> QED BY <1>1 DEF HubInv

LEMMA HubUntouched ==
  ASSUME HubInv, UNCHANGED task, UNCHANGED sess \/ task[Hub] = Idle
  PROVE  HubInv'
BY HubKept DEF HubInv

\* A step of a thread that is not the roster's.
LEMMA OtherThread ==
  ASSUME HubInv, NEW t, t # Hub, NEW r, task' = [task EXCEPT ![t] = r],
         UNCHANGED sess \/ task[Hub] = Idle
  PROVE  HubInv'
<1>1. task' = [u \in Tasks |-> task'[u]] /\ task'[Hub] = task[Hub]
  BY Constants DEF HubInv
<1> QED BY <1>1, HubKept

LEMMA HubBecomes ==
  ASSUME HubInv, NEW r, task' = [task EXCEPT ![Hub] = r]
  PROVE  task' = [u \in Tasks |-> task'[u]] /\ task'[Hub] = r
BY Constants DEF HubInv

LEMMA TaskMade ==
  ASSUME NEW p, NEW q, NEW w, NEW m, NEW a, NEW h
  PROVE  LET k == [pc |-> p, share |-> q, w |-> w, mine |-> m, all |-> a, then |-> h] IN
         IsTask(k) /\ k.pc = p /\ k.share = q /\ k.then = h
<1> DEFINE k == [pc |-> p, share |-> q, w |-> w, mine |-> m, all |-> a, then |-> h]
           V == {p, q, w, m, a, h}
<1>1. k \in [pc : V, share : V, w : V, mine : V, all : V, then : V]
  OBVIOUS
<1>2. k.pc = p /\ k.share = q /\ k.then = h
  OBVIOUS
<1> HIDE DEF k, V
<1>3. IsTask(k)
  BY <1>1 DEF IsTask
<1> QED BY <1>2, <1>3 DEF k

\* What a step of the budget changes of its task.
Moved(k, y) == [k EXCEPT !.pc = y]
Counted(k, x, y) == [k EXCEPT !.mine = x, !.pc = y]
Totalled(k, x, y) == [k EXCEPT !.all = x, !.pc = y]
Left(k, y, x) == [k EXCEPT !.pc = y, !.then = x]

LEMMA TaskEdits ==
  ASSUME NEW k, IsTask(k), NEW x, NEW y
  PROVE  /\ IsTask(Moved(k, y)) /\ Moved(k, y).pc = y
         /\ Moved(k, y).share = k.share /\ Moved(k, y).then = k.then
         /\ IsTask(Counted(k, x, y)) /\ Counted(k, x, y).pc = y
         /\ Counted(k, x, y).share = k.share /\ Counted(k, x, y).then = k.then
         /\ IsTask(Totalled(k, x, y)) /\ Totalled(k, x, y).pc = y
         /\ Totalled(k, x, y).share = k.share /\ Totalled(k, x, y).then = k.then
         /\ IsTask(Left(k, y, x)) /\ Left(k, y, x).pc = y
         /\ Left(k, y, x).share = k.share /\ Left(k, y, x).then = x
<1>1. PICK V : k \in [pc : V, share : V, w : V, mine : V, all : V, then : V]
  BY DEF IsTask
<1> DEFINE W == V \cup {x, y}
           K == [pc : W, share : W, w : W, mine : W, all : W, then : W]
<1>2. /\ Moved(k, y) \in K /\ Counted(k, x, y) \in K
      /\ Totalled(k, x, y) \in K /\ Left(k, y, x) \in K
  BY <1>1 DEF Moved, Counted, Totalled, Left
<1>3. \A r \in K : IsTask(r)
  BY Zenon DEF IsTask
<1> HIDE DEF W, K
<1>4. /\ IsTask(Moved(k, y)) /\ IsTask(Counted(k, x, y))
      /\ IsTask(Totalled(k, x, y)) /\ IsTask(Left(k, y, x))
  BY <1>2, <1>3, Zenon
<1>5. /\ Moved(k, y).pc = y
      /\ Moved(k, y).share = k.share /\ Moved(k, y).then = k.then
      /\ Counted(k, x, y).pc = y
      /\ Counted(k, x, y).share = k.share /\ Counted(k, x, y).then = k.then
  BY <1>1 DEF Moved, Counted
<1>6. /\ Totalled(k, x, y).pc = y
      /\ Totalled(k, x, y).share = k.share /\ Totalled(k, x, y).then = k.then
      /\ Left(k, y, x).pc = y
      /\ Left(k, y, x).share = k.share /\ Left(k, y, x).then = x
  BY <1>1 DEF Totalled, Left
<1> QED BY <1>4, <1>5, <1>6, Zenon

LEMMA HubBegins ==
  ASSUME HubInv, NEW pc, NEW q, NEW w, NEW then \in {"idle", "over"},
         Begin(Hub, pc, q, w, then), then = "over" => q \in Conns,
         pc \in Taking /\ q \in Sessions => sess'[q].sink = "buffering"
  PROVE  HubInv'
<1> DEFINE r == [pc |-> pc, share |-> q, w |-> w, mine |-> 0, all |-> 0, then |-> then]
<1>1. task' = [u \in Tasks |-> task'[u]] /\ task'[Hub] = r
  BY HubBecomes DEF Begin
<1>2. IsTask(r) /\ r.pc = pc /\ r.share = q /\ r.then = then
  BY TaskMade
<1> HIDE DEF r
<1> QED BY <1>1, <1>2 DEF HubInv

LEMMA HubIdles ==
  ASSUME HubInv, task' = [task EXCEPT ![Hub] = Idle]
  PROVE  HubInv'
<1>1. task' = [u \in Tasks |-> task'[u]] /\ task'[Hub] = Idle
  BY HubBecomes
<1>2. Idle.pc = "idle" /\ Idle.then = "idle" /\ IsTask(Idle)
  BY TaskMade DEF Idle
<1> QED BY <1>1, <1>2 DEF HubInv, Taking

\* The lock's holder goes from one step of the budget to the next.
LEMMA HubGoes ==
  ASSUME HubInv, UNCHANGED sess, NEW k, task' = [task EXCEPT ![Hub] = k],
         IsTask(k), k.share = task[Hub].share, k.then \in {"idle", task[Hub].then},
         \/ k.pc \in Taking => task[Hub].pc \in Taking
         \/ k.pc = task[Hub].then /\ k.then = "idle"
  PROVE  HubInv'
<1>1. task' = [u \in Tasks |-> task'[u]] /\ task'[Hub] = k
  BY HubBecomes
<1>2. k.pc = task[Hub].then => k.pc = "idle" \/ k.share \notin Sessions
  BY Constants DEF HubInv
<1> QED BY <1>1, <1>2 DEF HubInv, Taking

LEMMA HubBudget ==
  ASSUME HubInv, BudgetStep(Hub), UNCHANGED sess
  PROVE  HubInv'
<1>1. IsTask(task[Hub])
  BY DEF HubInv
<1>2. CASE TakeOwn(Hub)
  <2> DEFINE mine == own[task[Hub].share] + task[Hub].w
             pc == IF mine > OwnBound[task[Hub].share] THEN "unown" ELSE "server"
             r == Counted(task[Hub], mine, pc)
  <2>1. task' = [task EXCEPT ![Hub].mine = mine, ![Hub].pc = pc] /\ task[Hub].pc = "take"
    BY <1>2 DEF TakeOwn
  <2> HIDE DEF mine, pc
  <2>2. task' = [task EXCEPT ![Hub] = r]
    BY <2>1, Constants DEF HubInv, Counted
  <2>3. IsTask(r) /\ r.share = task[Hub].share /\ r.then = task[Hub].then
    BY <1>1, TaskEdits
  <2> HIDE DEF r
  <2> QED BY <2>1, <2>2, <2>3, HubGoes DEF Taking
<1>3. CASE TakeServer(Hub)
  <2> DEFINE all == held + task[Hub].w
             pc == IF all > Budget THEN "judge" ELSE "got"
             r == Totalled(task[Hub], all, pc)
  <2>1. task' = [task EXCEPT ![Hub].all = all, ![Hub].pc = pc] /\ task[Hub].pc = "server"
    BY <1>3 DEF TakeServer
  <2> HIDE DEF all, pc
  <2>2. task' = [task EXCEPT ![Hub] = r]
    BY <2>1, Constants DEF HubInv, Totalled
  <2>3. IsTask(r) /\ r.share = task[Hub].share /\ r.then = task[Hub].then
    BY <1>1, TaskEdits
  <2> HIDE DEF r
  <2> QED BY <2>1, <2>2, <2>3, HubGoes DEF Taking
<1>4. ASSUME NEW pc, Goto(Hub, pc), pc \in Taking => task[Hub].pc \in Taking PROVE HubInv'
  <2> DEFINE r == Moved(task[Hub], pc)
  <2>1. task' = [task EXCEPT ![Hub] = r]
    BY <1>4 DEF Goto, Moved
  <2>2. IsTask(r) /\ r.share = task[Hub].share /\ r.then = task[Hub].then /\ r.pc = pc
    BY <1>1, TaskEdits
  <2> HIDE DEF r
  <2> QED BY <1>4, <2>1, <2>2, HubGoes
<1>5. CASE Judge(Hub)
  BY <1>4, <1>5 DEF Judge, Taking
<1>6. CASE UnServer(Hub)
  BY <1>4, <1>6 DEF UnServer, Taking
<1>7. CASE UnOwn(Hub)
  BY <1>4, <1>7 DEF UnOwn, Taking
<1>8. CASE GiveOwn(Hub)
  BY <1>4, <1>8 DEF GiveOwn, Taking
<1>9. CASE DropHeld(Hub)
  BY <1>4, <1>9 DEF DropHeld, Taking
<1>10. ASSUME Leave(Hub) PROVE HubInv'
  <2>1. CASE task[Hub].then = "idle"
    BY <1>10, <2>1, HubIdles DEF Leave
  <2>2. CASE task[Hub].then # "idle"
    <3> DEFINE r == Left(task[Hub], task[Hub].then, "idle")
    <3>1. task' = [task EXCEPT ![Hub] = r]
      BY <1>10, <2>2 DEF Leave, Left
    <3>2. IsTask(r) /\ r.share = task[Hub].share /\ r.then = "idle" /\ r.pc = task[Hub].then
      BY <1>1, TaskEdits
    <3> HIDE DEF r
    <3> QED BY <3>1, <3>2, HubGoes
  <2> QED BY <2>1, <2>2
<1>11. CASE GiveServer(Hub)
  BY <1>10, <1>11 DEF GiveServer
<1>12. CASE DropCount(Hub)
  BY <1>10, <1>12 DEF DropCount
<1> QED BY <1>2, <1>3, <1>5, <1>6, <1>7, <1>8, <1>9, <1>11, <1>12 DEF BudgetStep

LEMMA OtherBudget ==
  ASSUME HubInv, NEW t \in Tasks, t # Hub, BudgetStep(t), UNCHANGED sess
  PROVE  HubInv'
<1>1. task' = [u \in Tasks |-> task'[u]] /\ task'[Hub] = task[Hub]
  <2>0. task = [u \in Tasks |-> task[u]] /\ Hub \in Tasks
    BY Constants DEF HubInv
  <2>1. ASSUME NEW pc, Goto(t, pc)
        PROVE  task' = [u \in Tasks |-> task'[u]] /\ task'[Hub] = task[Hub]
    BY <2>0, <2>1 DEF Goto
  <2>2. ASSUME Leave(t)
        PROVE  task' = [u \in Tasks |-> task'[u]] /\ task'[Hub] = task[Hub]
    BY <2>0, <2>2 DEF Leave
  <2>3. CASE TakeOwn(t)
    BY <2>0, <2>3 DEF TakeOwn
  <2>4. CASE TakeServer(t)
    BY <2>0, <2>4 DEF TakeServer
  <2>5. CASE Judge(t) \/ UnServer(t) \/ UnOwn(t) \/ GiveOwn(t) \/ DropHeld(t)
    BY <2>1, <2>5 DEF Judge, UnServer, UnOwn, GiveOwn, DropHeld
  <2>6. CASE GiveServer(t) \/ DropCount(t)
    BY <2>2, <2>6 DEF GiveServer, DropCount
  <2> QED BY <2>3, <2>4, <2>5, <2>6 DEF BudgetStep
<1> QED BY <1>1, HubKept

\* Begin is a step of its thread.
LEMMA OtherBegins ==
  ASSUME HubInv, NEW t, t # Hub, NEW pc, NEW q, NEW w, NEW then, Begin(t, pc, q, w, then),
         UNCHANGED sess
  PROVE  HubInv'
BY OtherThread DEF Begin

LEMMA HubConn ==
  ASSUME Typed, IInv, HubInv, NEW c \in Conns, ConnStep(c)
  PROVE  HubInv'
<1>1. ASSUME UNCHANGED <<budgetVars, sess>> PROVE HubInv'
  BY <1>1, HubUntouched DEF budgetVars
<1>2. c # Hub
  BY Constants
<1>3. ASSUME NEW a \in Addrs, Accept(c, a) PROVE HubInv'
  BY <1>1, <1>3 DEF Accept
<1>4. CASE Upgrade(c) \/ Identified(c) \/ Unidentified(c) \/ HangUp(c)
  BY <1>1, <1>4 DEF Upgrade, Identified, Unidentified, HangUp
<1>5. ASSUME NEW l \in Logins, LoginStart(c, l) PROVE HubInv'
  BY <1>1, <1>5 DEF LoginStart
<1>6. CASE LoginTakeAddr(c) \/ LoginUnname(c) \/ Verdict(c)
  BY <1>1, <1>6 DEF LoginTakeAddr, LoginUnname, Verdict
<1>7. CASE RefundName(c) \/ RefundAddr(c) \/ AdmitAccount(c)
  BY <1>1, <1>7 DEF RefundName, RefundAddr, AdmitAccount
<1>8. ASSUME NEW s \in Sessions, ResumeStart(c, s) PROVE HubInv'
  BY <1>1, <1>8 DEF ResumeStart
<1>9. ASSUME NEW s \in Sessions, Attach(c, s) PROVE HubInv'
  <2>1. UNCHANGED task /\ task[Hub] = Idle
    BY <1>9 DEF Attach, Unlocked
  <2> QED BY <2>1, HubUntouched
<1>10. CASE AdmitResume(c) \/ Uncarry(c)
  BY <1>1, <1>10 DEF AdmitResume, Uncarry
<1>11. CASE Resume(c)
  <2>1. /\ task[Hub] = Idle
        /\ \/ UNCHANGED task
           \/ Begin(Hub, "drop", conn[c].sess, 0, "idle")
    BY <1>11 DEF Resume, Unlocked, budgetVars
  <2>2. CASE UNCHANGED task
    BY <2>1, <2>2, HubUntouched
  <2>3. CASE Begin(Hub, "drop", conn[c].sess, 0, "idle")
    BY <2>3, HubBegins DEF Taking
  <2> QED BY <2>1, <2>2, <2>3
<1>12. CASE Recv(c)
  <2>1. Begin(c, "give", c, Head(queue[c]), "idle") /\ UNCHANGED sess
    BY <1>12 DEF Recv
  <2> QED BY <1>2, <2>1, OtherBegins
<1>13. CASE Lose(c)
  <2>1. UNCHANGED task /\ task[Hub] = Idle
    BY <1>13 DEF Lose, Unlocked
  <2> QED BY <2>1, HubUntouched
<1>14. CASE CloseQueue(c)
  <2>1. UNCHANGED sess /\ (UNCHANGED task \/ Begin(c, "drop", c, 0, "idle"))
    BY <1>14 DEF CloseQueue
  <2> QED BY <1>2, <2>1, OtherBegins, HubUntouched
<1>15. CASE DropPlace(c) \/ DropPort(c)
  BY <1>1, <1>15 DEF DropPlace, DropPort
<1> QED BY <1>3, <1>4, <1>5, <1>6, <1>7, <1>8, <1>9, <1>10, <1>11, <1>12, <1>13, <1>14,
           <1>15 DEF ConnStep

LEMMA HubQueue ==
  ASSUME Typed, IInv, HubInv, NEW s \in Sessions,
         EndSession(s) \/ PushFull(s) \/ LoseSealed(s) \/ \E w \in Weights : Push(s, w)
  PROVE  HubInv'
<1>1. CASE EndSession(s)
  <2>1. task[Hub] = Idle /\ (UNCHANGED task \/ Begin(Hub, "drop", s, 0, "idle"))
    BY <1>1 DEF EndSession, Unlocked
  <2>2. CASE UNCHANGED task
    BY <2>1, <2>2, HubUntouched
  <2>3. CASE Begin(Hub, "drop", s, 0, "idle")
    BY <2>3, HubBegins DEF Taking
  <2> QED BY <2>1, <2>2, <2>3
<1>2. CASE PushFull(s)
  <2>1. Begin(Hub, "give", s, own[s], "idle")
    BY <1>2 DEF PushFull, Break
  <2> QED BY <2>1, HubBegins DEF Taking
<1>3. ASSUME NEW w \in Weights, Push(s, w) PROVE HubInv'
  <2>1. /\ Begin(Hub, "take", Sink(s), w, "idle") /\ UNCHANGED sess
        /\ sess[s].sink = "live" \/ sess[s].sink = "buffering"
    BY <1>3 DEF Push
  <2>2. CASE sess[s].sink = "live"
    <3>1. Sink(s) \in Conns
      BY <2>2 DEF Sink, IInv, AttachedInv
    <3>2. Sink(s) \notin Sessions
      BY <3>1, Constants
    <3> QED BY <2>1, <3>2, HubBegins
  <2>3. CASE sess[s].sink = "buffering"
    <3>1. Sink(s) = s /\ sess'[s].sink = "buffering"
      BY <2>1, <2>3 DEF Sink
    <3> QED BY <2>1, <3>1, HubBegins
  <2> QED BY <2>1, <2>2, <2>3
<1>4. CASE LoseSealed(s)
  <2>1. PICK i, w : Begin(Hub, "give", s, queue[s][i] - w, "idle")
    BY <1>4 DEF LoseSealed
  <2> QED BY <2>1, HubBegins DEF Taking
<1> QED BY <1>1, <1>2, <1>3, <1>4

LEMMA HubAnswered ==
  ASSUME Typed, IInv, HubInv, Pushed \/ Refused
  PROVE  HubInv'
<1>1. CASE Pushed
  <2>1. UNCHANGED sess
    BY <1>1 DEF Pushed
  <2>2. \/ task[Hub].share \in Conns /\ Begin(Hub, "give", task[Hub].share, task[Hub].w, "over")
        \/ task' = [task EXCEPT ![Hub] = Idle]
    BY <1>1 DEF Pushed
  <2> QED BY <2>1, <2>2, HubBegins, HubIdles DEF Taking
<1>2. CASE Refused
  <2>1. \/ task' = [task EXCEPT ![Hub] = Idle]
        \/ Begin(Hub, "give", task[Hub].share, own[task[Hub].share], "idle")
    BY <1>2 DEF Refused, Break
  <2> QED BY <2>1, HubBegins, HubIdles DEF Taking
<1> QED BY <1>1, <1>2

LEMMA HubBacklog ==
  ASSUME HubInv,
         \/ \E e \in Enqueuers : Enqueued(e) \/ \E w \in Weights : Enqueue(e, w)
         \/ \E t \in Writers : Write(t) \/ WriterStops(t) \/ BacklogEnds(t)
         \/ Refill
         \/ BudgetSteps
  PROVE  HubInv'
<1>1. ASSUME NEW e \in Enqueuers, NEW w \in Weights, Enqueue(e, w) PROVE HubInv'
  <2>1. Begin(e, "take", Backlog, w, "idle") /\ UNCHANGED sess /\ e # Hub
    BY <1>1, Constants DEF Enqueue
  <2> QED BY <2>1, OtherBegins
<1>2. ASSUME NEW e \in Enqueuers, Enqueued(e) PROVE HubInv'
  <2>1. e # Hub /\ UNCHANGED sess
    BY <1>2, Constants DEF Enqueued
  <2>2. \/ task' = [task EXCEPT ![e] = Idle]
        \/ Begin(e, "give", Backlog, task[e].w, "idle")
    BY <1>2 DEF Enqueued
  <2> QED BY <2>1, <2>2, OtherBegins, OtherThread
<1>3. ASSUME NEW t \in Writers, Write(t) PROVE HubInv'
  <2>1. t # Hub /\ UNCHANGED sess
    BY <1>3, Constants DEF Write
  <2>2. PICK n : Begin(t, "give", Backlog, BatchBytes(n), "idle")
    BY <1>3 DEF Write
  <2> QED BY <2>1, <2>2, OtherBegins
<1>4. ASSUME NEW t \in Writers, WriterStops(t) PROVE HubInv'
  BY <1>4, HubUntouched DEF WriterStops, budgetVars
<1>5. ASSUME NEW t \in Writers, BacklogEnds(t) PROVE HubInv'
  <2>1. Begin(t, "drop", Backlog, 0, "idle") /\ UNCHANGED sess /\ t # Hub
    BY <1>5, Constants DEF BacklogEnds
  <2> QED BY <2>1, OtherBegins
<1>6. CASE Refill
  BY <1>6, HubUntouched DEF Refill, budgetVars
<1>7. CASE BudgetSteps
  <2>1. UNCHANGED sess /\ \E t \in Tasks : BudgetStep(t)
    BY <1>7 DEF BudgetSteps
  <2>2. PICK t \in Tasks : BudgetStep(t)
    BY <2>1
  <2>3. CASE t = Hub
    BY <2>1, <2>2, <2>3, HubBudget
  <2>4. CASE t # Hub
    BY <2>1, <2>2, <2>4, OtherBudget
  <2> QED BY <2>3, <2>4
<1> QED BY <1>1, <1>2, <1>3, <1>4, <1>5, <1>6, <1>7

-----------------------------------------------------------------------------
(* Every step. *)

\* A step that touches neither a connection, a session, a gate nor a guess.
LEMMA QuietStep ==
  ASSUME Typed, IInv, UNCHANGED <<conn, sess, gateVars, guessVars>>
  PROVE  Typed' /\ IInv'
<1>1. sess' \in [Sessions -> Sess]
  BY DEF Typed
<1>2. ResumeInv' /\ AttachedInv'
  BY DEF IInv, ResumeInv, AttachedInv
<1> QED BY <1>1, <1>2, SessStep

LEMMA ConnSteps ==
  ASSUME Typed, IInv, NEW c \in Conns, ConnStep(c)
  PROVE  Typed' /\ IInv'
<1>1. ASSUME Recv(c) PROVE Typed' /\ IInv'
  BY <1>1, QuietStep DEF Recv
<1> QED BY <1>1, AcceptStep, UpgradeStep, PlainSteps, UnidentifiedStep, LoginStartStep,
           LoginTakeAddrStep, RefundNameStep, VerdictStep, RefundAddrStep,
           AdmitAccountStep, ResumeStartStep, AttachStep, AdmitResumeStep, UncarryStep,
           ResumeStep, LoseStep, CloseQueueStep, DropPlaceStep, DropPortStep
       DEF ConnStep

LEMMA QueueSteps ==
  ASSUME Typed, IInv, HubInv, NEW s \in Sessions,
         EndSession(s) \/ PushFull(s) \/ LoseSealed(s) \/ \E w \in Weights : Push(s, w)
  PROVE  Typed' /\ IInv'
<1>1. CASE PushFull(s)
  <2>1. /\ sess[s].sink = "buffering" /\ sess' = [sess EXCEPT ![s].sink = "broken"]
        /\ UNCHANGED <<conn, gateVars, guessVars>>
    BY <1>1 DEF PushFull, Break
  <2> QED BY <2>1, BreakStep
<1>2. ASSUME NEW w \in Weights, Push(s, w) PROVE Typed' /\ IInv'
  BY <1>2, QuietStep DEF Push
<1>3. CASE LoseSealed(s)
  BY <1>3, QuietStep DEF LoseSealed
<1> QED BY <1>1, <1>2, <1>3, EndSessionStep

LEMMA AnswerSteps ==
  ASSUME Typed, IInv, HubInv, Pushed \/ Refused
  PROVE  Typed' /\ IInv'
<1>1. CASE Pushed
  BY <1>1, QuietStep DEF Pushed
<1>2. CASE Refused
  <2> DEFINE q == task[Hub].share
  <2>1. task[Hub].pc = "over" /\ UNCHANGED <<conn, gateVars, guessVars>>
    BY <1>2 DEF Refused
  <2>2. CASE /\ q \in Conns
             /\ sess' = [s \in Sessions |-> IF sess[s].sink = "live" /\ sess[s].conn = q
                                            THEN [sess[s] EXCEPT !.sink = "lagged"]
                                            ELSE sess[s]]
    BY <2>1, <2>2, LagStep
  <2>3. CASE q \in Sessions /\ sess' = [sess EXCEPT ![q].sink = "broken"]
    <3>1. sess[q].sink = "buffering"
      BY <2>1, <2>3 DEF HubInv, Taking
    <3> QED BY <2>1, <2>3, <3>1, BreakStep
  <2> QED BY <1>2, <2>2, <2>3 DEF Refused, Break
<1> QED BY <1>1, <1>2

LEMMA OtherSteps ==
  ASSUME Typed, IInv,
         \/ \E e \in Enqueuers : Enqueued(e) \/ \E w \in Weights : Enqueue(e, w)
         \/ \E t \in Writers : Write(t) \/ WriterStops(t) \/ BacklogEnds(t)
         \/ Refill
         \/ BudgetSteps
  PROVE  Typed' /\ IInv'
<1>1. ASSUME NEW e \in Enqueuers, Enqueued(e) PROVE Typed' /\ IInv'
  BY <1>1, QuietStep DEF Enqueued
<1>2. ASSUME NEW e \in Enqueuers, NEW w \in Weights, Enqueue(e, w) PROVE Typed' /\ IInv'
  BY <1>2, QuietStep DEF Enqueue
<1>3. ASSUME NEW t \in Writers, Write(t) PROVE Typed' /\ IInv'
  BY <1>3, QuietStep DEF Write
<1>4. ASSUME NEW t \in Writers, WriterStops(t) PROVE Typed' /\ IInv'
  BY <1>4, QuietStep DEF WriterStops
<1>5. ASSUME NEW t \in Writers, BacklogEnds(t) PROVE Typed' /\ IInv'
  BY <1>5, QuietStep DEF BacklogEnds
<1>6. CASE BudgetSteps
  BY <1>6, QuietStep DEF BudgetSteps
<1> QED BY <1>1, <1>2, <1>3, <1>4, <1>5, <1>6, RefillStep

LEMMA NextStep ==
  ASSUME Typed, IInv, HubInv, [Next]_vars
  PROVE  Typed' /\ IInv' /\ HubInv'
<1>1. CASE \E c \in Conns : ConnStep(c)
  BY <1>1, ConnSteps, HubConn
<1>2. CASE \E s \in Sessions : \/ EndSession(s) \/ PushFull(s) \/ LoseSealed(s)
                               \/ \E w \in Weights : Push(s, w)
  BY <1>2, QueueSteps, HubQueue
<1>3. CASE Pushed \/ Refused
  BY <1>3, AnswerSteps, HubAnswered
<1>4. CASE \/ \E e \in Enqueuers : Enqueued(e) \/ \E w \in Weights : Enqueue(e, w)
           \/ \E t \in Writers : Write(t) \/ WriterStops(t) \/ BacklogEnds(t)
           \/ Refill
           \/ BudgetSteps
  <2>1. Typed' /\ IInv'
    BY <1>4, OtherSteps
  <2>2. HubInv'
    BY <1>4, HubBacklog
  <2> QED BY <2>1, <2>2
<1>5. CASE UNCHANGED vars
  <2>1. UNCHANGED <<conn, sess, gateVars, guessVars>> /\ UNCHANGED task
    BY <1>5 DEF vars, budgetVars
  <2> QED BY <2>1, QuietStep, HubUntouched
<1> QED BY <1>1, <1>2, <1>3, <1>4, <1>5 DEF Next

LEMMA InitIInv == Init => IInv /\ HubInv
<1> SUFFICES ASSUME Init PROVE IInv /\ HubInv
  OBVIOUS
<1>1. /\ conn = [c \in Conns |-> Gone] /\ GateInit
      /\ sess = [s \in Sessions |-> [sink |-> "new", conn |-> NoConn, login |-> NoLogin]]
      /\ wrong = [k \in Addrs \X Logins |-> 0] /\ wrongFrom = [a \in Addrs |-> 0]
      /\ nameFills = [k \in Addrs \X Logins |-> 0] /\ addrFills = [a \in Addrs |-> 0]
      /\ task = [t \in Tasks |-> Idle]
  BY DEF Init, BudgetInit
<1>2. /\ \A c \in Conns : /\ conn[c].pc = "idle" /\ conn[c].place = "none"
                          /\ conn[c].port = FALSE /\ conn[c].sess = NoSession
      /\ \A s \in Sessions : sess[s].sink = "new"
  BY <1>1 DEF Gone
<1>3. PlaceInv /\ ResumeInv /\ AttachedInv
  BY <1>2 DEF PlaceInv, PlaceAt, ResumeInv, Resuming, AttachedInv
<1>4. /\ \A a : AddrHolders(a) = {} /\ WideHolders(a) = {} /\ AccountHolders(a) = {}
      /\ \A a : PortHolders(a) = {} /\ TokenHolders(a) = {} /\ NameHolders(a) = {}
  BY <1>2 DEF AddrHolders, WideHolders, AccountHolders, PortHolders, TokenHolders, NameHolders
<1>5. Cardinality({}) = 0
  BY FS_EmptySet
<1>6. AddrCounted /\ AccountCounted /\ PortCounted
  BY <1>1, <1>4, <1>5 DEF AddrCounted, AccountCounted, PortCounted, GateInit
<1>7. CapInv
  BY <1>1, Constants DEF CapInv, GateInit
<1>8. NameInv /\ FromInv
  <2>1. ASSUME NEW k \in Addrs \X Logins
        PROVE  wrong[k] + nameTok[k] + Cardinality(NameHolders(k)) <= NameBurst + nameFills[k]
    <3>1. wrong[k] = 0 /\ nameTok[k] = NameBurst /\ nameFills[k] = 0
      BY <1>1 DEF GateInit
    <3>2. Cardinality(NameHolders(k)) = 0
      BY <1>4, <1>5
    <3> QED BY <3>1, <3>2, Constants
  <2>2. ASSUME NEW a \in Addrs
        PROVE  wrongFrom[a] + addrTok[a] + Cardinality(TokenHolders(a))
                 <= AddrBurst + addrFills[a]
    <3>1. wrongFrom[a] = 0 /\ addrTok[a] = AddrBurst /\ addrFills[a] = 0
      BY <1>1 DEF GateInit
    <3>2. Cardinality(TokenHolders(a)) = 0
      BY <1>4, <1>5
    <3> QED BY <3>1, <3>2, Constants
  <2> QED BY <2>1, <2>2 DEF NameInv, FromInv
<1>9. HubInv
  <2>1. Idle.pc = "idle" /\ Idle.then = "idle" /\ IsTask(Idle)
    BY TaskMade DEF Idle
  <2>2. task[Hub] = Idle /\ task = [t \in Tasks |-> task[t]]
    BY <1>1, Constants
  <2> QED BY <2>1, <2>2 DEF HubInv, Taking
<1> QED BY <1>3, <1>6, <1>7, <1>8, <1>9 DEF IInv

\* In every reachable state what a connection holds fits where it is, what
\* is attached has its connection, and each gate, cap and bucket agrees with
\* the connections that hold something of it.
THEOREM AdmissionInvariant == Spec => [](Typed /\ IInv /\ HubInv)
<1>1. Init => Typed /\ IInv /\ HubInv
  BY InitTyped, InitIInv
<1>2. Typed /\ IInv /\ HubInv /\ [Next]_vars => (Typed /\ IInv /\ HubInv)'
  BY NextStep
<1> QED BY <1>1, <1>2, PTL DEF Spec

-----------------------------------------------------------------------------
(* What follows. *)

\* ConnGate, SharedPlace: whatever the connections do, the gates count each
\* place that is held once, and none that is not.
THEOREM PlacesAlwaysCounted == Spec => []PlacesCounted
<1>1. IInv => PlacesCounted
  BY DEF IInv, AddrCounted, AccountCounted, PortCounted, PlacesCounted
<1> QED BY <1>1, AdmissionInvariant, PTL

\* The connections of an account's attached sessions hold its places.
LEMMA AttachedHold ==
  ASSUME Typed, IInv, NEW l \in Persons
  PROVE  Cardinality(Attached(l)) <= acctLive[l]
<1> DEFINE f == [s \in Attached(l) |-> sess[s].conn]
<1>1. IsFiniteSet(AccountHolders(l))
  BY Constants, FS_Subset DEF AccountHolders
<1>2. \A s \in Attached(l) : /\ sess[s].conn \in AccountHolders(l)
                             /\ conn[sess[s].conn].sess = s
  <2> SUFFICES ASSUME NEW s \in Attached(l)
               PROVE  sess[s].conn \in AccountHolders(l) /\ conn[sess[s].conn].sess = s
    OBVIOUS
  <2>1. s \in Sessions /\ sess[s].login = l /\ sess[s].sink \in {"live", "lagged"}
    BY DEF Attached
  <2>2. /\ sess[s].conn \in Conns /\ conn[sess[s].conn].pc = "up"
        /\ conn[sess[s].conn].sess = s /\ conn[sess[s].conn].login = l
    BY <2>1 DEF IInv, AttachedInv
  <2>3. conn[sess[s].conn].place = "account"
    BY <2>2 DEF IInv, PlaceInv, PlaceAt
  <2> QED BY <2>2, <2>3 DEF AccountHolders
<1>3. f \in Injection(Attached(l), AccountHolders(l))
  BY <1>2 DEF Injection, IsInjective
<1>4. Cardinality(Attached(l)) <= Cardinality(AccountHolders(l))
  BY <1>1, <1>3, FS_Injection
<1>5. acctLive[l] = Cardinality(AccountHolders(l))
  BY Constants DEF IInv, AccountCounted
<1> QED BY <1>4, <1>5

\* admit_resume, ConnGate::admit_account: races of resumes take an account
\* at most one connection past its cap, and its attached sessions are never
\* more than the places it has.
THEOREM AccountCapEver == Spec => []AccountCap
<1>1. Typed /\ IInv => AccountCap
  BY AttachedHold DEF IInv, CapInv, AccountCap
<1> QED BY <1>1, AdmissionInvariant, PTL

\* login_attempt, login_refund: whatever guesses race, those that were wrong
\* are no more than the buckets ever held.
THEOREM GuessesPaidFor == Spec => []GuessBound
<1>1. Typed /\ IInv => GuessBound
  <2> SUFFICES ASSUME Typed, IInv PROVE GuessBound
    OBVIOUS
  <2>1. ASSUME NEW k \in Addrs \X Logins PROVE wrong[k] <= NameBurst + nameFills[k]
    <3>1. /\ wrong[k] \in Nat /\ nameTok[k] \in Nat /\ nameFills[k] \in Nat
          /\ NameBurst \in Nat
      BY Constants DEF Typed
    <3>2. Cardinality(NameHolders(k)) \in Nat
      BY Constants, FS_Subset, FS_CardinalityType DEF NameHolders
    <3>3. wrong[k] + nameTok[k] + Cardinality(NameHolders(k)) <= NameBurst + nameFills[k]
      BY DEF IInv, NameInv
    <3> QED BY <3>1, <3>2, <3>3
  <2>2. ASSUME NEW a \in Addrs PROVE wrongFrom[a] <= AddrBurst + addrFills[a]
    <3>1. /\ wrongFrom[a] \in Nat /\ addrTok[a] \in Nat /\ addrFills[a] \in Nat
          /\ AddrBurst \in Nat
      BY Constants DEF Typed
    <3>2. Cardinality(TokenHolders(a)) \in Nat
      BY Constants, FS_Subset, FS_CardinalityType DEF TokenHolders
    <3>3. wrongFrom[a] + addrTok[a] + Cardinality(TokenHolders(a)) <= AddrBurst + addrFills[a]
      BY DEF IInv, FromInv
    <3> QED BY <3>1, <3>2, <3>3
  <2> QED BY <2>1, <2>2 DEF GuessBound
<1> QED BY <1>1, AdmissionInvariant, PTL

=============================================================================
