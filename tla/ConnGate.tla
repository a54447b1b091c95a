----------------------------- MODULE ConnGate ------------------------------
(***************************************************************************)
(* What the server counts of its connections (hxd-core, limits.rs).        *)
(*                                                                         *)
(* ConnGate counts the connections of each address, of each IPv6 /48 and   *)
(* of each account; the ng port has a second gate of its own that counts   *)
(* sockets by address.  Each gate is one mutex, so every operator here is  *)
(* one step of whoever calls it.  The reconnect pace (`tokens` of an       *)
(* AddrState) is a clock: where it may refuse, the model lets it.          *)
(*                                                                         *)
(* RateGate counts the failed password guesses of each address, and of     *)
(* each account name from each address.  An entry is a bucket of tokens;   *)
(* the time that fills it is the action of whoever extends this module.    *)
(***************************************************************************)
EXTENDS Integers, FiniteSets

CONSTANTS
  Addrs,        \* limit_key(ip): what an address counts as
  WideOf,       \* v6_48(ip) of each address
  Logins,       \* account names
  Persons,      \* the logins with one person behind them (Account.is_person)
  PerAddr,      \* ConnLimits.per_addr
  PerWide,      \* ConnLimits.per_v6_48
  PerAccount,   \* ConnLimits.per_account
  PortPerAddr,  \* HttpLimits.connections_per_addr
  NameBurst,    \* login_failures.burst
  AddrBurst     \* login_failures_per_addr.burst

ASSUME ConnGateAssumption ==
  /\ Persons \subseteq Logins
  /\ PerAddr \in Nat \ {0} /\ PerWide \in Nat \ {0} /\ PerAccount \in Nat \ {0}
  /\ PortPerAddr \in Nat \ {0} /\ NameBurst \in Nat \ {0} /\ AddrBurst \in Nat \ {0}

Wides == {WideOf[a] : a \in Addrs}

VARIABLES
  addrLive,  \* Table.map, the places of an address
  wideLive,  \* Table.by_48
  acctLive,  \* Table.accounts, the places of an account
  portLive,  \* the places of an address on the ng port
  nameTok,   \* login_failures, by address and account name
  addrTok    \* login_failures_per_addr

liveVars == <<addrLive, wideLive, acctLive>>
rateVars == <<nameTok, addrTok>>
gateVars == <<liveVars, portLive, rateVars>>

GateInit ==
  /\ addrLive = [a \in Addrs |-> 0]
  /\ wideLive = [n \in Wides |-> 0]
  /\ acctLive = [l \in Logins |-> 0]
  /\ portLive = [a \in Addrs |-> 0]
  /\ nameTok = [k \in Addrs \X Logins |-> NameBurst]
  /\ addrTok = [a \in Addrs |-> AddrBurst]

-----------------------------------------------------------------------------
(* ConnGate. *)

\* saturating_sub(1)
Less(n) == IF n = 0 THEN 0 ELSE n - 1

\* ConnGate::admit: a place of the address, and of its /48.
Admit(a) ==
  /\ addrLive[a] < PerAddr
  /\ wideLive[WideOf[a]] < PerWide
  /\ addrLive' = [addrLive EXCEPT ![a] = @ + 1]
  /\ wideLive' = [wideLive EXCEPT ![WideOf[a]] = @ + 1]
  /\ UNCHANGED acctLive

\* Table::release_addr
ReleaseAddr(a) ==
  /\ addrLive' = [addrLive EXCEPT ![a] = Less(@)]
  /\ wideLive' = [wideLive EXCEPT ![WideOf[a]] = Less(@)]

\* Mutant: the comparison is off by one.
RoomAndOne(l, slack) == acctLive[l] <= PerAccount + slack

\* admit_account: whether the account has a place left.
Room(l, slack) == acctLive[l] < PerAccount + slack

\* Mutant: the address keeps the place it gave up.
MoveKeepingAddr(a, l) ==
  /\ acctLive' = [acctLive EXCEPT ![l] = @ + 1]
  /\ UNCHANGED <<addrLive, wideLive>>

\* ConnGate::admit_account up to the unlock: the place moves from its
\* address to the account.
MoveToAccount(a, l) ==
  /\ acctLive' = [acctLive EXCEPT ![l] = @ + 1]
  /\ ReleaseAddr(a)

\* ConnPermit::drop
ReleasePlace(place, a, l) ==
  \/ place = "addr" /\ ReleaseAddr(a) /\ UNCHANGED acctLive
  \/ place = "account" /\ acctLive' = [acctLive EXCEPT ![l] = Less(@)]
                       /\ UNCHANGED <<addrLive, wideLive>>
  \/ place = "none" /\ UNCHANGED liveVars

\* The port's gate: Gates::places, and SharedPlace's release.
PortAdmit(a) ==
  /\ portLive[a] < PortPerAddr
  /\ portLive' = [portLive EXCEPT ![a] = @ + 1]

PortRelease(a, held) ==
  portLive' = IF held THEN [portLive EXCEPT ![a] = Less(@)] ELSE portLive

-----------------------------------------------------------------------------
(* RateGate. *)

\* Mutant: a bucket is filled past its burst.
FullerUncapped(n, burst) == n + 1

\* The (tokens + 1).min(burst) of a refund.
Fuller(n, burst) == IF n < burst THEN n + 1 ELSE burst

\* Mutant: a guess is only looked up, and paid for by nobody.
LookAtName(k) == nameTok[k] > 0 /\ UNCHANGED nameTok

\* take_named, take: spend a token if there is one.
TakeName(k) == nameTok[k] > 0 /\ nameTok' = [nameTok EXCEPT ![k] = @ - 1]
TakeAddr(a) == addrTok[a] > 0 /\ addrTok' = [addrTok EXCEPT ![a] = @ - 1]

\* refund_named, refund; and the time that fills a bucket.
FillName(k) == nameTok' = [nameTok EXCEPT ![k] = Fuller(@, NameBurst)]
FillAddr(a) == addrTok' = [addrTok EXCEPT ![a] = Fuller(@, AddrBurst)]
=============================================================================
