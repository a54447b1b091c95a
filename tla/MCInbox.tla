------------------------------ MODULE MCInbox ------------------------------
(***************************************************************************)
(* Inbox for TLC: alice writes to bob.                                     *)
(***************************************************************************)
EXTENDS Inbox, TLC

CONSTANTS alice, bob, BobSpeaks

MCFrom == [m \in Msgs |-> alice]
MCTo == [m \in Msgs |-> bob]
MCWire == alice :> {"ng"} @@ bob :> BobSpeaks

\* The workers are alike, and so are the private messages.
Alike == Permutations(Workers) \cup Permutations(Mails)
=============================================================================
