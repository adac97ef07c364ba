----------------------------- MODULE SecureSession -----------------------------
(***************************************************************************)
(* What the handshake of a call promises, without packets: the two phones  *)
(* derive one key, the responder confirms it before the initiator can      *)
(* report the call as connected, and nothing that was agreed is taken      *)
(* back.  ZrtpHandshake implements it.                                     *)
(***************************************************************************)
CONSTANTS
    Initiator, Responder,
    NoKey

VARIABLES
    key,        \* the key each phone has derived, or NoKey
    confirmed,  \* has the responder seen the initiator prove it has the key
    connected   \* the phones that reported the call as connected

sessionVars == <<key, confirmed, connected>>

Phones == {Initiator, Responder}

Init ==
    /\ key       = [p \in Phones |-> NoKey]
    /\ confirmed = FALSE
    /\ connected = {}

(* A phone derives a key; the second one derives the key of the first.     *)
Derive(p) ==
    /\ key[p] = NoKey
    /\ key'[p] # NoKey
    /\ \A q \in Phones : key[q] \in {NoKey, key'[p]}
    /\ key' = [key EXCEPT ![p] = key'[p]]
    /\ UNCHANGED <<confirmed, connected>>

Confirm ==
    /\ \A p \in Phones : key[p] # NoKey
    /\ confirmed' = TRUE
    /\ UNCHANGED <<key, connected>>

Connect(p) ==
    /\ confirmed
    /\ connected' = connected \cup {p}
    /\ UNCHANGED <<key, confirmed>>

Next == Confirm \/ \E p \in Phones : Derive(p) \/ Connect(p)

Spec == Init /\ [][Next]_sessionVars
================================================================================
