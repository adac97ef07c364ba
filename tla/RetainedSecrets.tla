---------------------------- MODULE RetainedSecrets ----------------------------
(***************************************************************************)
(* The retained secrets of ZRTP: what a phone keeps of its past calls with *)
(* a peer, what it reveals of it in a DHPart message, and the secret (s1)  *)
(* both phones mix into the next master secret when they still share one.  *)
(*                                                                         *)
(* Code: crypto/zrtp/retained/*.java, the rs1ID / rs2ID fields of          *)
(* crypto/zrtp/DHPacket.java and database/RetainedSecretsDatabase.java.    *)
(* HMAC-SHA256 is taken to be injective: a derivative is the record of the *)
(* role and the secret it was computed from.                               *)
(***************************************************************************)

CONSTANT
    NoSecret    \* Java's null: no secret cached in that slot

(***************************************************************************)
(* A row of the retained_secrets table, for one (number, ZID).  "two" is   *)
(* the secret "one" replaced.  A row whose slot one is empty is no row.    *)
(* expires: "future" and "past" say what getRetainedSecrets will find;     *)
(* "arbitrary" is a time computed from bytes that are not a cache time.    *)
(***************************************************************************)
Expiry == {"future", "past", "arbitrary"}

NoRow == [one |-> NoSecret, two |-> NoSecret, verified |-> FALSE, expires |-> "past"]

(* RetainedSecretsDatabase.getRetainedSecrets: an expired row is skipped.  *)
NoneRetained == [one |-> NoSecret, two |-> NoSecret]

getRetainedSecrets(row) ==
    IF row.expires = "past" THEN NoneRetained ELSE [one |-> row.one, two |-> row.two]

(* Mutants of the next definition: the user's verification outlives a      *)
(* broken chain; the secret that is replaced is thrown away; a secret that *)
(* has expired already is stored.                                          *)
KeepsVerification(row, rs1, expires, continuity) ==
    IF expires = "past" THEN row
    ELSE [one |-> rs1, two |-> row.one, verified |-> row.verified, expires |-> expires]

ForgetsOldSecret(row, rs1, expires, continuity) ==
    IF expires = "past" THEN row
    ELSE [one |-> rs1, two |-> row.two, verified |-> row.verified /\ continuity,
          expires |-> expires]

StoresExpired(row, rs1, expires, continuity) ==
    [one |-> rs1, two |-> row.one, verified |-> row.verified /\ continuity,
     expires |-> expires]

(* RetainedSecretsDatabase.setRetainedSecret: nothing is written when the  *)
(* secret has expired already; otherwise slot one moves to slot two, and a *)
(* broken chain clears the user's verification.                            *)
setRetainedSecret(row, rs1, expires, continuity) ==
    IF expires = "past" THEN row
    ELSE [one      |-> rs1,
          two      |-> row.one,
          verified |-> row.verified /\ continuity,
          expires  |-> expires]

-----------------------------------------------------------------------------
(* RetainedSecretsCalculator.calculateDerivative, and DHPacket.setState:   *)
(* an absent secret is sent as eight random bytes, equal to no derivative. *)
RandomID == [role |-> "Random", secret |-> NoSecret]

Derivative(role, secret) == [role |-> role, secret |-> secret]

SentID(role, secret) ==
    IF secret = NoSecret THEN RandomID ELSE Derivative(role, secret)

SentIDs(role, secrets) ==
    [one |-> SentID(role, secrets.one), two |-> SentID(role, secrets.two)]

(* Arrays.equals(own derivative, received ID): a null derivative equals    *)
(* nothing that was received.                                              *)
Recognises(role, secret, id) ==
    secret # NoSecret /\ Derivative(role, secret) = id

(* InitiatorRetainedSecretsCalculator.getS1: the initiator goes through   *)
(* its own secrets, slot one first.                                        *)
InitiatorS1(mine, received) ==
    LET Known(secret, id) == Recognises("Responder", secret, id)
    IN  IF Known(mine.one, received.one) \/ Known(mine.one, received.two) THEN mine.one
        ELSE IF Known(mine.two, received.one) \/ Known(mine.two, received.two) THEN mine.two
        ELSE NoSecret

(* Mutants: the responder goes through its own secrets, as the initiator   *)
(* does; it looks at the first ID only.                                    *)
OwnOrder(mine, received) ==
    LET Known(secret, id) == Recognises("Initiator", secret, id)
    IN  IF Known(mine.one, received.one) \/ Known(mine.one, received.two) THEN mine.one
        ELSE IF Known(mine.two, received.one) \/ Known(mine.two, received.two) THEN mine.two
        ELSE NoSecret

FirstIDOnly(mine, received) ==
    LET Known(secret, id) == Recognises("Initiator", secret, id)
    IN  IF Known(mine.one, received.one) THEN mine.one
        ELSE IF Known(mine.two, received.one) THEN mine.two
        ELSE NoSecret

(* ResponderRetainedSecretsCalculator.getS1: the responder goes through    *)
(* the IDs the initiator sent, so that both try the same pairs in the same *)
(* order.                                                                  *)
ResponderS1(mine, received) ==
    LET Known(secret, id) == Recognises("Initiator", secret, id)
    IN  IF Known(mine.one, received.one) THEN mine.one
        ELSE IF Known(mine.two, received.one) THEN mine.two
        ELSE IF Known(mine.one, received.two) THEN mine.one
        ELSE IF Known(mine.two, received.two) THEN mine.two
        ELSE NoSecret

(* What the class comment of both calculators promises: the initiator's    *)
(* slot one if the responder holds it, else its slot two, else nothing.    *)
SharedSecret(initiator, responder) ==
    LET Held == {responder.one, responder.two} \ {NoSecret}
    IN  IF initiator.one \in Held THEN initiator.one
        ELSE IF initiator.two \in Held THEN initiator.two
        ELSE NoSecret

(* Two rows are linked while some secret would be fetched from both.  (A   *)
(* row whose expiry is arbitrary has not expired yet.)                     *)
Fetched(row) ==
    LET retained == getRetainedSecrets(row) IN {retained.one, retained.two} \ {NoSecret}

Linked(row1, row2) == Fetched(row1) \cap Fetched(row2) # {}
================================================================================
