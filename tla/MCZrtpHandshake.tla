---------------------------- MODULE MCZrtpHandshake ----------------------------
(***************************************************************************)
(* Instances of ZrtpHandshake for TLC: pairs of rows two earlier calls can *)
(* have left behind.                                                       *)
(***************************************************************************)
EXTENDS ZrtpHandshakeInvariant

CONSTANTS secretA, secretB

Row(one, two, verified) ==
    [one |-> one, two |-> two, verified |-> verified, expires |-> "future"]

Rows(initiator, responder) ==
    [e \in Endpoint |-> IF e = I THEN initiator ELSE responder]

(* Both phones stored the last secret.                                     *)
MCInSync == {Rows(Row(secretA, NoSecret, TRUE), Row(secretA, NoSecret, FALSE)),
             Rows(Row(secretA, secretB, TRUE), Row(secretA, secretB, TRUE))}

(* One phone missed the last store, has lost its database, or restored an  *)
(* old one; one row has expired.                                           *)
MCDrifted == {Rows(Row(secretB, secretA, TRUE), Row(secretA, NoSecret, TRUE)),
              Rows(Row(secretA, NoSecret, TRUE), Row(secretB, secretA, TRUE)),
              Rows(Row(secretA, secretB, FALSE), Row(secretB, secretA, TRUE)),
              Rows(NoRow, Row(secretA, secretB, TRUE)),
              Rows(Row(secretA, NoSecret, TRUE), Row(secretB, NoSecret, TRUE)),
              Rows(Row(secretA, secretB, TRUE), [Row(secretA, secretB, TRUE) EXCEPT !.expires = "past"])}

MCStrangers == {Rows(NoRow, NoRow)}

MCAllRows == MCInSync \cup MCDrifted \cup MCStrangers
MCSecrets == {secretA, secretB}
MCStrays  == {Reply}
MCNone    == {}
MCBoth    == Endpoint
MCInitiator == {I}
================================================================================
