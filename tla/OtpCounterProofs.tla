---------------------------- MODULE OtpCounterProofs ----------------------------
(***************************************************************************)
(* No one-time password of an account is made twice, for any number of     *)
(* threads, registrations and requests.                                    *)
(***************************************************************************)
EXTENDS OtpCounter, TLAPS

(* A counter that was read belongs to the thread in the provider's         *)
(* monitor, and is past every value that was used with the password.  It   *)
(* need not be the stored one: a registration may have reset that.         *)
ReaderAhead ==
    \A t \in Thread :
        read[t] # 0 =>
            /\ monitor = t
            /\ \A pair \in used : pair[1] = password => pair[2] < read[t]

(* A password no registration has used yet is not known to anybody.        *)
FreshUnknown ==
    \A p \in fresh :
        /\ p # password
        /\ \A pair \in used : pair[1] # p
        /\ service # p
        /\ \A t \in Thread : socket[t] # p

(* A thread that has read the counter has a socket to use it on.           *)
ReaderHasSocket == \A t \in Thread : read[t] # 0 => socket[t] \in Password

CounterInvariant ==
    TypeOK /\ CounterAhead /\ ReaderAhead /\ FreshUnknown /\ ReaderHasSocket

LEMMA InitCounter == Init => CounterInvariant
  BY OtpAssumption
  DEF Init, CounterInvariant, TypeOK, CounterAhead, ReaderAhead, FreshUnknown, ReaderHasSocket

LEMMA StepCounter == CounterInvariant /\ [Next]_vars => CounterInvariant'
<1> SUFFICES ASSUME CounterInvariant, [Next]_vars PROVE CounterInvariant'
  OBVIOUS
<1> USE OtpAssumption DEF CounterInvariant, TypeOK, CounterAhead, ReaderAhead, FreshUnknown,
                          ReaderHasSocket
<1>1. ASSUME NEW t \in Thread, OpenSocket(t) PROVE CounterInvariant'
  BY <1>1 DEF OpenSocket
<1>2. ASSUME NEW t \in Thread, ReadCounter(t) PROVE CounterInvariant'
  BY <1>2 DEF ReadCounter, Free
<1>3. ASSUME NEW t \in Thread, CommitCounter(t) PROVE CounterInvariant'
  BY <1>3 DEF CommitCounter
<1>4. ASSUME NEW p \in Password, markAsVerified(p) PROVE CounterInvariant'
  BY <1>4 DEF markAsVerified
<1>5. CASE CreateService
  BY <1>5 DEF CreateService
<1>6. CASE DestroyService
  BY <1>6 DEF DestroyService
<1>7. CASE Die
  BY <1>7 DEF Die
<1>8. CASE UNCHANGED vars
  BY <1>8 DEF vars
<1>9. QED
  BY <1>1, <1>2, <1>3, <1>4, <1>5, <1>6, <1>7, <1>8 DEF Next

(* The invariant holds in every reachable state.                           *)
THEOREM CounterInvariance == Spec => []CounterInvariant
  BY InitCounter, StepCounter, PTL DEF Spec

(* The stored counter is past every value used with the password, so a new *)
(* process starts from a value that was never used.                        *)
THEOREM CounterAlwaysAhead == Spec => [](TypeOK /\ CounterAhead)
<1>1. CounterInvariant => TypeOK /\ CounterAhead
  BY DEF CounterInvariant
<1>2. QED
  BY <1>1, CounterInvariance, PTL

(* getOtpCounter never hands out a value twice for the same password.      *)
THEOREM PasswordsNeverReused == Spec => NeverReused
<1>1. CounterInvariant =>
        (\A t \in Thread : CommitCounter(t) /\ socket[t] = password
                             => <<password, read[t]>> \notin used)
  <2> SUFFICES ASSUME CounterInvariant, NEW t \in Thread, CommitCounter(t),
                      <<password, read[t]>> \in used
               PROVE  FALSE
    OBVIOUS
  <2>1. read[t] \in Nat /\ read[t] # 0
    BY DEF CounterInvariant, TypeOK, CommitCounter
  <2>2. <<password, read[t]>>[2] < read[t]
    BY <2>1 DEF CounterInvariant, ReaderAhead
  <2>3. QED
    BY <2>1, <2>2
<1>2. QED
  BY <1>1, CounterInvariance, PTL DEF NeverReused
=================================================================================
