-------------------- MODULE PaymentIntentFlights_proofs --------------------
(***************************************************************************)
(* Proofs about PaymentIntentFlights, for any number of calls and keys.     *)
(***************************************************************************)
EXTENDS PaymentIntentFlights, TLAPS

\* A flight whose outcome is set, and will not be set again.
Settled(f) == outcome[f] \in Outcomes /\ pc[f] \notin {"idle", "lookup", "create"}

\* Where a call is tells what it holds.
CallInv(c) ==
  /\ pc[c] # "idle" => key[c] \in Keys \cup {NoKey}
  /\ pc[c] \in {"lookup", "pop", "wake", "wait"} => key[c] \in Keys
  /\ pc[c] \in {"idle", "lookup"} => flight[c] = None
  /\ pc[c] \in {"create", "pop", "wake"} => flight[c] = c
  /\ pc[c] \in {"pop", "wake"} => Settled(c)
  /\ c \in done => Settled(c) /\ pc[c] \notin {"pop", "wake"}
  /\ pc[c] \in {"return", "finished"} => flight[c] \in Calls /\ Settled(flight[c])
  /\ pc[c] = "finished" => returned[c] = outcome[flight[c]]
  /\ pc[c] = "wait" =>
       /\ flight[c] \in Calls
       /\ key[flight[c]] = key[c]
       /\ flight[c] \in done \/ pc[flight[c]] \in {"create", "pop", "wake"}
  /\ over[c] \subseteq done
  /\ flight[c] # None => flight[c] \notin over[c]

\* The table holds exactly the flights that can still be joined.
FlightInv ==
  /\ TypeOK
  /\ \A c \in Calls : CallInv(c)
  /\ \A c \in Calls : Leading(c) => in_flight[key[c]] = c
  /\ \A k \in Keys : in_flight[k] # None => Leading(in_flight[k]) /\ key[in_flight[k]] = k

-----------------------------------------------------------------------------
\* The invariant holds before the first call.
LEMMA InitInv == Init => FlightInv
  BY FlightsAssumption DEF Init, FlightInv, TypeOK, CallInv, Settled, Leading, Steps

\* Every step of every call keeps the invariant.
LEMMA NextInv == FlightInv /\ [Next]_vars => FlightInv'
<1> SUFFICES ASSUME FlightInv, [Next]_vars PROVE FlightInv'
  OBVIOUS
<1> USE FlightsAssumption DEF FlightInv, TypeOK, CallInv, Settled, Leading, Steps, Go
<1>1. ASSUME NEW c \in Calls, NEW k \in Keys \cup {NoKey}, Begin(c, k) PROVE FlightInv'
  <2> USE <1>1 DEF Begin
  <2>1. TypeOK'
    OBVIOUS
  <2>2. \A d \in Calls : CallInv(d)'
    OBVIOUS
  <2>3. \A d \in Calls : Leading(d)' => in_flight'[key'[d]] = d
    OBVIOUS
  <2> QED BY <2>1, <2>2, <2>3
<1>2. ASSUME NEW c \in Calls, Lookup(c) PROVE FlightInv'
  <2> USE <1>2 DEF Lookup
  <2>1. TypeOK'
    OBVIOUS
  <2>2. CASE in_flight[key[c]] = None
    <3>1. \A d \in Calls : CallInv(d)'
      BY <2>2
    <3>2. \A d \in Calls : Leading(d)' => in_flight'[key'[d]] = d
      BY <2>2
    <3> QED BY <2>1, <2>2, <3>1, <3>2
  <2>3. CASE in_flight[key[c]] # None
    <3> DEFINE l == in_flight[key[c]]
    <3>1. l \in Calls /\ l # c /\ l \notin done /\ pc[l] \in {"create", "pop"} /\ key[l] = key[c]
      BY <2>3
    <3>2. /\ pc' = [pc EXCEPT ![c] = "wait"] /\ flight' = [flight EXCEPT ![c] = l]
          /\ pc[c] = "lookup"
          /\ UNCHANGED <<key, in_flight, outcome, done, over, returned>>
      BY <2>3
    <3> HIDE DEF l
    <3>3. CallInv(c)'
      BY <3>1, <3>2
    <3>4. ASSUME NEW d \in Calls \ {c} PROVE CallInv(d)'
      BY <3>2
    <3>5. \A d \in Calls : CallInv(d)'
      BY <3>3, <3>4
    <3> QED BY <2>1, <3>2, <3>5
  <2> QED BY <2>2, <2>3
<1>3. ASSUME NEW c \in Calls, Create(c) PROVE FlightInv'
  <2> USE <1>3 DEF Create
  <2>1. TypeOK'
    OBVIOUS
  <2>2. PICK o \in Outcomes : outcome' = [outcome EXCEPT ![c] = o]
    OBVIOUS
  <2>3. CallInv(c)'
    <3>1. pc[c] = "create" /\ flight[c] = c /\ c \notin done /\ o # None
      OBVIOUS
    <3>2. pc'[c] \in {"return", "pop"} /\ outcome'[c] = o /\ (pc'[c] = "pop" => key[c] \in Keys)
      BY <2>2
    <3> QED BY <3>1, <3>2
  <2>4. ASSUME NEW d \in Calls \ {c} PROVE CallInv(d)'
    <3>1. pc[d] \in {"return", "finished"} => flight[d] # c
      OBVIOUS
    <3>2. d \in done => d # c
      OBVIOUS
    <3> QED BY <2>2, <3>1, <3>2
  <2>5. \A d \in Calls : CallInv(d)'
    BY <2>3, <2>4
  <2>6. \A d \in Calls : Leading(d)' => in_flight'[key'[d]] = d
    OBVIOUS
  <2> QED BY <2>1, <2>5, <2>6
<1>4. ASSUME NEW c \in Calls, Pop(c) PROVE FlightInv'
  <2> USE <1>4 DEF Pop
  <2>1. TypeOK'
    OBVIOUS
  <2>2. \A d \in Calls : CallInv(d)'
    OBVIOUS
  <2>3. \A d \in Calls : Leading(d)' => in_flight'[key'[d]] = d
    OBVIOUS
  <2> QED BY <2>1, <2>2, <2>3
<1>5. ASSUME NEW c \in Calls, Wake(c) PROVE FlightInv'
  BY <1>5 DEF Wake
<1>6. ASSUME NEW c \in Calls, Woken(c) PROVE FlightInv'
  BY <1>6 DEF Woken
<1>7. ASSUME NEW c \in Calls, Return(c) PROVE FlightInv'
  BY <1>7 DEF Return
<1>8. CASE UNCHANGED vars
  BY <1>8 DEF vars
<1> QED BY <1>1, <1>2, <1>3, <1>4, <1>5, <1>6, <1>7, <1>8 DEF Next, Step

\* The table, the events and the outcomes agree in every reachable state.
THEOREM Invariance == Spec => []FlightInv
<1>1. Init => FlightInv
  BY InitInv
<1>2. FlightInv /\ [Next]_vars => FlightInv'
  BY NextInv
<1> QED BY <1>1, <1>2, PTL DEF Spec

-----------------------------------------------------------------------------
\* Stripe never sees two concurrent requests under one idempotency key.
THEOREM NoCollision == Spec => []OneRequestPerKey
<1>1. FlightInv => OneRequestPerKey
  BY DEF FlightInv, OneRequestPerKey, Leading
<1> QED BY <1>1, Invariance, PTL

\* Leader and followers end with one and the same outcome.
THEOREM SharedOutcome == Spec => []EveryoneSharesTheOutcome
<1>1. FlightInv => EveryoneSharesTheOutcome
  BY DEF FlightInv, CallInv, Settled, EveryoneSharesTheOutcome
<1> QED BY <1>1, Invariance, PTL

\* A call never takes the outcome of a flight that was over when it began.
THEOREM FreshOutcome == Spec => []NoStaleFlight
<1>1. FlightInv => NoStaleFlight
  BY DEF FlightInv, CallInv, NoStaleFlight
<1> QED BY <1>1, Invariance, PTL

\* No follower is left waiting for an event that nobody will set.
THEOREM NoLostWakeup == Spec => []NoOrphan
<1>1. FlightInv => NoOrphan
  BY DEF FlightInv, CallInv, NoOrphan
<1> QED BY <1>1, Invariance, PTL
=============================================================================
