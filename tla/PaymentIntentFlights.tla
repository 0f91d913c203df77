----------------------- MODULE PaymentIntentFlights -----------------------
(***************************************************************************)
(* create_multichain_payment_intent (stripe_multichain/payment_intent.py):  *)
(* the worker threads of a threaded server that create a payment intent     *)
(* under one idempotency key share one request to Stripe.  The first of     *)
(* them leads the flight and makes the request; those that find its flight  *)
(* in _in_flight wait for its event and take its result, or its error.      *)
(*                                                                          *)
(* A call is one invocation of the function, on a thread of its own; a      *)
(* flight is named by the call that leads it.                               *)
(***************************************************************************)
EXTENDS FiniteSets

CONSTANTS
  Calls,           \* the invocations of the function
  Keys,            \* idempotency keys
  Outcomes,        \* what Stripe's reply makes of a request: a result or an exception
  NoKey,           \* the call was given no order id, hence no key
  None

ASSUME FlightsAssumption ==
  /\ NoKey \notin Keys
  /\ None \notin Calls \cup Keys \cup Outcomes \cup {NoKey}

VARIABLES
  pc,              \* call -> the step it takes next
  key,             \* call -> its idempotency key
  in_flight,       \* _in_flight: key -> the flight to join, or None
  flight,          \* call -> the flight it leads or follows
  outcome,         \* flight -> flight.result or flight.error, once set
  done,            \* the flights whose event is set
  over,            \* history: call -> the flights that were over when it began
  returned         \* call -> what it returned or raised

vars == <<pc, key, in_flight, flight, outcome, done, over, returned>>

Steps == {"idle", "lookup", "create", "pop", "wake", "wait", "return", "finished"}

TypeOK ==
  /\ pc \in [Calls -> Steps]
  /\ key \in [Calls -> Keys \cup {NoKey, None}]
  /\ in_flight \in [Keys -> Calls \cup {None}]
  /\ flight \in [Calls -> Calls \cup {None}]
  /\ outcome \in [Calls -> Outcomes \cup {None}]
  /\ done \subseteq Calls
  /\ over \in [Calls -> SUBSET Calls]
  /\ returned \in [Calls -> Outcomes \cup {None}]

Init ==
  /\ pc = [c \in Calls |-> "idle"]
  /\ key = [c \in Calls |-> None]
  /\ in_flight = [k \in Keys |-> None]
  /\ flight = [c \in Calls |-> None]
  /\ outcome = [c \in Calls |-> None]
  /\ done = {}
  /\ over = [c \in Calls |-> {}]
  /\ returned = [c \in Calls |-> None]

Go(c, from, to) == pc[c] = from /\ pc' = [pc EXCEPT ![c] = to]

-----------------------------------------------------------------------------
\* The call begins; without a key it goes to Stripe on its own account.
Begin(c, k) ==
  /\ Go(c, "idle", IF k = NoKey THEN "create" ELSE "lookup")
  /\ key' = [key EXCEPT ![c] = k]
  /\ flight' = [flight EXCEPT ![c] = IF k = NoKey THEN c ELSE None]
  /\ over' = [over EXCEPT ![c] = done]
  /\ UNCHANGED <<in_flight, outcome, done, returned>>

\* Slip: the lookup and the insertion are not under the lock.
LookupUnlocked(c) ==
  /\ Go(c, "lookup", "create")
  /\ in_flight' = [in_flight EXCEPT ![key[c]] = c]
  /\ flight' = [flight EXCEPT ![c] = c]
  /\ UNCHANGED <<key, outcome, done, over, returned>>

\* Under the lock: join the flight of the key, or lead a new one.
Lookup(c) ==
  /\ \/ /\ Go(c, "lookup", "create")
        /\ in_flight[key[c]] = None
        /\ in_flight' = [in_flight EXCEPT ![key[c]] = c]
        /\ flight' = [flight EXCEPT ![c] = c]
     \/ /\ Go(c, "lookup", "wait")
        /\ in_flight[key[c]] # None
        /\ flight' = [flight EXCEPT ![c] = in_flight[key[c]]]
        /\ UNCHANGED in_flight
  /\ UNCHANGED <<key, outcome, done, over, returned>>

\* Slip: the event is set before the flight is taken off the table.
CreateWakesFirst(c) ==
  /\ Go(c, "create", IF key[c] = NoKey THEN "return" ELSE "pop")
  /\ \E o \in Outcomes : outcome' = [outcome EXCEPT ![c] = o]
  /\ done' = done \cup {c}
  /\ UNCHANGED <<key, in_flight, flight, over, returned>>

\* Stripe replied: the leader stores the result, or the exception.
Create(c) ==
  /\ Go(c, "create", IF key[c] = NoKey THEN "return" ELSE "pop")
  /\ \E o \in Outcomes : outcome' = [outcome EXCEPT ![c] = o]
  /\ UNCHANGED <<key, in_flight, flight, done, over, returned>>

\* The finally block, under the lock: nobody joins this flight any more.
Pop(c) ==
  /\ Go(c, "pop", "wake")
  /\ in_flight' = [in_flight EXCEPT ![key[c]] = None]
  /\ UNCHANGED <<key, flight, outcome, done, over, returned>>

\* flight.done.set()
Wake(c) ==
  /\ Go(c, "wake", "return")
  /\ done' = done \cup {c}
  /\ UNCHANGED <<key, in_flight, flight, outcome, over, returned>>

\* Slip: the follower does not wait for the event.
WokenEarly(c) ==
  /\ Go(c, "wait", "return")
  /\ UNCHANGED <<key, in_flight, flight, outcome, done, over, returned>>

\* Slip: the follower waits for a result, not for the event.
WokenByResult(c) ==
  /\ Go(c, "wait", "return")
  /\ flight[c] \in done
  /\ outcome[flight[c]] = CHOOSE o \in Outcomes : TRUE
  /\ UNCHANGED <<key, in_flight, flight, outcome, done, over, returned>>

\* flight.done.wait()
Woken(c) ==
  /\ Go(c, "wait", "return")
  /\ flight[c] \in done
  /\ UNCHANGED <<key, in_flight, flight, outcome, done, over, returned>>

\* return flight.result, or raise flight.error.
Return(c) ==
  /\ Go(c, "return", "finished")
  /\ returned' = [returned EXCEPT ![c] = outcome[flight[c]]]
  /\ UNCHANGED <<key, in_flight, flight, outcome, done, over>>

Step(c) == Lookup(c) \/ Create(c) \/ Pop(c) \/ Wake(c) \/ Woken(c) \/ Return(c)

Next == \E c \in Calls : Step(c) \/ \E k \in Keys \cup {NoKey} : Begin(c, k)

\* A thread that is not blocked is scheduled, and Stripe's client answers or
\* times out; nothing makes a call begin.
Spec == Init /\ [][Next]_vars
FairSpec == Spec /\ \A c \in Calls : WF_vars(Step(c))

-----------------------------------------------------------------------------
Leading(c) == pc[c] \in {"create", "pop"} /\ key[c] \in Keys

\* Two requests under one idempotency key are never with Stripe at once: it
\* would refuse the second with a 429 that is not to be retried
\* (the comment at payment_intent.py:38-40 and the lock of 69-74).
OneRequestPerKey ==
  \A c, d \in Calls :
    pc[c] = "create" /\ pc[d] = "create" /\ key[c] = key[d] /\ key[c] \in Keys => c = d

\* Every call ends with the outcome of the flight it was on, leader or
\* follower, result or exception, and never with the unset one: the event is
\* set after the outcome is (payment_intent.py:75-89).
EveryoneSharesTheOutcome ==
  \A c \in Calls : pc[c] = "finished" => returned[c] \in Outcomes /\ returned[c] = outcome[flight[c]]

\* Nobody takes the result of a flight that was already over when the call
\* began: the table is cleared before the event is set, so a retry after a
\* failure makes a request of its own (payment_intent.py:86-89).
NoStaleFlight == \A c \in Calls : flight[c] # None => flight[c] \notin over[c]

\* A follower waits for a flight of its own key whose leader is still on the
\* way to set the event, or has set it: no wakeup is lost.
NoOrphan ==
  \A c \in Calls : pc[c] = "wait" =>
    /\ key[flight[c]] = key[c]
    /\ flight[c] \in done \/ pc[flight[c]] \in {"create", "pop", "wake"}

\* Every call that began returns or raises, those that only wait included.
EveryCallReturns == \A c \in Calls : pc[c] # "idle" ~> pc[c] = "finished"
=============================================================================
