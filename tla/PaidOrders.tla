----------------------------- MODULE PaidOrders -----------------------------
(***************************************************************************)
(* What a checkout that knows the price before the work promises, with no   *)
(* mention of gates, rails or facilitators.  Every request is an order of   *)
(* its own.  It is billed once; what it was billed at may be offered, with  *)
(* an address of the merchant's, which ends it.  A credential is charged at *)
(* most once, for one order, on a bill whose price an offer has named and,  *)
(* unless the merchant binds payments to no address, to one that an offer   *)
(* has shown.  An order is fulfilled only if it was charged, or given away  *)
(* at $0, and refused only if it was not.  Where a charge is sent and no    *)
(* reply is had, the order ends in that very step: the buyer is left in     *)
(* doubt, and told not to pay again, or he is asked to, charged or not.     *)
(*                                                                          *)
(* Checkout is shown to implement this module.                              *)
(***************************************************************************)
EXTENDS Naturals

CONSTANTS
  Orders,       \* the requests
  Creds,        \* payment credentials, each of them usable once on chain
  Prices,       \* what an order may be billed at
  Addresses,    \* the addresses at which the merchant is paid
  Elsewhere,    \* and any other
  None          \* no bill

VARIABLES
  waives,       \* whether the merchant gives away what costs nothing
  bound,        \* whether he has an address to bind payments to
  bill,         \* order -> its price, or None
  named,        \* the prices that offers have named
  shown,        \* the addresses that they have
  paid,         \* the charges: credential, order, price and address
  state         \* order -> what has become of it

povars == <<waives, bound, bill, named, shown, paid, state>>

PaidFor(o) == \E x \in paid : x.order = o
Spent(c) == \E x \in paid : x.cred = c

\* How an order ends whose charge had no reply.
Unanswered == {"uncertain", "asked_again"}

\* An open order ends.
End(o, s) == state[o] = "open" /\ state' = [state EXCEPT ![o] = s]

POInit ==
  /\ waives \in BOOLEAN /\ bound \in BOOLEAN
  /\ bill = [o \in Orders |-> None]
  /\ named = {} /\ shown = {} /\ paid = {}
  /\ state = [o \in Orders |-> "open"]

Bill(o) ==
  /\ state[o] = "open" /\ bill[o] = None
  /\ \E p \in Prices : bill' = [bill EXCEPT ![o] = p]
  /\ UNCHANGED <<waives, bound, named, shown, paid, state>>

Offer(o) ==
  /\ End(o, "refused")
  /\ bill[o] # None /\ ~PaidFor(o)
  /\ named' = named \cup {bill[o]}
  /\ \/ \E a \in Addresses : shown' = shown \cup {a}
     \/ ~bound /\ UNCHANGED shown
  /\ UNCHANGED <<waives, bound, bill, paid>>

Charge(c, o) ==
  /\ state[o] = "open" /\ bill[o] \in named
  /\ ~PaidFor(o) /\ ~Spent(c)
  /\ \E a \in shown \cup (IF bound THEN {} ELSE Elsewhere) :
        paid' = paid \cup {[cred |-> c, order |-> o, price |-> bill[o], payTo |-> a]}
  /\ UNCHANGED state \/ \E s \in Unanswered : End(o, s)
  /\ UNCHANGED <<waives, bound, bill, named, shown>>

Fulfil(o) ==
  /\ End(o, "fulfilled")
  /\ PaidFor(o) \/ (waives /\ bill[o] = 0)
  /\ UNCHANGED <<waives, bound, bill, named, shown, paid>>

Refuse(o) ==
  /\ End(o, "refused")
  /\ ~PaidFor(o)
  /\ UNCHANGED <<waives, bound, bill, named, shown, paid>>

\* The charge was sent, and is not made.
Doubt(o) ==
  /\ \E s \in Unanswered : End(o, s)
  /\ ~PaidFor(o)
  /\ UNCHANGED <<waives, bound, bill, named, shown, paid>>

PONext ==
  \E o \in Orders :
    \/ Bill(o) \/ Offer(o) \/ Fulfil(o) \/ Refuse(o) \/ Doubt(o)
    \/ \E c \in Creds : Charge(c, o)

POSpec == POInit /\ [][PONext]_povars
=============================================================================
