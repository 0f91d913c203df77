---------------------------- MODULE PaidDelivery ----------------------------
(***************************************************************************)
(* What a pay-per-result endpoint promises its two parties, with no mention *)
(* of caches, headers or facilitators.  The merchant makes offers: a result *)
(* of some number of billable units, its price, and the address that is to  *)
(* receive the money.  A credential is captured at most once, and only on   *)
(* the terms of an offer.  A credential buys at most one delivery, it is    *)
(* delivered after it was captured, and what is delivered costs exactly     *)
(* what was captured.                                                       *)
(*                                                                          *)
(* ComputeFirst is shown to implement this module.                          *)
(***************************************************************************)
EXTENDS Naturals

CONSTANTS
  Creds,        \* payment credentials, each of them usable once on chain
  Offers,       \* everything the merchant could offer: [count, price, payTo]
  None          \* no capture, no delivery

VARIABLES
  offered,      \* the offers made so far
  captured,     \* credential -> [price, payTo] that the chain moved, or None
  delivered     \* credential -> units delivered against it, or None

pdvars == <<offered, captured, delivered>>

Terms(o) == [price |-> o.price, payTo |-> o.payTo]

PDInit ==
  /\ offered = {}
  /\ captured = [c \in Creds |-> None]
  /\ delivered = [c \in Creds |-> None]

MakeOffer(o) ==
  /\ offered' = offered \cup {o}
  /\ UNCHANGED <<captured, delivered>>

Capture(c, o) ==
  /\ captured[c] = None
  /\ o \in offered
  /\ captured' = [captured EXCEPT ![c] = Terms(o)]
  /\ UNCHANGED <<offered, delivered>>

Deliver(c, o) ==
  /\ delivered[c] = None
  /\ o \in offered
  /\ captured[c] = Terms(o)
  /\ delivered' = [delivered EXCEPT ![c] = o.count]
  /\ UNCHANGED <<offered, captured>>

PDNext ==
  \/ \E o \in Offers : MakeOffer(o)
  \/ \E c \in Creds, o \in offered : Capture(c, o) \/ Deliver(c, o)

PDSpec == PDInit /\ [][PDNext]_pdvars
=============================================================================
