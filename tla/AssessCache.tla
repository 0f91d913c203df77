----------------------------- MODULE AssessCache -----------------------------
(***************************************************************************)
(* The client of /v1/assess that the gates of one process share             *)
(* (identity/core.py) and the cache in front of it (identity/cache.py).     *)
(*                                                                          *)
(* A check looks its key up and asks the API only on a miss; nothing makes  *)
(* two misses of one key share a question, so the answers of overlapping    *)
(* questions are written in the order they come back.  Time passes in       *)
(* ticks: an entry counts down what it has left, and is served for as long  *)
(* as that is not negative, the very tick of its expiry included.           *)
(***************************************************************************)
EXTENDS Integers, FiniteSets

CONSTANTS
  Requests,     \* the HTTP requests that pass a gate of the process
  Arrivals,     \* what a request can carry: see AssessAssumption
  Tokens,       \* operator tokens (X-Operator-Token)
  Wallets,      \* claimed wallets (X-Wallet-Address)
  Signers,      \* wallets that signed a payment credential
  Rulings,      \* the decisions of the API, with their reasons
  Ttl,          \* cache_seconds, in ticks
  Timeout,      \* what the SDK waits for an answer, in ticks (external)
  MaxSize,      \* entries the cache holds
  None

VARIABLES
  carried,      \* request -> what it carries, or None before it arrives
  asked,        \* requests whose question the API has not decided
  reply,        \* request -> the answer under way to it, or None
  store,        \* the cache: key -> entry, or None
  last_signer,  \* claimed wallet -> the signer of the last raw answer stashed for it, or None
  known,        \* history: request -> the answer it went by, or None
  raised        \* history: request -> what its check raised, or None

cacheVars == <<asked, reply, store, last_signer, known, raised>>

-----------------------------------------------------------------------------
\* The payment of a request: signed by a wallet an x402 header names, by one
\* the gate does not look for (MPP), or none.
Payments == Signers \cup {"mpp", "none"}

ASSUME AssessAssumption ==
  /\ \A a \in Arrivals : /\ DOMAIN a = {"token", "wallet", "pays", "asks"}
                         /\ a.token \in Tokens \cup {None}
                         /\ a.wallet \in Wallets \cup {None}
                         /\ a.pays \in Payments
                         /\ a.asks \in BOOLEAN
  /\ \A d \in Rulings : DOMAIN d = {"decision", "reasons"}
  /\ Ttl \in Nat /\ Timeout \in Nat /\ MaxSize \in Nat \ {0}
  /\ None \notin Requests \cup Tokens \cup Wallets \cup Signers \cup Arrivals
  /\ Tokens \cap Wallets = {}

\* A signer goes to the API only beside a claimed wallet, and only from the
\* x402 header (extract_payment_signer called without an authorization).
SignerOf(a) == IF a.wallet # None /\ a.pays \in Signers THEN a.pays ELSE None

\* Slip: the signer is left out of the key.
KeyUnsigned(a) == <<IF a.token # None THEN a.token ELSE a.wallet, None>>

\* The token is the identity if there is one, whatever wallet is beside it.
Key(a) == <<IF a.token # None THEN a.token ELSE a.wallet, SignerOf(a)>>

Keys == (Tokens \cup Wallets) \X (Signers \cup {None})

\* An answer: what was asked about, the ruling, and the ticks it spent under way.
AnswerSet == [about : Arrivals, ruling : Rulings, late : 0..Timeout]
EntrySet == [answer : AnswerSet, left : -1..Ttl]

\* What a check can raise: 402, the 401s, 429 typed or bare, the SDK's timeout,
\* and anything else.
Failures == {"payment_required", "token_expired", "invalid_credential", "quota_exceeded",
             "network_timeout", "api_error"}

Known == [answer : AnswerSet, age : Nat]

-----------------------------------------------------------------------------
(* identity/cache.py *)

\* Slip: what has lapsed is not looked at.
LiveAlways(k) == store[k] # None

\* now > expires_at: an entry is served at the very tick of its expiry.
Live(k) == store[k] # None /\ store[k].left >= 0
Held == {k \in Keys : store[k] # None}

\* _sweep_expired leaves what has not lapsed.
Swept == {k \in Keys : Live(k)}

\* _evict_oldest: the earliest expiry goes, one of them if there are several.
Evicted(full) == {{k \in full : k # e} : e \in {x \in full : \A y \in full : store[x].left <= store[y].left}}

\* set: room is made only for a new key in a full cache.
Kept(k) ==
  IF store[k] # None \/ Cardinality(Held) < MaxSize THEN {Held}
  ELSE IF Cardinality(Swept) < MaxSize THEN {Swept}
  ELSE Evicted(Swept)

Put(k, answer) ==
  \E kept \in Kept(k) :
    store' = [x \in Keys |-> IF x = k THEN [answer |-> answer, left |-> Ttl]
                             ELSE IF x \in kept THEN store[x] ELSE None]

-----------------------------------------------------------------------------
(* identity/core.py *)

\* A cached answer is returned as it is; the signer's slot is not touched.
Hit(r, a) ==
  LET e == store[Key(a)]
  IN  /\ Live(Key(a))
      /\ known' = [known EXCEPT ![r] = [answer |-> e.answer, age |-> e.answer.late + (Ttl - e.left)]]
      /\ UNCHANGED <<asked, reply, store, last_signer, raised>>

\* get deletes what has lapsed, and the API is asked.
Miss(r, a) ==
  /\ ~Live(Key(a))
  /\ store' = [store EXCEPT ![Key(a)] = None]
  /\ asked' = asked \cup {r}
  /\ UNCHANGED <<reply, last_signer, known, raised>>

\* The API decides on the identity and the signer it was sent.
Decide(r, ruling) ==
  /\ r \in asked
  /\ asked' = asked \ {r}
  /\ reply' = [reply EXCEPT ![r] = [about |-> carried[r], ruling |-> ruling, late |-> 0]]
  /\ UNCHANGED <<store, last_signer, known, raised>>

\* _stash_signer_raw: only where the wallet is the identity, and a signer was sent.
StashSignerRaw(a) ==
  last_signer' = IF a.token = None /\ SignerOf(a) # None
                 THEN [last_signer EXCEPT ![a.wallet] = a.pays] ELSE last_signer

\* The answer comes back: it replaces what the cache has, be that newer.
Receive(r) ==
  /\ reply[r] # None
  /\ Put(Key(carried[r]), reply[r])
  /\ StashSignerRaw(carried[r])
  /\ known' = [known EXCEPT ![r] = [answer |-> reply[r], age |-> reply[r].late]]
  /\ reply' = [reply EXCEPT ![r] = None]
  /\ UNCHANGED <<asked, raised>>

\* The SDK raises; a timeout or an error may hide a decision that was made.
Raise(r, failure) ==
  /\ r \in asked \/ (reply[r] # None /\ failure \in {"network_timeout", "api_error"})
  /\ asked' = asked \ {r}
  /\ reply' = [reply EXCEPT ![r] = None]
  /\ raised' = [raised EXCEPT ![r] = failure]
  /\ UNCHANGED <<store, last_signer, known>>

\* Nobody waits longer for an answer under way than the SDK does.
Tick ==
  /\ \A r \in Requests : reply[r] # None => reply[r].late < Timeout
  /\ reply' = [r \in Requests |-> IF reply[r] = None THEN None ELSE [reply[r] EXCEPT !.late = @ + 1]]
  /\ store' = [k \in Keys |-> IF store[k] # None /\ store[k].left >= 0 THEN [store[k] EXCEPT !.left = @ - 1] ELSE store[k]]
  /\ UNCHANGED <<carried, asked, last_signer, known, raised>>

AssessInit ==
  /\ carried = [r \in Requests |-> None]
  /\ asked = {}
  /\ reply = [r \in Requests |-> None]
  /\ store = [k \in Keys |-> None]
  /\ last_signer = [w \in Wallets |-> None]
  /\ known = [r \in Requests |-> None]
  /\ raised = [r \in Requests |-> None]

AssessTypeOK ==
  /\ carried \in [Requests -> Arrivals \cup {None}]
  /\ asked \subseteq Requests
  /\ reply \in [Requests -> AnswerSet \cup {None}]
  /\ store \in [Keys -> EntrySet \cup {None}]
  /\ last_signer \in [Wallets -> Signers \cup {None}]
  /\ known \in [Requests -> Known \cup {None}]
  /\ raised \in [Requests -> Failures \cup {None}]

-----------------------------------------------------------------------------
\* What the request went by is an answer of the API's.
Answered(r) == known[r] # None

\* However many questions overlap, a gate never goes by a ruling older than
\* cache_seconds and the time an answer may spend under way (TTLCache.get, 26;
\* check, 370).
RulingIsRecent ==
  \A r \in Requests : Answered(r) => known[r].age <= Ttl + Timeout

=============================================================================
