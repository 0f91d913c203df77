--------------------------- MODULE RateLimitMount ---------------------------
(***************************************************************************)
(* The rate limiter as a framework mounts it (middleware/asgi.py, flask.py, *)
(* fastapi.py, sanic.py, django.py, aiohttp.py): which bucket a client is   *)
(* counted in, which requests are not counted, who may be cut off while he  *)
(* is counted, and what becomes of the decision.                            *)
(***************************************************************************)
EXTENDS RateLimiter

CONSTANTS
  Mounts,        \* the adapters a deployment may use
  Clients,       \* who sends requests: [peer, forwarded]
  Blank,         \* an X-Forwarded-For whose first hop is empty
  Unknown        \* the bucket of clients that cannot be told apart

ASSUME MountAssumption ==
  /\ Mounts \subseteq {"asgi", "fastapi", "flask", "sanic", "django", "aiohttp"}
  /\ Clients \subseteq [peer : Keys \cup {None}, forwarded : Keys \cup {Blank, None}]
  /\ Unknown \in Keys /\ Blank \notin Keys \cup {None}

VARIABLES
  mount,         \* the adapter of this deployment
  client         \* request -> who sent it, or None

mountVars == <<mount, client>>
allVars == <<vars, mountVars>>

-----------------------------------------------------------------------------
(* The bucket of a client. *)

\* Slip: the header is not looked at.
KeyFromPeer(forwarded) == Unknown

\* The first hop of X-Forwarded-For, if it names one.
DefaultKeyFromForwardedFor(forwarded) == IF forwarded \in {None, Blank} THEN Unknown ELSE forwarded

\* The ASGI middleware falls back on the address of the connection.
DefaultScopeKeyResolver(c) ==
  IF c.forwarded # None THEN DefaultKeyFromForwardedFor(c.forwarded)
  ELSE IF c.peer # None THEN c.peer ELSE Unknown

KeyOf(c) == IF mount = "asgi" THEN DefaultScopeKeyResolver(c) ELSE DefaultKeyFromForwardedFor(c.forwarded)

-----------------------------------------------------------------------------
(* What becomes of a decision: the status of the answer, and whether it has  *)
(* the X-RateLimit headers; a handler may raise.                             *)

Answers == [status : {"handler", "raised", "429"}, told : BOOLEAN]
Refused(told) == {[status |-> "429", told |-> told]}
Served(ok, raised) == {[status |-> "handler", told |-> ok], [status |-> "raised", told |-> raised]}

\* The headers ride on whatever response starts below the middleware.
AnswerAsgi(d) == IF d.allowed THEN Served(TRUE, FALSE) ELSE Refused(TRUE)

\* A dependency adds nothing to a response.
AnswerFastapi(d) == IF d.allowed THEN Served(FALSE, FALSE) ELSE Refused(TRUE)

\* after_this_request, and Sanic's response middleware, see error pages too.
AnswerFlask(d) == IF d.allowed THEN Served(TRUE, TRUE) ELSE Refused(TRUE)
AnswerSanic(d) == IF d.allowed THEN Served(TRUE, TRUE) ELSE Refused(TRUE)

\* get_response makes a response of what a view raises; an aiohttp handler's
\* exception passes through the middleware.
AnswerDjango(d) == IF d.allowed THEN Served(TRUE, TRUE) ELSE Refused(TRUE)
AnswerAiohttp(d) == IF d.allowed THEN Served(TRUE, FALSE) ELSE Refused(TRUE)

AnswersTo(r) ==
  LET d == decision[r]
  IN  CASE mount = "asgi" -> AnswerAsgi(d) [] mount = "fastapi" -> AnswerFastapi(d)
        [] mount = "flask" -> AnswerFlask(d) [] mount = "sanic" -> AnswerSanic(d)
        [] mount = "django" -> AnswerDjango(d) [] OTHER -> AnswerAiohttp(d)

-----------------------------------------------------------------------------
MountInit ==
  /\ Init
  /\ mount \in Mounts
  /\ client = [r \in Requests |-> None]

\* A request comes in, and its bucket is looked up.
Arrive(r, c) ==
  /\ client' = [client EXCEPT ![r] = c]
  /\ \E i \in Instances :
       CheckInProcess(r, i, KeyOf(c)) \/ Incr(r, i, KeyOf(c)) \/ IncrRaises(r, i, KeyOf(c))
  /\ UNCHANGED mount

\* What is no HTTP request goes past the ASGI middleware uncounted, and so does
\* a FastAPI route without the dependency.
PassBy(r) ==
  /\ mount \in {"asgi", "fastapi"} /\ pc[r] = "idle"
  /\ pc' = [pc EXCEPT ![r] = "done"]
  /\ UNCHANGED <<clock, redis, mem_state, inst, key, count, decision, mishap, mountVars>>

\* Flask's worker waits for the loop of the limiter: nobody cuts it off there.
CutOff(r) == mount # "flask" /\ Cancel(r) /\ UNCHANGED mountVars

MountNext ==
  \/ \E r \in Requests :
       \/ \E c \in Clients : Arrive(r, c)
       \/ (Expire(r) \/ ExpireRaises(r) \/ Fallback(r)) /\ UNCHANGED mountVars
       \/ CutOff(r) \/ PassBy(r)
  \/ Tick /\ UNCHANGED mountVars

MountSpec == MountInit /\ [][MountNext]_allVars

-----------------------------------------------------------------------------
\* Whom the mount can see a request to be from: the first hop the header names,
\* or, where the mount looks at it and there is no header, the other end of the
\* connection; or nobody in particular.
Seen(c) ==
  LET from == IF mount = "asgi" /\ c.forwarded = None THEN c.peer ELSE c.forwarded
  IN  IF from \in Keys \ {Unknown} THEN from ELSE None

\* The requests of r's client, or of any that the mount cannot tell from him,
\* that the counter which decided on r admitted since the window before.
Own(r) ==
  {q \in Requests : /\ decision[q] # None /\ decision[q].allowed /\ decision[q].by = decision[r].by
                    /\ Seen(client[q]) = Seen(client[r])
                    /\ decision[r].at - Window <= decision[q].at /\ decision[q].at <= decision[r].at}

\* A 429 is earned by the client that gets it, or by one the mount has no way
\* to tell from him: a whole bucket was admitted of them since the window before
\* began, by the counter that refused; others cannot use up his bucket, although
\* their requests interleave with his and are counted twice when Redis fails
\* (_core.py:46-51 and 88-112, asgi.py:90-97).
RefusalIsOwn ==
  \A r \in Requests :
    decision[r] # None /\ decision[r].by # Redis /\ (\E a \in AnswersTo(r) : a.status = "429") =>
      Cardinality(Own(r)) >= MaxRequests
=============================================================================
