------------------------------- MODULE MCGate -------------------------------
(* One process, up to three requests: setups that load the cache, and, one   *)
(* per adapter, setups that take a single request through every answer.      *)
EXTENDS Gate

CONSTANTS r1, r2, r3, tok, w1, w2, s1, s2

Ruling(d, reasons) == [decision |-> d, reasons |-> reasons]
MCRulings == {Ruling("allow", {}), Ruling("none", {}), Ruling("deny", {}),
              Ruling("deny", {"kyc_required"}), Ruling("deny", {"sanctions_flagged"}),
              Ruling("deny", {"kyc_required", "sanctions_flagged"})}

Arrival(t, w, p) == [token |-> t, wallet |-> w, pays |-> p, asks |-> FALSE]
Loading == {Arrival(None, w1, s1), Arrival(None, w1, s2), Arrival(tok, w1, s1), Arrival(tok, w2, s1)}
Single == {Arrival(tok, None, "mpp"), Arrival(None, w1, s1), Arrival(None, None, "none"),
           [Arrival(None, None, "none") EXCEPT !.asks = TRUE], Arrival(None, None, s1)}
MCArrivals == Loading \cup Single

Loaded == [frame |-> "fastapi", fail_open |-> FALSE, conditional |-> FALSE, sessions |-> "none",
           on_denied |-> "default", reqs |-> {r1, r2, r3}, arrivals |-> Loading,
           rulings |-> {Ruling("allow", {})}, failures |-> {}]

AnyAnswer(reqs, frames, fail, sessions, hooks) ==
  [frame : frames, fail_open : fail, conditional : BOOLEAN, sessions : sessions,
   on_denied : hooks, reqs : {reqs}, arrivals : {Single}, rulings : {MCRulings}, failures : {Failures}]

MCSetups ==
  {Loaded, [Loaded EXCEPT !.frame = "flask", !.reqs = {r1, r2}, !.rulings = MCRulings, !.failures = Failures]}
    \cup AnyAnswer({r1}, Frames, BOOLEAN, {"none", "kyc"}, {"default", "custom"})
    \cup AnyAnswer({r1, r2}, {"sanic"}, {TRUE}, {"kyc"}, {"custom"})
=============================================================================
