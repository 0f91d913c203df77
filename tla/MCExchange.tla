----------------------------- MODULE MCExchange -----------------------------
EXTENDS Exchange

MCPayers == {"w1", "w2"}

X402Shapes ==
  {NoX402, [shape |-> "junk", net |-> "base", payer |-> None]}
    \cup {[shape |-> "bare", net |-> "base", payer |-> "w1"]}
    \cup {[shape |-> "whole", net |-> n, payer |-> "w1"] : n \in {"base", "solana"}}
    \cup {[shape |-> "whole", net |-> "base", payer |-> None]}

AuthShapes ==
  {NoAuth, [NoAuth EXCEPT !.shape = "bearer"], [NoAuth EXCEPT !.shape = "token"]}
    \cup {[NoAuth EXCEPT !.shape = "junk", !.scheme = s] : s \in {"Payment", "payment"}}
    \cup {[scheme |-> s, rail |-> w, payer |-> IF w = "stripe" THEN None ELSE "w2", shape |-> c] :
            s \in {"Payment", "payment"}, w \in MppRails, c \in {"bare", "whole"}}

\* Every pair of headers, over a body and over an empty POST.
MCMessages ==
  {[body |-> b, title |-> t, x402 |-> x, auth |-> a] :
     b \in {"empty_post", "post"}, t \in BOOLEAN, x \in X402Shapes, a \in AuthShapes}

Usual == [frame |-> "fastapi", rails |-> {"tempo", "x402_base"}, first |-> "tempo", unminted |-> {}, hook |-> "built",
          key |-> TRUE, pre_check |-> TRUE, probe |-> FALSE, zero |-> FALSE, prices |-> {"normal"}]

\* One choice at a time away from the usual checkout, and the pairs that meet.
MCSetups ==
  {Usual,
   [Usual EXCEPT !.frame = "sanic", !.rails = {"x402_base"}, !.hook = "none"],
   [Usual EXCEPT !.frame = "aiohttp", !.zero = TRUE, !.prices = {"zero", "normal"}],
   [Usual EXCEPT !.frame = "flask", !.zero = TRUE, !.prices = {"zero", "normal"}],
   [Usual EXCEPT !.frame = "django", !.hook = "custom", !.pre_check = FALSE],
   [Usual EXCEPT !.probe = TRUE],
   [Usual EXCEPT !.key = FALSE, !.prices = Prices],
   [Usual EXCEPT !.rails = Rails, !.hook = "custom", !.unminted = {"solana_mpp"}, !.prices = Prices],
   [Usual EXCEPT !.rails = MppRails, !.hook = "custom"],
   [Usual EXCEPT !.rails = Rails, !.hook = "none"],
   [Usual EXCEPT !.rails = {"solana_mpp", "stripe"}, !.first = "solana_mpp"],
   [Usual EXCEPT !.rails = {"stripe", "x402_base"}, !.first = "stripe", !.prices = {"small", "normal"}]}
     \cup {[Usual EXCEPT !.rails = {"tempo", "solana_mpp"}, !.first = f] : f \in {"tempo", "solana_mpp"}}
     \cup {[Usual EXCEPT !.rails = Rails \ {"solana_mpp"}, !.first = f] : f \in {"tempo", "stripe"}}

\* A plain checkout in every framework.
FrameSetups == {[Usual EXCEPT !.frame = f] : f \in Frames}
=============================================================================
