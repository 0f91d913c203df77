----------------------------- MODULE MCCheckout -----------------------------
\* Instances of Checkout for TLC.
EXTENDS Checkout, TLC

CONSTANT Payer     \* the x402 credential that is a listed wallet's, or a stranger's

S(g, t, z, p) == [gate |-> g, to |-> t, zero |-> z, mpp |-> p,
                  prices |-> IF z THEN {0, 1} ELSE {1, 2},
                  sanctioned |-> {Payer}, strangers |-> {}]

To(m, c, w) == [mint |-> m, cache |-> c, written |-> w]

G(kind, key, env, names, own) ==
  [kind |-> kind, api_key |-> key, env_key |-> env, names |-> names, own |-> own]

Soft == [enforcement |-> "soft", names |-> TRUE]

\* No gate, a static policy, the products' own policies (a soft one and None;
\* one that names nothing and None), run_gate, and a gate without a key.
MCGates ==
  [screen |-> G("none", FALSE, TRUE, FALSE, {}),
   static |-> G("policy", TRUE, FALSE, TRUE, {}),
   product |-> G("policy", TRUE, FALSE, FALSE, {Soft, Waived}),
   unnamed |-> G("policy", TRUE, FALSE, FALSE, {NoPolicy, Waived}),
   custom |-> G("custom", TRUE, TRUE, FALSE, {}),
   keyless |-> G("policy", FALSE, FALSE, TRUE, {})]

\* Every gate, every source of recipients and none, both rails, with and without
\* the carve-out.
MCSetups ==
  {S(MCGates.screen, To("none", FALSE, TRUE), TRUE, TRUE),
   [S(MCGates.static, To("per_order", FALSE, TRUE), TRUE, TRUE)
      EXCEPT !.sanctioned = {}, !.strangers = Creds],
   [S(MCGates.product, To("fresh", TRUE, FALSE), FALSE, TRUE)
      EXCEPT !.sanctioned = Creds, !.prices = {1}],
   S(MCGates.unnamed, To("none", FALSE, TRUE), FALSE, TRUE),
   S(MCGates.custom, To("fresh", TRUE, TRUE), TRUE, FALSE),
   S(MCGates.keyless, To("per_order", FALSE, FALSE), FALSE, FALSE),
   [S(MCGates.screen, To("none", FALSE, FALSE), FALSE, TRUE)
      EXCEPT !.sanctioned = {}, !.prices = {1}],
   [S(MCGates.screen, To("fresh", FALSE, TRUE), FALSE, TRUE)
      EXCEPT !.sanctioned = {}, !.prices = {1}]}

\* Interchangeable requests; sound for the safety runs only.
RequestSymmetry == Permutations(Requests)
=============================================================================
