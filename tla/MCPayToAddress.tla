--------------------------- MODULE MCPayToAddress ---------------------------
\* PayToAddress on small instances; requests, instances and intents are alike.
EXTENDS PayToAddress, TLC

AddressSymmetry ==
  Permutations(Requests) \cup Permutations(Instances) \cup Permutations(Intents)
=============================================================================
