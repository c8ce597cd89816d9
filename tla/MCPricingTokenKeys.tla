------------------------- MODULE MCPricingTokenKeys -------------------------
(* PricingTokenKeys on small instances.                                    *)
EXTENDS PricingTokenKeys, TLC

Perms == Permutations(Verifiers) \cup Permutations(Kids)
=============================================================================
