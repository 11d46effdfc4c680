----------------------------- MODULE MCGateway -----------------------------
(* Gateway with short routes, for TLC. *)
EXTENDS Gateway, TLC

CONSTANTS alice, p, q, unpriced, unknown

SmallCap == alice :> 1

(* The logical route falls back from p to q; the others name a provider    *)
(* with no price or one the gateway does not have.                         *)
FallbackOnly == {<<p, q>>}
AllRoutes == {<<p, q>>, <<p, p>>, <<unpriced>>, <<unknown>>}
TwoProviders == {p, q}
AllProviders == {p, q, unpriced, unknown}
Present == {p, q, unpriced}
WithPrice == {p, q, unknown}

(* The last provider of the fallback chain can embed, and one without a    *)
(* price.                                                                  *)
CanEmbed == {q, unpriced}

ThreadSymmetry == Permutations(Threads)
============================================================================
