--------------------------- MODULE MCPortRegistry ---------------------------
(* Thread a uses ports by name, thread b lists them both ways and opens. *)
EXTENDS PortRegistry, TLC
CONSTANTS a, b, p, q
MCCandidates == <<p, q>>
MCTwice == <<p, p>>
MCCalls == (a :> {"name", "open", "close"}) @@ (b :> {"all", "driver", "name", "open"})
MCSymmetry == Permutations(Identifiers)
=============================================================================
