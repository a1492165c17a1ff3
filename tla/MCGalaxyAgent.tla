----------------------------- MODULE MCGalaxyAgent -----------------------------
(* Two managers and a worker whose addresses change, and two streams over  *)
(* one session.                                                            *)
EXTENDS GalaxyAgent

MCFirst == [n \in Nodes |-> CASE n = "n1" -> "x1" [] n = "n2" -> "x2" [] n = "w" -> "x3"]

=============================================================================
