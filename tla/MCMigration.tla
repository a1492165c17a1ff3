----------------------------- MODULE MCMigration -----------------------------
(* Two Compose projects that share the configuration file f2 and one       *)
(* standalone container, each with a stack of its own.  Any of them may be *)
(* migrated, two at the same time or one after the other.                  *)
EXTENDS SwarmMigration, TLC

CONSTANTS m1, m2, m3, c1, c2, c3, s1, s2, s3, k1, k2, k3, f1, f2

MCKind == m1 :> "compose" @@ m2 :> "compose" @@ m3 :> "container"
MCSource == m1 :> {c1} @@ m2 :> {c2} @@ m3 :> {c3}
MCStack == m1 :> k1 @@ m2 :> k2 @@ m3 :> k3
MCPlanned == m1 :> {s1} @@ m2 :> {s2} @@ m3 :> {s3}
MCConfig == m1 :> {f1, f2} @@ m2 :> {f2} @@ m3 :> {}
MCNamespace == s1 :> k1 @@ s2 :> k2 @@ s3 :> k3

=============================================================================
