------------------------- MODULE MCMigrationCompose -------------------------
(* One Compose project of two containers, migrated to a stack of two       *)
(* services.                                                               *)
EXTENDS SwarmMigration, TLC

CONSTANTS m1, c1, c2, s1, s2, k1, f1

MCKind == m1 :> "compose"
MCSource == m1 :> {c1, c2}
MCStack == m1 :> k1
MCPlanned == m1 :> {s1, s2}
MCConfig == m1 :> {f1}
MCNamespace == s1 :> k1 @@ s2 :> k1

=============================================================================
