--------------------------- MODULE MCLegacyHandover ---------------------------
(***************************************************************************)
(* An instance of LegacyHandover for TLC: two operations of an             *)
(* application, one of which has a nested activity, and one of the         *)
(* migrator's own process.                                                 *)
(***************************************************************************)
EXTENDS LegacyHandover

MCOps == {"save", "list", "local"}
MCHome == [o \in MCOps |-> IF o = "local" THEN Tool ELSE CHOOSE p \in Apps : TRUE]
MCNested == {"save"}
=============================================================================
