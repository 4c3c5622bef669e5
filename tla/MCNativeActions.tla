--------------------------- MODULE MCNativeActions ---------------------------
(***************************************************************************)
(* Executions against Odoo, for TLC: the kinds of the intents and the      *)
(* resources they share are chosen per run.                                *)
(***************************************************************************)
EXTENDS NativeActions, TLC

CONSTANTS i1, i2, r1, r2, kind1, kind2, site1, site2

MCIntents == {i1, i2}
MCResources == {site1, site2}
MCKindOf == (i1 :> kind1 @@ i2 :> kind2)
MCSiteOf == (i1 :> site1 @@ i2 :> site2)
MCKeys == MCIntents \X (MCIntents \cup {Other})
=============================================================================
