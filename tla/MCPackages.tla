----------------------------- MODULE MCPackages -----------------------------
(* A package of either tier, a protected one and one of no list. *)
EXTENDS PackagesProps

MCTier == [t \in {"safe", "aggressive"} |-> IF t = "safe" THEN {"ai"} ELSE {"cloud"}]
MCProtected == {"launcher"}
MCOthers == {"reader"}
=============================================================================
