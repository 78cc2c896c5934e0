----------------------------- MODULE MCBundles -----------------------------
(***************************************************************************)
(* Two images; the first release carries both in full, the second is       *)
(* incremental for one of them.  There is no format for dtbo.              *)
(***************************************************************************)
EXTENDS BundlesProps

MCNames == {"boot", "dtbo"}
MCFormats == {"boot"}
MCOffers == <<MCNames, {"boot"}>>
=============================================================================
