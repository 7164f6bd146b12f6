--------------------------- MODULE MCCRDDiscovery ---------------------------
(***************************************************************************)
(* TLC instance of CRDDiscovery.                                           *)
(***************************************************************************)
EXTENDS CRDDiscovery
=============================================================================
