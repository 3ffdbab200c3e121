--------------------------- MODULE MCHubspotSync ---------------------------
(* Constants of HubspotSync for TLC. *)
EXTENDS HubspotSync, TLC
=============================================================================
