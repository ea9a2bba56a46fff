------------------------------ MODULE MCTrackers ------------------------------
(* Instances of ProviderTrackers for TLC. *)
EXTENDS ProviderTrackers
MCKinds == AllKinds
MCGrok == {"grok"}
MCSynthetic == {"synthetic"}
===============================================================================
