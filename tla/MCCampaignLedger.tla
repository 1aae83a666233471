-------------------------- MODULE MCCampaignLedger --------------------------
(* Instances of CampaignLedger for TLC. *)
EXTENDS CampaignLedger, TLC

CONSTANTS server, tool, t1, g1, s1

MCProcesses == {server, tool}
MCCalls == {t1, g1, s1}
(* A shared server, which forgives cancellations, and a tool beside it.      *)
MCOwner == (t1 :> server) @@ (g1 :> server) @@ (s1 :> tool)
MCKind == (t1 :> "text") @@ (g1 :> "gemini") @@ (s1 :> "stt")
MCStopsOnCancel == {tool}
=============================================================================
