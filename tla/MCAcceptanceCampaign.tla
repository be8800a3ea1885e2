----------------------- MODULE MCAcceptanceCampaign -----------------------
(* Every kind of campaign.                                                 *)
EXTENDS AcceptanceCampaign
MCKinds == {"plugin", "network", "smoke", "read_correctness", "corpus", "read_safety", "baseline", "triage"}
=============================================================================
