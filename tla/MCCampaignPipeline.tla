------------------------- MODULE MCCampaignPipeline -------------------------
(***************************************************************************)
(* Small instances of CampaignPipeline for TLC.                            *)
(***************************************************************************)
EXTENDS CampaignPipeline, TLC

\* Every way of projecting an event: a stream replay, the event alone, nothing.
AllRequests == RequestKinds

\* Requests that write the same row of `campaigns`.
StatusAndSettings == {"close", "start", "settings"}

\* Interviews, each of which is analyzed when it completes.
Interviews == {"interview"}

\* Requests are interchangeable, and the properties of that run are about steps.
RequestSymmetry == Permutations(Requests)
=============================================================================
