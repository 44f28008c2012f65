----------------------------- MODULE MCAutoDeploy -----------------------------
(* An instance of AutoDeploy for TLC: an installed commit, one that is fine, and one that    *)
(* passes its tests but never becomes healthy; whose tests fail is left to the faults.       *)
EXTENDS AutoDeploy, TLC

CONSTANTS timer, operator, installed, fine, sick, api, web, apiImage, webImage

MCRuns == {timer, operator}
MCCommits == {installed, fine, sick}
MCImages == {apiImage, webImage}
MCServices == {api, web}
MCImageOf == (api :> apiImage) @@ (web :> webImage)
MCHealthy == {installed, fine}
=============================================================================
