---------------------------- MODULE MCReplayer ----------------------------
(***************************************************************************)
(* Instances of Replayer: messages of two source topics and one that is       *)
(* malformed, and runs that are unlimited, limited, filtered and dry.        *)
(***************************************************************************)
EXTENDS Replayer

CONSTANTS diplomaMessage, linkMessage, garbage, DryRuns, Limits

MCFields == {"topic", "stage"}
MCAttr ==
  [m \in Messages |->
     [f \in MCFields |->
        IF f = "stage" THEN "project" ELSE IF m = linkMessage THEN "links" ELSE "diplomas"]]

Everything   == [f \in MCFields |-> {}]
OnlyDiplomas == [Everything EXCEPT !["topic"] = {"diplomas"}]

MCConfigs == [policy : {Everything, OnlyDiplomas}, limit : Limits, dryRun : DryRuns]
=============================================================================
