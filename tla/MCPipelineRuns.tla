--------------------------- MODULE MCPipelineRuns ---------------------------
(* One GitHub target with two rows and two provider's runs, or two targets   *)
(* of different providers with one of each, for edits while a poll is out.   *)
EXTENDS PipelineRuns

CONSTANTS t1, t2, r1, r2

Alone == [provider |-> [t \in {t1} |-> "github_actions"], made |-> [t \in {t1} |-> 2],
          runs |-> {r1, r2}]
Pair(p, q) == [provider |-> [t \in {t1, t2} |-> IF t = t1 THEN p ELSE q],
               made |-> [t \in {t1, t2} |-> 1], runs |-> {r1}]

MCSites == {Alone, Pair("github_actions", "azure_devops"), Pair("octopus_deploy", "awx"),
            Pair("github_actions", "terraform_cloud")}

MCOctopus == {Pair("octopus_deploy", "awx")}

MCSeen ==
  [github_actions |-> {"queued", "success", "action_required"},
   azure_devops |-> {"notStarted", "succeeded"},
   octopus_deploy |-> {"Queued", "Success"},
   awx |-> {"new", "running", "error"},
   terraform_cloud |-> {"pending", "force_canceled"}]
=============================================================================
