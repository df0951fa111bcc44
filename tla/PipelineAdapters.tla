------------------------- MODULE PipelineAdapters --------------------------
(***************************************************************************)
(* The five provider adapters of dosm/pipelines/adapters as the functions  *)
(* the rest of the system sees: which status a native state of a run is    *)
(* stored as, whether a poll of it carries a completed_at, and what a      *)
(* trigger returns.  Native states are the provider's own names; GitHub's  *)
(* and Azure's pair "completed" with a conclusion, named here alone.       *)
(***************************************************************************)
EXTENDS Naturals, Sequences, FiniteSets

Providers == {"github_actions", "azure_devops", "octopus_deploy", "awx", "terraform_cloud"}

\* The statuses DOSM stores, and the ones refresh_run takes for an end.
RUN_STATUSES == {"queued", "running", "success", "failed", "cancelled", "skipped", "unknown"}
Terminal == {"success", "failed", "cancelled", "skipped"}

\* Mutant: action_required, which waits for somebody, is taken for a failure.
GitHubStatusHeld ==
  [queued |-> "queued", in_progress |-> "running", success |-> "success",
   failure |-> "failed", cancelled |-> "cancelled", skipped |-> "skipped",
   timed_out |-> "failed", neutral |-> "success", action_required |-> "failed",
   stale |-> "unknown"]

GitHubStatus ==
  [queued |-> "queued", in_progress |-> "running", success |-> "success",
   failure |-> "failed", cancelled |-> "cancelled", skipped |-> "skipped",
   timed_out |-> "failed", neutral |-> "success", action_required |-> "running",
   stale |-> "unknown"]

AzureStatus ==
  [notStarted |-> "queued", inProgress |-> "running", canceling |-> "running",
   succeeded |-> "success", failed |-> "failed", canceled |-> "cancelled",
   partiallySucceeded |-> "unknown"]

OctopusStatus ==
  [Queued |-> "queued", Executing |-> "running", Cancelling |-> "running",
   Success |-> "success", Failed |-> "failed", TimedOut |-> "failed",
   Canceled |-> "cancelled"]

AWXStatus ==
  [new |-> "unknown", pending |-> "queued", waiting |-> "queued", running |-> "running",
   successful |-> "success", failed |-> "failed", error |-> "failed",
   canceled |-> "cancelled"]

TerraformStatus ==
  [pending |-> "running", planning |-> "running", planned |-> "running",
   applying |-> "running", applied |-> "success", errored |-> "failed",
   discarded |-> "cancelled", canceled |-> "cancelled", force_canceled |-> "cancelled",
   planned_and_finished |-> "unknown"]

\* get_adapter: the registry of the five.
StatusMap ==
  [github_actions |-> GitHubStatus, azure_devops |-> AzureStatus,
   octopus_deploy |-> OctopusStatus, awx |-> AWXStatus,
   terraform_cloud |-> TerraformStatus]

MapStatus(p, n) == StatusMap[p][n]
Natives(p) == DOMAIN StatusMap[p]

\* The native states a run starts in, and those it never leaves (external:
\* what the providers do; a run is not started again under its old id).
FirstNative ==
  [github_actions |-> "queued", azure_devops |-> "notStarted",
   octopus_deploy |-> "Queued", awx |-> "new", terraform_cloud |-> "pending"]

FinalNatives ==
  [github_actions |-> {"success", "failure", "cancelled", "skipped", "timed_out", "neutral", "stale"},
   azure_devops |-> {"succeeded", "failed", "canceled", "partiallySucceeded"},
   octopus_deploy |-> {"Success", "Failed", "TimedOut", "Canceled"},
   awx |-> {"successful", "failed", "error", "canceled"},
   terraform_cloud |-> {"applied", "errored", "discarded", "canceled", "force_canceled",
                        "planned_and_finished"}]

\* poll's completed_at per adapter: GitHub and Azure set it from the native
\* "completed" (which action_required is), the others only for a terminal
\* state; Terraform Cloud has no force-canceled-at among the stamps it reads.
GitHubCompleted(n) == n \in FinalNatives["github_actions"] \cup {"action_required"}
AzureCompleted(n) == n \in FinalNatives["azure_devops"]
OctopusCompleted(n) == n \in {"Success", "Failed", "TimedOut", "Canceled"}
AWXCompleted(n) == AWXStatus[n] \in {"success", "failed", "cancelled"}
TerraformCompleted(n) ==
  /\ TerraformStatus[n] \in {"success", "failed", "cancelled"}
  /\ n # "force_canceled"

Completed(p, n) ==
  CASE p = "github_actions"  -> GitHubCompleted(n)
    [] p = "azure_devops"    -> AzureCompleted(n)
    [] p = "octopus_deploy"  -> OctopusCompleted(n)
    [] p = "awx"             -> AWXCompleted(n)
    [] p = "terraform_cloud" -> TerraformCompleted(n)

\* A poll's answer for a run of p in native state n.
Answer(p, n) == [status |-> MapStatus(p, n), completed |-> Completed(p, n)]
\* Every adapter's answer to a poll without an external id, and to a 404.
NoId == [status |-> "queued", completed |-> FALSE]
NotFound == [status |-> "unknown", completed |-> FALSE]

\* The status a trigger that got its id returns: Octopus does not look.
TriggerStatus(p, n) == IF p = "octopus_deploy" THEN "queued" ELSE MapStatus(p, n)

\* The calls of each adapter's trigger, in order.  "list" reads the newest
\* run; "release" looks a release up; "launch" starts a run and returns its
\* id; GitHub's "dispatch" starts one without, and "look" searches for it.
GitHubCalls == <<"list", "dispatch", "look">>
AzureCalls == <<"launch">>
OctopusCalls == <<"release", "launch">>
AWXCalls == <<"launch">>
TerraformCalls == <<"launch">>

TriggerCalls ==
  [github_actions |-> GitHubCalls, azure_devops |-> AzureCalls,
   octopus_deploy |-> OctopusCalls, awx |-> AWXCalls,
   terraform_cloud |-> TerraformCalls]
=============================================================================
