----------------------------- MODULE PlanCards -----------------------------
(***************************************************************************)
(* The life of an agent's plan cards: dosm/agent/routes.py (approve,       *)
(* reject, group approve), the cards the agent proposes and the deletion   *)
(* of a conversation in dosm/llm/routes.py, for one conversation.          *)
(*                                                                         *)
(* Handlers run on one event loop with synchronous database calls: what    *)
(* lies between two awaits is one step.  plan_approve and                  *)
(* plan_approve_group read the cards and commit within one step, then      *)
(* await the runner.  plan_reject leaves its commit to the teardown of     *)
(* get_session, which runs in a worker thread after the handler returned.  *)
(***************************************************************************)
EXTENDS Integers, FiniteSets

CONSTANTS Cards,         \* card ids, in the order of PlanCard.id
          Msgs,          \* assistant messages that carry cards
          MsgOf,         \* the message each card belongs to
          Tools,         \* names in the action registry
          CommandTools,  \* ssh_exec, local_exec, winrm_exec
          ElevatedTools, \* tools whose own classify() returns "elevated"
          NoConfirm,     \* tools without an elevated_confirm_field
          Args,          \* argument sets (for a command tool, its command)
          Groups,        \* concurrent plan_approve_group requests
          MaxRestarts    \* bound: restarts of the DOSM process

ASSUME PlanAssumption ==
    /\ Cards \subseteq Nat /\ IsFiniteSet(Cards)
    /\ MsgOf \in [Cards -> Msgs]
    /\ CommandTools \subseteq Tools /\ ElevatedTools \subseteq Tools
    /\ Tools # {} /\ Args # {}
    /\ MaxRestarts \in Nat

VARIABLES
    conv,       \* whether the conversation row exists
    status,     \* PlanCard.status, "none" when there is no row
    tier,       \* PlanCard.tier
    tool,       \* PlanCard.tool
    args,       \* PlanCard.args, the model's proposal
    effective,  \* PlanCard.effective_args, what is run
    allow,      \* cfg.ssh_command_policy.allow_list of the running process
    registry,   \* tools registered in the running process
    rejecting,  \* cards with a plan_reject between its handler and its commit
    solo,       \* cards whose runner was started by plan_approve
    batch,      \* for each plan_approve_group, the cards it still has to run
    restarts,   \* restarts so far
    started,    \* how often each card's runner was started
    typed,      \* cards approved with the typed confirmation
    audit       \* AuditLog rows: pairs <<event, card>>

cardVars == <<status, tier, tool, args, effective>>
procVars == <<allow, registry, rejecting, solo, batch>>
histVars == <<started, typed, audit>>
vars == <<conv, cardVars, procVars, restarts, histVars>>

Statuses == {"none", "pending", "approved", "rejected", "executed", "failed"}
Tiers == {"safe", "elevated"}
Events == {"approve", "reject", "fail", "execute"}

Init ==
    /\ conv = TRUE
    /\ status = [c \in Cards |-> "none"]
    /\ tier = [c \in Cards |-> "safe"]
    /\ tool = [c \in Cards |-> CHOOSE t \in Tools : TRUE]
    /\ args = [c \in Cards |-> CHOOSE a \in Args : TRUE]
    /\ effective = args
    /\ allow \in SUBSET Args
    /\ registry = Tools
    /\ rejecting = {} /\ solo = {}
    /\ batch = [g \in Groups |-> {}]
    /\ started = [c \in Cards |-> 0]
    /\ typed = {} /\ audit = {}
    /\ restarts = 0

\* classify_command for the command tools, spec.classify for the others.
Classify(t, a) ==
    IF t \in CommandTools
    THEN IF a \in allow THEN "safe" ELSE "elevated"
    ELSE IF t \in ElevatedTools THEN "elevated" ELSE "safe"

\* _own_card_or_404
Exists(c) == conv /\ status[c] # "none"

\* A generation has persisted a plan card, classified under today's allow list.
Propose(c) ==
    /\ conv
    /\ status[c] = "none"
    /\ started[c] = 0 /\ ~ \E e \in Events : <<e, c>> \in audit
    /\ \E t \in registry, a \in Args :
          /\ tool' = [tool EXCEPT ![c] = t]
          /\ args' = [args EXCEPT ![c] = a]
          /\ tier' = [tier EXCEPT ![c] = Classify(t, a)]
          /\ effective' = [effective EXCEPT ![c] = a]
    /\ status' = [status EXCEPT ![c] = "pending"]
    /\ UNCHANGED <<conv, restarts, procVars, histVars>>

-----------------------------------------------------------------------------
(* plan_reject *)

\* The handler saw a pending card; its changes wait in the session.
Reject(c) ==
    /\ Exists(c)
    /\ status[c] = "pending"
    /\ rejecting' = rejecting \cup {c}
    /\ UNCHANGED <<conv, restarts, cardVars, allow, registry, solo, batch, histVars>>

\* get_session's commit.  The UPDATE names no status in its WHERE; it fails
\* only when the row is gone, and the audit row is rolled back with it.
RejectCommits(c) ==
    /\ c \in rejecting
    /\ rejecting' = rejecting \ {c}
    /\ IF Exists(c)
       THEN /\ status' = [status EXCEPT ![c] = "rejected"]
            /\ audit' = audit \cup {<<"reject", c>>}
       ELSE UNCHANGED <<status, audit>>
    /\ UNCHANGED <<conv, restarts, tier, tool, args, effective, allow, registry, solo,
                   batch, started, typed>>

-----------------------------------------------------------------------------
(* plan_approve *)

\* The tool is not registered (any more).
ApproveUnknown(c) ==
    /\ Exists(c)
    /\ status[c] = "pending"
    /\ tool[c] \notin registry
    /\ status' = [status EXCEPT ![c] = "failed"]
    /\ audit' = audit \cup {<<"fail", c>>}
    /\ UNCHANGED <<conv, restarts, tier, tool, args, effective, procVars, started, typed>>

\* Elevated, and the confirmation was not typed: back to the page.
ApproveUnconfirmed(c) ==
    /\ Exists(c)
    /\ status[c] = "pending"
    /\ tool[c] \in registry \ NoConfirm
    /\ \E a \in Args : Classify(tool[c], a) = "elevated"
    /\ tier' = [tier EXCEPT ![c] = "elevated"]
    /\ UNCHANGED <<conv, restarts, status, tool, args, effective, procVars, histVars>>

\* Mutant: approve without the check for "pending" (a second click runs again).
ApproveAgain(c) ==
    /\ Exists(c)
    /\ tool[c] \in registry
    /\ \E a \in Args, confirmed \in BOOLEAN :
          LET t == Classify(tool[c], a) IN
          /\ t = "elevated" /\ tool[c] \notin NoConfirm => confirmed
          /\ tier' = [tier EXCEPT ![c] = t]
          /\ effective' = [effective EXCEPT ![c] = a]
          /\ typed' = IF confirmed THEN typed \cup {c} ELSE typed
    /\ status' = [status EXCEPT ![c] = "approved"]
    /\ solo' = solo \cup {c}
    /\ started' = [started EXCEPT ![c] = @ + 1]
    /\ audit' = audit \cup {<<"approve", c>>}
    /\ UNCHANGED <<conv, restarts, tool, args, allow, registry, rejecting, batch>>

\* Mutant: the tier shown on the card is trusted instead of the edited command's.
ApproveStoredTier(c) ==
    /\ Exists(c)
    /\ status[c] = "pending"
    /\ tool[c] \in registry
    /\ \E a \in Args, confirmed \in BOOLEAN :
          /\ tier[c] = "elevated" /\ tool[c] \notin NoConfirm => confirmed
          /\ effective' = [effective EXCEPT ![c] = a]
          /\ typed' = IF confirmed THEN typed \cup {c} ELSE typed
    /\ status' = [status EXCEPT ![c] = "approved"]
    /\ solo' = solo \cup {c}
    /\ started' = [started EXCEPT ![c] = @ + 1]
    /\ audit' = audit \cup {<<"approve", c>>}
    /\ UNCHANGED <<conv, restarts, tier, tool, args, allow, registry, rejecting, batch>>

\* The operator's edits a are classified, confirmed where needed, committed as
\* approved, and the runner is started.
Approve(c) ==
    /\ Exists(c)
    /\ status[c] = "pending"
    /\ tool[c] \in registry
    /\ \E a \in Args, confirmed \in BOOLEAN :
          LET t == Classify(tool[c], a) IN
          /\ t = "elevated" /\ tool[c] \notin NoConfirm => confirmed
          /\ tier' = [tier EXCEPT ![c] = t]
          /\ effective' = [effective EXCEPT ![c] = a]
          /\ typed' = IF confirmed THEN typed \cup {c} ELSE typed
    /\ status' = [status EXCEPT ![c] = "approved"]
    /\ solo' = solo \cup {c}
    /\ started' = [started EXCEPT ![c] = @ + 1]
    /\ audit' = audit \cup {<<"approve", c>>}
    /\ UNCHANGED <<conv, restarts, tool, args, allow, registry, rejecting, batch>>

\* Mutant: the status is only written when the runner succeeded.
RecordOkOnly(c, ok) ==
    IF conv
    THEN /\ status' = IF status[c] = "none" \/ ~ ok THEN status
                      ELSE [status EXCEPT ![c] = "executed"]
         /\ audit' = audit \cup {<<"execute", c>>}
    ELSE UNCHANGED <<status, audit>>

\* The session_scope after the runner: card, result message and audit row in one
\* transaction.  Without the conversation the message violates its foreign key
\* and everything is rolled back.
Record(c, ok) ==
    IF conv
    THEN /\ status' = IF status[c] = "none" THEN status
                      ELSE [status EXCEPT ![c] = IF ok THEN "executed" ELSE "failed"]
         /\ audit' = audit \cup {<<"execute", c>>}
    ELSE UNCHANGED <<status, audit>>

\* The runner of plan_approve returns or raises.
RunnerEnds(c) ==
    /\ c \in solo
    /\ \E ok \in BOOLEAN : Record(c, ok)
    /\ solo' = solo \ {c}
    /\ UNCHANGED <<conv, restarts, tier, tool, args, effective, allow, registry, rejecting,
                   batch, started, typed>>

-----------------------------------------------------------------------------
(* plan_approve_group *)

\* The runner a group request is in: its cards run one after another by id.
Current(g) == CHOOSE c \in batch[g] : \A d \in batch[g] : c <= d

\* Mutant: the query forgets `PlanCard.status == "pending"`.
GroupSelectAny(m) ==
    {c \in Cards : status[c] # "none" /\ MsgOf[c] = m /\ tier[c] = "safe"}

\* The query of the handler: pending, stored as safe, of this message.
GroupSelect(m) ==
    {c \in Cards : status[c] = "pending" /\ MsgOf[c] = m /\ tier[c] = "safe"}

\* Mutant: the group handler leaves the audit rows to the end of the request.
GroupApproveUnaudited(g, m) ==
    LET known == {c \in GroupSelect(m) : tool[c] \in registry}
        failed == GroupSelect(m) \ known
    IN  /\ conv
        /\ batch[g] = {}
        /\ GroupSelect(m) # {}
        /\ status' = [c \in Cards |-> IF c \in known THEN "approved"
                                      ELSE IF c \in failed THEN "failed"
                                      ELSE status[c]]
        /\ effective' = [c \in Cards |-> IF c \in known THEN args[c]
                                                        ELSE effective[c]]
        /\ batch' = [batch EXCEPT ![g] = known]
        /\ started' = [c \in Cards |->
               IF c \in known /\ \A d \in known : c <= d THEN started[c] + 1
                                                         ELSE started[c]]
        /\ UNCHANGED <<conv, restarts, tier, tool, args, allow, registry,
                       rejecting, solo, typed, audit>>

\* All selected cards are committed as approved, with their audit rows; the
\* first one's runner starts.
GroupApprove(g, m) ==
    LET known == {c \in GroupSelect(m) : tool[c] \in registry}
        failed == GroupSelect(m) \ known
    IN  /\ conv
        /\ batch[g] = {}
        /\ GroupSelect(m) # {}
        /\ status' = [c \in Cards |-> IF c \in known THEN "approved"
                                      ELSE IF c \in failed THEN "failed"
                                      ELSE status[c]]
        /\ effective' = [c \in Cards |-> IF c \in known THEN args[c]
                                                        ELSE effective[c]]
        /\ audit' = audit \cup {<<"approve", c>> : c \in known}
        /\ batch' = [batch EXCEPT ![g] = known]
        /\ started' = [c \in Cards |->
               IF c \in known /\ \A d \in known : c <= d THEN started[c] + 1
                                                         ELSE started[c]]
        /\ UNCHANGED <<conv, restarts, tier, tool, args, allow, registry,
                       rejecting, solo, typed>>

\* One runner of the group ends and the next one starts; the error of a rolled
\* back transaction ends the request.
GroupRunnerEnds(g) ==
    LET rest == IF conv THEN batch[g] \ {Current(g)} ELSE {}
    IN  /\ batch[g] # {}
        /\ \E ok \in BOOLEAN : Record(Current(g), ok)
        /\ batch' = [batch EXCEPT ![g] = rest]
        /\ started' = [c \in Cards |->
               IF c \in rest /\ \A d \in rest : c <= d THEN started[c] + 1
                                                       ELSE started[c]]
        /\ UNCHANGED <<conv, restarts, tier, tool, args, effective, allow,
                       registry, rejecting, solo, typed>>

-----------------------------------------------------------------------------
(* The conversation and the process *)

\* chat_delete: the cards go with the conversation.
Delete ==
    /\ conv
    /\ conv' = FALSE
    /\ status' = [c \in Cards |-> "none"]
    /\ UNCHANGED <<restarts, tier, tool, args, effective, procVars, histVars>>

\* The process dies and comes back, with a config.yaml that may have another
\* allow list and a version that may have other tools.  Nothing on startup looks
\* at plan cards.
Restart ==
    /\ restarts < MaxRestarts
    /\ restarts' = restarts + 1
    /\ rejecting' = {} /\ solo' = {}
    /\ batch' = [g \in Groups |-> {}]
    /\ allow' \in SUBSET Args
    /\ registry' \in SUBSET Tools
    /\ UNCHANGED <<conv, cardVars, histVars>>

Next ==
    \/ \E c \in Cards : \/ Propose(c) \/ Reject(c) \/ RejectCommits(c)
                        \/ ApproveUnknown(c) \/ ApproveUnconfirmed(c)
                        \/ Approve(c) \/ RunnerEnds(c)
    \/ \E g \in Groups : GroupRunnerEnds(g) \/ \E m \in Msgs : GroupApprove(g, m)
    \/ Delete
    \/ Restart

Spec == Init /\ [][Next]_vars

\* A runner ends: the commands and calls it makes have timeouts.  Commits happen.
Fairness ==
    /\ \A c \in Cards : WF_vars(RunnerEnds(c)) /\ WF_vars(RejectCommits(c))
    /\ \A g \in Groups : WF_vars(GroupRunnerEnds(g))

FairSpec == Spec /\ Fairness

-----------------------------------------------------------------------------
(* Properties *)

\* Every card has a status and a tier the code knows, and the audit trail only
\* its events.
TypeOK ==
    /\ conv \in BOOLEAN
    /\ status \in [Cards -> Statuses]
    /\ tier \in [Cards -> Tiers]
    /\ tool \in [Cards -> Tools]
    /\ args \in [Cards -> Args] /\ effective \in [Cards -> Args]
    /\ allow \subseteq Args /\ registry \subseteq Tools
    /\ rejecting \subseteq Cards /\ solo \subseteq Cards /\ typed \subseteq Cards
    /\ batch \in [Groups -> SUBSET Cards]
    /\ started \in [Cards -> Nat]
    /\ audit \subseteq Events \X Cards
    /\ restarts \in 0 .. MaxRestarts

\* A card's runner is started at most once: not by a second click, nor by a group
\* approval that meets an individual one, nor after a restart.
RunsOnce == \A c \in Cards : started[c] <= 1

\* A runner only starts after its approval was committed to the audit log, so a
\* crash, a deletion or a failing runner cannot hide that it ran.
RunIsAudited == \A c \in Cards : started[c] > 0 => <<"approve", c>> \in audit

\* A rejection that was committed before any approval is final.
RejectStands ==
    [][\A c \in Cards : <<"reject", c>> \in audit /\ <<"approve", c>> \notin audit
                           => <<"approve", c>> \notin audit']_vars

\* Whatever the operator edited and whatever the page showed, a command that is
\* elevated when plan_approve takes it was confirmed by typing, for the tools that
\* have a field to type.
ElevatedConfirmed ==
    [][\A c \in solo' \ solo :
          tool[c] \notin NoConfirm /\ Classify(tool[c], effective'[c]) = "elevated"
             => c \in typed']_vars

\* An approved card ends as executed or failed, or goes with its conversation,
\* unless the process dies.
ApprovedSettles ==
    \A c \in Cards : status[c] = "approved" ~> (status[c] # "approved" \/ restarts > 0)
=============================================================================
