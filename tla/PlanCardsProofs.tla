-------------------------- MODULE PlanCardsProofs --------------------------
(***************************************************************************)
(* For every number of cards, messages, tools and concurrent group         *)
(* approvals, and any number of restarts: a card runs at most once, every  *)
(* run is audited first, a rejection that came first stands, and what is   *)
(* elevated when it is approved alone was confirmed.                       *)
(***************************************************************************)
EXTENDS PlanCards, RunTables, Sequences, WellFoundedInduction, TLAPS

\* A pending card has left no trace yet.
PendingFresh ==
    \A c \in Cards : status[c] = "pending" =>
        started[c] = 0 /\ \A e \in Events : <<e, c>> \notin audit

\* Whatever waits for or is in a runner has been audited as approved.
QueuedAudited ==
    /\ \A c \in solo : <<"approve", c>> \in audit
    /\ \A g \in Groups : \A c \in batch[g] : <<"approve", c>> \in audit

\* Two group requests never share a card, and of a request's cards only the
\* first one has been started.
BatchesApart ==
    /\ \A g, h \in Groups : g # h => batch[g] \cap batch[h] = {}
    /\ \A g \in Groups : \A c \in batch[g] :
           started[c] > 0 => \A d \in batch[g] : c <= d

CardInv ==
    TypeOK /\ PendingFresh /\ QueuedAudited /\ BatchesApart /\ RunsOnce /\ RunIsAudited

-----------------------------------------------------------------------------
(* The card a group request is in *)

\* A non-empty set of natural numbers has a least element.
LEMMA LeastNatural ==
    ASSUME NEW S \in SUBSET Nat, S # {}
    PROVE  \E m \in S : \A n \in S : m <= n
<1> DEFINE R == {ss \in Nat \X Nat : ss[1] < ss[2]}
<1>1. IsWellFoundedOn(R, Nat)
    BY NatLessThanWellFounded DEF OpToRel
<1>2. \A m, n \in Nat : n < m => <<n, m>> \in R
    OBVIOUS
<1> HIDE DEF R
<1>3. PICK m \in S : \A n \in S : ~ (<<n, m>> \in R)
    BY <1>1, WFMin
<1>4. ASSUME NEW n \in S PROVE m <= n
    <2>1. m \in Nat /\ n \in Nat
        OBVIOUS
    <2>2. ~ (n < m)
        BY <1>2, <1>3, <2>1
    <2> QED BY <2>1, <2>2
<1> QED BY <1>4

\* Current(g) is the request's card with the least id.
LEMMA CurrentIsFirst ==
    ASSUME TypeOK, NEW g \in Groups, batch[g] # {}
    PROVE  Current(g) \in batch[g] /\ \A d \in batch[g] : Current(g) <= d
<1>1. batch[g] \in SUBSET Nat
    BY PlanAssumption DEF TypeOK
<1>2. \E m \in batch[g] : \A n \in batch[g] : m <= n
    BY <1>1, LeastNatural
<1> QED BY <1>2 DEF Current

-----------------------------------------------------------------------------
(* Types *)

\* Classify only gives the two tiers.
LEMMA ClassifyTier == \A t, a : Classify(t, a) \in Tiers
    BY DEF Classify, Tiers

\* What Record writes, in both of its cases.
LEMMA RecordEffect ==
    ASSUME TypeOK, NEW c \in Cards, NEW ok \in BOOLEAN, Record(c, ok)
    PROVE  /\ status' \in [Cards -> Statuses]
           /\ audit \subseteq audit' /\ audit' \subseteq audit \cup {<<"execute", c>>}
           /\ \A d \in Cards : status'[d] = "pending" =>
                  /\ status[d] = "pending"
                  /\ d = c => audit' = audit
<1>1. CASE conv
    <2>1. PICK x \in {"none", "executed", "failed"} : status' = [status EXCEPT ![c] = x]
        <3>1. CASE status[c] = "none"
            BY <1>1, <3>1 DEF Record, TypeOK
        <3>2. CASE status[c] # "none"
            BY <1>1, <3>2 DEF Record, TypeOK
        <3> QED BY <3>1, <3>2
    <2>2. audit' = audit \cup {<<"execute", c>>}
        BY <1>1 DEF Record
    <2> QED BY <2>1, <2>2 DEF TypeOK, Statuses
<1>2. CASE ~ conv
    BY <1>2 DEF Record, TypeOK
<1> QED BY <1>1, <1>2

\* Every action keeps the types of cards, queues and audit trail.
LEMMA TypeStep == TypeOK /\ [Next]_vars => TypeOK'
<1> SUFFICES ASSUME TypeOK, [Next]_vars PROVE TypeOK'
    OBVIOUS
<1> USE PlanAssumption
        DEF TypeOK, Statuses, Tiers, Events, cardVars, procVars, histVars, vars
<1>1. ASSUME NEW c \in Cards, Propose(c) PROVE TypeOK'
    BY <1>1, ClassifyTier DEF Propose
<1>2. ASSUME NEW c \in Cards, Reject(c) PROVE TypeOK'
    BY <1>2 DEF Reject
<1>2a. ASSUME NEW c \in Cards, RejectCommits(c) PROVE TypeOK'
    <2>1. status' \in [Cards -> Statuses] /\ audit' \subseteq Events \X Cards
        BY <1>2a DEF RejectCommits
    <2> QED BY <1>2a, <2>1 DEF RejectCommits
<1>3. ASSUME NEW c \in Cards, ApproveUnknown(c) PROVE TypeOK'
    BY <1>3 DEF ApproveUnknown
<1>3a. ASSUME NEW c \in Cards, ApproveUnconfirmed(c) PROVE TypeOK'
    BY <1>3a DEF ApproveUnconfirmed
<1>4. ASSUME NEW c \in Cards, Approve(c) PROVE TypeOK'
    BY <1>4, ClassifyTier DEF Approve
<1>5. ASSUME NEW c \in Cards, RunnerEnds(c) PROVE TypeOK'
    BY <1>5, RecordEffect DEF RunnerEnds
<1>6. ASSUME NEW g \in Groups, NEW m \in Msgs, GroupApprove(g, m) PROVE TypeOK'
    <2>1. GroupSelect(m) \subseteq Cards
        BY DEF GroupSelect
    <2> QED BY <1>6, <2>1 DEF GroupApprove
<1>7. ASSUME NEW g \in Groups, GroupRunnerEnds(g) PROVE TypeOK'
    <2>1. Current(g) \in Cards
        BY <1>7, CurrentIsFirst DEF GroupRunnerEnds
    <2>2. PICK ok \in BOOLEAN : Record(Current(g), ok)
        BY <1>7 DEF GroupRunnerEnds
    <2>3. /\ status' \in [Cards -> Statuses]
          /\ audit' \subseteq audit \cup {<<"execute", Current(g)>>}
        BY <2>1, <2>2, RecordEffect
    <2>4. <<"execute", Current(g)>> \in Events \X Cards
        BY <2>1
    <2>5. audit' \subseteq Events \X Cards
        BY <2>3, <2>4
    <2> QED BY <1>7, <2>3, <2>5 DEF GroupRunnerEnds
<1>8. CASE Delete
    BY <1>8 DEF Delete
<1>8a. CASE Restart
    BY <1>8a DEF Restart
<1>9. CASE UNCHANGED vars
    BY <1>9
<1> QED BY <1>1, <1>2, <1>2a, <1>3, <1>3a, <1>4, <1>5, <1>6, <1>7, <1>8, <1>8a,
          <1>9 DEF Next

-----------------------------------------------------------------------------
(* Every action preserves the invariant *)

\* The parts of the invariant besides the types.
Parts == PendingFresh /\ QueuedAudited /\ BatchesApart /\ RunsOnce /\ RunIsAudited

\* A step that starts nothing, queues nothing, makes nothing pending and only
\* adds audit rows for cards that are not pending preserves the invariant.
LEMMA QuietStep ==
    ASSUME CardInv, TypeOK', started' = started,
           solo' \subseteq solo, \A g \in Groups : batch'[g] \subseteq batch[g],
           audit \subseteq audit',
           \A c \in Cards : status'[c] = "pending" =>
               /\ status[c] = "pending"
               /\ \A e \in Events : <<e, c>> \in audit' => <<e, c>> \in audit
    PROVE  Parts'
<1> USE DEF CardInv
<1>1. PendingFresh'
    BY DEF PendingFresh
<1>2. QueuedAudited'
    BY DEF QueuedAudited
<1>3. BatchesApart'
    BY DEF BatchesApart
<1>4. RunsOnce' /\ RunIsAudited'
    BY DEF RunsOnce, RunIsAudited
<1> QED BY <1>1, <1>2, <1>3, <1>4 DEF Parts

\* plan_approve starts a pending card, which no queue holds.
LEMMA ApproveStep ==
    ASSUME CardInv, TypeOK', NEW c \in Cards, Approve(c)
    PROVE  Parts'
<1> USE DEF CardInv, TypeOK
<1>1. /\ status[c] = "pending" /\ started[c] = 0
      /\ \A e \in Events : <<e, c>> \notin audit
      /\ \A g \in Groups : c \notin batch[g]
    BY DEF Approve, PendingFresh, QueuedAudited, Events
<1>2. /\ status' = [status EXCEPT ![c] = "approved"]
      /\ started' = [started EXCEPT ![c] = @ + 1]
      /\ audit' = audit \cup {<<"approve", c>>}
      /\ solo' = solo \cup {c} /\ batch' = batch
    BY DEF Approve
<1>3. PendingFresh'
    BY <1>2 DEF PendingFresh
<1>4. QueuedAudited'
    BY <1>2 DEF QueuedAudited
<1>5. BatchesApart'
    BY <1>1, <1>2 DEF BatchesApart
<1>6. RunsOnce' /\ RunIsAudited'
    BY <1>1, <1>2 DEF RunsOnce, RunIsAudited
<1> QED BY <1>3, <1>4, <1>5, <1>6 DEF Parts

\* plan_approve_group queues pending cards, which no other queue holds, and
\* starts the first one.
LEMMA GroupApproveStep ==
    ASSUME CardInv, TypeOK', NEW g \in Groups, NEW m \in Msgs, GroupApprove(g, m)
    PROVE  Parts'
<1> USE DEF CardInv, TypeOK
<1> DEFINE known == {c \in GroupSelect(m) : tool[c] \in registry}
<1>1. \A c \in GroupSelect(m) : c \in Cards /\ status[c] = "pending"
    BY DEF GroupSelect
<1>2. \A c \in known : /\ c \in Cards /\ started[c] = 0
                       /\ \A h \in Groups : c \notin batch[h]
    BY <1>1 DEF PendingFresh, QueuedAudited, Events
<1>3. /\ batch' = [batch EXCEPT ![g] = known] /\ batch[g] = {}
      /\ audit' = audit \cup {<<"approve", c>> : c \in known}
      /\ solo' = solo
      /\ started' = [c \in Cards |->
             IF c \in known /\ \A d \in known : c <= d THEN started[c] + 1
                                                       ELSE started[c]]
    BY DEF GroupApprove
<1>4. \A c \in Cards : status'[c] = "pending" => status[c] = "pending" /\ c \notin known
    BY DEF GroupApprove
<1> HIDE DEF known
<1>5. PendingFresh'
    BY <1>3, <1>4 DEF PendingFresh
<1>6. QueuedAudited'
    BY <1>2, <1>3 DEF QueuedAudited
<1>7. BatchesApart'
    <2>1. \A h \in Groups : batch'[h] = IF h = g THEN known ELSE batch[h]
        BY <1>3
    <2>2. \A c \in Cards : c \notin known => started'[c] = started[c]
        BY <1>3
    <2>3. \A c \in known : started'[c] > 0 => \A d \in known : c <= d
        BY <1>2, <1>3
    <2> QED BY <1>2, <2>1, <2>2, <2>3 DEF BatchesApart
<1>8. RunsOnce' /\ RunIsAudited'
    BY <1>2, <1>3 DEF RunsOnce, RunIsAudited
<1> QED BY <1>5, <1>6, <1>7, <1>8 DEF Parts

\* When a runner of a group ends, the next card has not been started before.
LEMMA GroupRunnerEndsStep ==
    ASSUME CardInv, TypeOK', NEW g \in Groups, GroupRunnerEnds(g)
    PROVE  Parts'
<1> USE DEF CardInv, TypeOK
<1> DEFINE rest == IF conv THEN batch[g] \ {Current(g)} ELSE {}
<1>1. Current(g) \in batch[g] /\ \A d \in batch[g] : Current(g) <= d
    BY CurrentIsFirst DEF GroupRunnerEnds
<1>2. PICK ok \in BOOLEAN : Record(Current(g), ok)
    BY DEF GroupRunnerEnds
<1>3. /\ audit \subseteq audit' /\ audit' \subseteq audit \cup {<<"execute", Current(g)>>}
      /\ \A d \in Cards : status'[d] = "pending" =>
             /\ status[d] = "pending"
             /\ d = Current(g) => audit' = audit
    BY <1>1, <1>2, RecordEffect
<1>4. /\ batch' = [batch EXCEPT ![g] = rest] /\ solo' = solo
      /\ started' = [c \in Cards |->
             IF c \in rest /\ \A d \in rest : c <= d THEN started[c] + 1
                                                     ELSE started[c]]
    BY DEF GroupRunnerEnds
<1>5. rest \subseteq batch[g] \ {Current(g)}
    OBVIOUS
<1> HIDE DEF rest
<1>6. \A c \in rest : c \in Cards /\ started[c] = 0 /\ status[c] # "pending"
    <2> SUFFICES ASSUME NEW c \in rest
                 PROVE  c \in Cards /\ started[c] = 0 /\ status[c] # "pending"
        OBVIOUS
    <2>1. c \in batch[g] /\ c \in Cards /\ c # Current(g)
        BY <1>5
    <2>2. c \in Nat /\ Current(g) \in Nat /\ started[c] \in Nat
        BY <1>1, <2>1, PlanAssumption
    <2>3. ~ (c <= Current(g))
        BY <1>1, <2>1, <2>2
    <2>4. started[c] = 0
        BY <1>1, <2>1, <2>2, <2>3 DEF BatchesApart
    <2>5. status[c] # "pending"
        BY <2>1 DEF PendingFresh, QueuedAudited, Events
    <2> QED BY <2>1, <2>4, <2>5
<1>7. PendingFresh'
    BY <1>3, <1>4, <1>6 DEF PendingFresh
<1>8. QueuedAudited'
    BY <1>3, <1>4, <1>5 DEF QueuedAudited
<1>9. BatchesApart'
    <2>1. \A h \in Groups : batch'[h] = IF h = g THEN rest ELSE batch[h]
        BY <1>4
    <2>2. \A c \in Cards : c \notin rest => started'[c] = started[c]
        BY <1>4
    <2>3. \A c \in rest : started'[c] > 0 => \A d \in rest : c <= d
        BY <1>4, <1>6
    <2>4. \A h \in Groups : h # g => batch[h] \cap rest = {}
        BY <1>5 DEF BatchesApart
    <2> QED BY <2>1, <2>2, <2>3, <2>4 DEF BatchesApart
<1>10. RunsOnce'
    BY <1>4, <1>6 DEF RunsOnce
<1>11. RunIsAudited'
    BY <1>3, <1>4, <1>5 DEF RunIsAudited, QueuedAudited
<1> QED BY <1>7, <1>8, <1>9, <1>10, <1>11 DEF Parts

\* One case per action; most of them are quiet.
LEMMA InvStep == CardInv /\ [Next]_vars => CardInv'
<1> SUFFICES ASSUME CardInv, [Next]_vars PROVE CardInv'
    OBVIOUS
<1>0. TypeOK /\ TypeOK'
    BY TypeStep DEF CardInv
<1> USE DEF cardVars, procVars, histVars
<1>1. ASSUME NEW c \in Cards, Propose(c) PROVE Parts'
    <2>1. /\ started' = started /\ audit' = audit /\ solo' = solo /\ batch' = batch
          /\ started[c] = 0 /\ \A e \in Events : <<e, c>> \notin audit
          /\ status' = [status EXCEPT ![c] = "pending"]
        BY <1>1 DEF Propose
    <2>2. PendingFresh'
        BY <1>0, <2>1 DEF CardInv, PendingFresh, TypeOK
    <2>3. QueuedAudited' /\ BatchesApart' /\ RunsOnce' /\ RunIsAudited'
        BY <2>1 DEF CardInv, QueuedAudited, BatchesApart, RunsOnce, RunIsAudited
    <2> QED BY <2>2, <2>3 DEF Parts
<1>2. ASSUME NEW c \in Cards, Reject(c) \/ RejectCommits(c) PROVE Parts'
    BY <1>0, <1>2, QuietStep DEF Reject, RejectCommits, TypeOK
<1>3. ASSUME NEW c \in Cards, ApproveUnknown(c) \/ ApproveUnconfirmed(c) PROVE Parts'
    BY <1>0, <1>3, QuietStep DEF ApproveUnknown, ApproveUnconfirmed, TypeOK
<1>4. ASSUME NEW c \in Cards, Approve(c) PROVE Parts'
    BY <1>0, <1>4, ApproveStep
<1>5. ASSUME NEW c \in Cards, RunnerEnds(c) PROVE Parts'
    <2>1. PICK ok \in BOOLEAN : Record(c, ok)
        BY <1>5 DEF RunnerEnds
    <2>2. /\ audit \subseteq audit' /\ audit' \subseteq audit \cup {<<"execute", c>>}
          /\ \A d \in Cards : status'[d] = "pending" =>
                 /\ status[d] = "pending"
                 /\ d = c => audit' = audit
        BY <1>0, <2>1, RecordEffect
    <2> QED BY <1>0, <1>5, <2>2, QuietStep DEF RunnerEnds
<1>6. ASSUME NEW g \in Groups, NEW m \in Msgs, GroupApprove(g, m) PROVE Parts'
    BY <1>0, <1>6, GroupApproveStep
<1>7. ASSUME NEW g \in Groups, GroupRunnerEnds(g) PROVE Parts'
    BY <1>0, <1>7, GroupRunnerEndsStep
<1>8. ASSUME Delete PROVE Parts'
    BY <1>0, <1>8, QuietStep DEF Delete
<1>9. ASSUME Restart PROVE Parts'
    BY <1>0, <1>9, QuietStep DEF Restart
<1>10. ASSUME UNCHANGED vars PROVE Parts'
    BY <1>0, <1>10, QuietStep DEF vars
<1>11. Parts'
    BY <1>1, <1>2, <1>3, <1>4, <1>5, <1>6, <1>7, <1>8, <1>9, <1>10 DEF Next
<1> QED BY <1>0, <1>11 DEF CardInv, Parts

\* The inductive invariant holds.
THEOREM CardInvariant == Spec => []CardInv
<1>1. Init => CardInv
    <2> SUFFICES ASSUME Init PROVE CardInv
        OBVIOUS
    <2>1. (CHOOSE t \in Tools : TRUE) \in Tools /\ (CHOOSE a \in Args : TRUE) \in Args
        BY PlanAssumption
    <2>2. /\ tool \in [Cards -> Tools]
          /\ args \in [Cards -> Args] /\ effective \in [Cards -> Args]
        BY <2>1 DEF Init
    <2>3. TypeOK
        BY <2>2, PlanAssumption DEF Init, TypeOK, Statuses, Tiers, Events
    <2>4. PendingFresh /\ QueuedAudited /\ BatchesApart /\ RunsOnce /\ RunIsAudited
        BY DEF Init, PendingFresh, QueuedAudited, BatchesApart, RunsOnce, RunIsAudited
    <2> QED BY <2>3, <2>4 DEF CardInv
<1> QED BY <1>1, InvStep, PTL DEF Spec

-----------------------------------------------------------------------------
(* What it shows *)

\* Cards, queues and audit trail have their types.
THEOREM CardTypes == Spec => []TypeOK
<1>1. CardInv => TypeOK
    BY DEF CardInv
<1> QED BY <1>1, CardInvariant, PTL

\* No card's runner is started twice, by whatever mix of approvals and restarts.
THEOREM CardsRunOnce == Spec => []RunsOnce
<1>1. CardInv => RunsOnce
    BY DEF CardInv
<1> QED BY <1>1, CardInvariant, PTL

\* Every run was committed to the audit log as approved before it started.
THEOREM RunsAudited == Spec => []RunIsAudited
<1>1. CardInv => RunIsAudited
    BY DEF CardInv
<1> QED BY <1>1, CardInvariant, PTL

\* Once a card was rejected without having been approved it stays unapproved:
\* it is not pending, and both approvals want a pending card.
THEOREM RejectionsStand == Spec => RejectStands
<1> DEFINE Stands == \A c \in Cards :
               <<"reject", c>> \in audit /\ <<"approve", c>> \notin audit
                  => <<"approve", c>> \notin audit'
<1>1. ASSUME CardInv, [Next]_vars PROVE Stands
    <2> SUFFICES ASSUME NEW c \in Cards, <<"reject", c>> \in audit,
                        <<"approve", c>> \notin audit
                 PROVE  <<"approve", c>> \notin audit'
        OBVIOUS
    <2> USE DEF histVars
    <2>0. TypeOK /\ status[c] # "pending"
        BY <1>1 DEF CardInv, PendingFresh, Events
    <2>1. ASSUME NEW d \in Cards, Propose(d) \/ Reject(d) \/ RejectCommits(d)
                                 \/ ApproveUnknown(d) \/ ApproveUnconfirmed(d)
          PROVE  <<"approve", c>> \notin audit'
        BY <2>1 DEF Propose, Reject, RejectCommits, ApproveUnknown, ApproveUnconfirmed
    <2>2. ASSUME NEW d \in Cards, Approve(d) PROVE <<"approve", c>> \notin audit'
        BY <2>0, <2>2 DEF Approve
    <2>3. ASSUME NEW d \in Cards, RunnerEnds(d) PROVE <<"approve", c>> \notin audit'
        BY <2>0, <2>3, RecordEffect DEF RunnerEnds
    <2>4. ASSUME NEW g \in Groups, NEW m \in Msgs, GroupApprove(g, m)
          PROVE  <<"approve", c>> \notin audit'
        BY <2>0, <2>4 DEF GroupApprove, GroupSelect
    <2>5. ASSUME NEW g \in Groups, GroupRunnerEnds(g)
          PROVE  <<"approve", c>> \notin audit'
        <3>1. Current(g) \in Cards
            BY <2>0, <2>5, CurrentIsFirst DEF GroupRunnerEnds, TypeOK
        <3>2. PICK ok \in BOOLEAN : Record(Current(g), ok)
            BY <2>5 DEF GroupRunnerEnds
        <3>3. audit' \subseteq audit \cup {<<"execute", Current(g)>>}
            BY <2>0, <3>1, <3>2, RecordEffect
        <3> QED BY <3>3
    <2>6. CASE Delete \/ Restart \/ UNCHANGED vars
        BY <2>6 DEF Delete, Restart, vars
    <2> QED BY <1>1, <2>1, <2>2, <2>3, <2>4, <2>5, <2>6 DEF Next
<1>2. CardInv /\ [Next]_vars => [Stands]_vars
    BY <1>1
<1> QED BY <1>2, CardInvariant, PTL DEF Spec, RejectStands

\* Whatever was edited, what plan_approve runs under an elevated tier was
\* confirmed: only Approve queues a runner of its own, under the tier of the
\* arguments it stores.
THEOREM ElevationsConfirmed == Spec => ElevatedConfirmed
<1> DEFINE Confirmed == \A c \in solo' \ solo :
               tool[c] \notin NoConfirm /\ Classify(tool[c], effective'[c]) = "elevated"
                  => c \in typed'
<1>1. ASSUME CardInv, [Next]_vars PROVE Confirmed
    <2> SUFFICES ASSUME NEW c \in solo' \ solo, tool[c] \notin NoConfirm,
                        Classify(tool[c], effective'[c]) = "elevated"
                 PROVE  c \in typed'
        OBVIOUS
    <2>0. effective \in [Cards -> Args]
        BY <1>1 DEF CardInv, TypeOK
    <2>1. ASSUME NEW d \in Cards, Approve(d) PROVE c \in typed'
        <3>1. c = d
            BY <2>1 DEF Approve
        <3>2. PICK a \in Args, confirmed \in BOOLEAN :
                  /\ Classify(tool[c], a) = "elevated" /\ tool[c] \notin NoConfirm
                        => confirmed
                  /\ effective' = [effective EXCEPT ![c] = a]
                  /\ typed' = IF confirmed THEN typed \cup {c} ELSE typed
            BY <2>1, <3>1 DEF Approve
        <3>3. effective'[c] = a
            BY <2>0, <2>1, <3>1, <3>2
        <3> QED BY <3>2, <3>3
    <2>2. ASSUME NEW d \in Cards, Propose(d) \/ Reject(d) \/ RejectCommits(d)
                                 \/ ApproveUnknown(d) \/ ApproveUnconfirmed(d)
                                 \/ RunnerEnds(d)
          PROVE  FALSE
        BY <2>2 DEF Propose, Reject, RejectCommits, ApproveUnknown,
                    ApproveUnconfirmed, RunnerEnds, procVars
    <2>3. ASSUME NEW g \in Groups,
                 GroupRunnerEnds(g) \/ \E m \in Msgs : GroupApprove(g, m)
          PROVE  FALSE
        BY <2>3 DEF GroupRunnerEnds, GroupApprove
    <2>4. CASE Delete \/ Restart \/ UNCHANGED vars
        BY <2>4 DEF Delete, Restart, vars, procVars
    <2> QED BY <1>1, <2>1, <2>2, <2>3, <2>4 DEF Next
<1>2. CardInv /\ [Next]_vars => [Confirmed]_vars
    BY <1>1
<1> QED BY <1>2, CardInvariant, PTL DEF Spec, ElevatedConfirmed

-----------------------------------------------------------------------------
(***************************************************************************)
(* Pipelines, which the agent's run_pipeline triggers when its card is     *)
(* approved: for every number of handlers, rows, targets, looks and runs   *)
(* of a provider, pipeline_runs holds sound rows and a settled row says    *)
(* what its run ended with.                                                *)
(***************************************************************************)

P == INSTANCE PipelineRuns

\* The provider's run id at t has ended, with what is stored as st.
Ended(t, id, st) ==
  /\ id \in DOMAIN made[t]
  /\ made[t][id] \in P!FinalNatives[site.provider[t]]
  /\ st = P!MapStatus(site.provider[t], made[t][id])

\* An id that a trigger got at t: the provider gave it, and GitHub's list shows it.
Given(t, id) ==
  /\ id <= Len(made[t])
  /\ site.provider[t] = "github_actions" => id <= listed[t]

\* A row that a trigger or a refresh may write.
RowSound(x) ==
  x # P!NoRow =>
    /\ x.at \in P!Places /\ x.by \in P!Places
    /\ x.status \in P!RUN_STATUSES
    /\ Given(x.at, x.ext)
    /\ x.status \in P!Terminal /\ x.ext # 0 => Ended(x.by, x.ext, x.status)

\* No row at t has an id above n.
RowsUpTo(t, n) == \A r \in Runs : row[r].at = t => row[r].ext <= n

\* What is left of the calls of each provider's trigger.
CallsAt(t, calls) ==
  /\ calls \in P!CallsLeft
  /\ site.provider[t] = "github_actions" <=> Head(calls) \in {"list", "dispatch", "look"}

\* A trigger: it has the write lock and an unused row; after the lookup no row at its
\* target has an id above previous_id, and what it will commit has a new id.
TriggerSound(h) ==
  /\ job[h].op \in {"call", "commit"} => writer = h /\ row[job[h].run] = P!NoRow
  /\ job[h].op = "call" =>
       /\ job[h].at \in P!Places /\ CallsAt(job[h].at, job[h].calls)
       /\ job[h].prev <= listed[job[h].at]
       /\ Head(job[h].calls) \in {"dispatch", "look"} => RowsUpTo(job[h].at, job[h].prev)
  /\ job[h].op = "commit" =>
       /\ RowSound(job[h].new)
       /\ job[h].new.ext # 0 => RowsUpTo(job[h].new.at, job[h].new.ext - 1)

\* A refresh: its row is the one it loaded or was deleted with the pipeline, and an
\* answer that settles the row is about the run that the row stands for.
RefreshSound(h) ==
  /\ job[h].op \in {"poll", "apply"} =>
       job[h].at \in P!Places /\ (row[job[h].run] = P!NoRow => target = None)
  /\ job[h].op = "poll" => row[job[h].run] = P!NoRow \/ job[h].ext = row[job[h].run].ext
  /\ job[h].op = "apply" /\ job[h].answer.status \in P!Terminal =>
       row[job[h].run] = P!NoRow \/ Ended(job[h].at, row[job[h].run].ext, job[h].answer.status)

Domains ==
  /\ target \in P!Places \cup {None}
  /\ DOMAIN made = P!Places /\ DOMAIN listed = P!Places
  /\ writer # None => target # None

RowsInv == \A r \in Runs : RowSound(row[r])

JobsInv == \A h \in Handlers : TriggerSound(h) /\ RefreshSound(h)

RunsInv == P!RunsTyped /\ Domains /\ RowsInv /\ JobsInv /\ P!RunsDistinct /\ P!NoOrphans

----------------------------------------------------------------------------
(* The adapters *)

\* Every native state is stored as one of RUN_STATUSES, and as an end only if the
\* run never leaves it.
LEMMA MapSound ==
  ASSUME NEW p \in P!Providers, NEW n \in P!Natives(p)
  PROVE  /\ P!MapStatus(p, n) \in P!RUN_STATUSES
         /\ P!MapStatus(p, n) \in P!Terminal => n \in P!FinalNatives[p]
         /\ P!Completed(p, n) \in BOOLEAN
<1>1. CASE p = "github_actions"
  BY <1>1 DEF P!MapStatus, P!StatusMap, P!Natives, P!GitHubStatus, P!RUN_STATUSES, P!Terminal, P!FinalNatives,
    P!Completed, P!GitHubCompleted
<1>2. CASE p = "azure_devops"
  BY <1>2 DEF P!MapStatus, P!StatusMap, P!Natives, P!AzureStatus, P!RUN_STATUSES, P!Terminal, P!FinalNatives,
    P!Completed, P!AzureCompleted
<1>3. CASE p = "octopus_deploy"
  BY <1>3 DEF P!MapStatus, P!StatusMap, P!Natives, P!OctopusStatus, P!RUN_STATUSES, P!Terminal, P!FinalNatives,
    P!Completed, P!OctopusCompleted
<1>4. CASE p = "awx"
  BY <1>4 DEF P!MapStatus, P!StatusMap, P!Natives, P!AWXStatus, P!RUN_STATUSES, P!Terminal, P!FinalNatives,
    P!Completed, P!AWXCompleted
<1>5. CASE p = "terraform_cloud"
  BY <1>5 DEF P!MapStatus, P!StatusMap, P!Natives, P!TerraformStatus, P!RUN_STATUSES, P!Terminal, P!FinalNatives,
    P!Completed, P!TerraformCompleted
<1> QED BY <1>1, <1>2, <1>3, <1>4, <1>5 DEF P!Providers

\* What a trigger returns for a run in state n.
LEMMA TriggerStatusSound ==
  ASSUME NEW p \in P!Providers, NEW n \in P!Natives(p)
  PROVE  /\ P!TriggerStatus(p, n) \in P!RUN_STATUSES
         /\ P!TriggerStatus(p, n) \in P!Terminal =>
              n \in P!FinalNatives[p] /\ P!TriggerStatus(p, n) = P!MapStatus(p, n)
<1> HIDE DEF P!Natives, P!MapStatus
<1> QED BY MapSound DEF P!TriggerStatus, P!RUN_STATUSES, P!Terminal

\* The calls of a trigger, and what is left after a lookup and a dispatch.
LEMMA CallsSound ==
  ASSUME NEW p \in P!Providers
  PROVE  /\ P!TriggerCalls[p] \in P!CallsLeft
         /\ p = "github_actions" <=> Head(P!TriggerCalls[p]) \in {"list", "dispatch", "look"}
         /\ Head(P!TriggerCalls[p]) \notin {"dispatch", "look"}
<1>1. CASE p = "github_actions"
  BY <1>1 DEF P!TriggerCalls, P!CallsLeft, P!GitHubCalls
<1>2. CASE p = "octopus_deploy"
  BY <1>2 DEF P!TriggerCalls, P!CallsLeft, P!OctopusCalls
<1>3. CASE p \in {"azure_devops", "awx", "terraform_cloud"}
  BY <1>3 DEF P!TriggerCalls, P!CallsLeft, P!AzureCalls, P!AWXCalls, P!TerraformCalls
<1> QED BY <1>1, <1>2, <1>3 DEF P!Providers

LEMMA CallsNext ==
  ASSUME NEW calls \in P!CallsLeft
  PROVE  /\ Head(calls) \in {"list", "dispatch", "look", "release", "launch"}
         /\ Head(calls) \in {"list", "dispatch"} =>
              Tail(calls) \in P!CallsLeft /\ Head(Tail(calls)) \in {"dispatch", "look"}
         /\ Head(calls) = "release" => Tail(calls) \in P!CallsLeft /\ Head(Tail(calls)) = "launch"
<1>1. Tail(<<"list", "dispatch", "look">>) = <<"dispatch", "look">>
  OBVIOUS
<1>2. Tail(<<"dispatch", "look">>) = <<"look">>
  OBVIOUS
<1>3. Tail(<<"release", "launch">>) = <<"launch">>
  OBVIOUS
<1>4. CASE calls = <<"list", "dispatch", "look">>
  BY <1>1, <1>4 DEF P!CallsLeft
<1>5. CASE calls = <<"dispatch", "look">>
  BY <1>2, <1>5 DEF P!CallsLeft
<1>6. CASE calls = <<"release", "launch">>
  BY <1>3, <1>6 DEF P!CallsLeft
<1>7. CASE calls \in {<<"look">>, <<"launch">>}
  BY <1>7
<1> QED BY <1>4, <1>5, <1>6, <1>7 DEF P!CallsLeft

----------------------------------------------------------------------------
(* Shapes *)

\* What a handler holds at each place.
LEMMA JobFields ==
  ASSUME NEW j \in P!JobType
  PROVE  /\ j.op \in {"idle", "call", "commit", "poll", "apply"}
         /\ j.op # "idle" => j.run \in Runs
         /\ j.op = "call" => /\ j.at \in Targets /\ j.calls \in P!CallsLeft /\ j.prev \in Nat
                            /\ j.looks \in 0..MaxLooks
                            /\ j = [op |-> "call", run |-> j.run, at |-> j.at, calls |-> j.calls,
                                    prev |-> j.prev, looks |-> j.looks]
         /\ j.op = "commit" => j.new \in P!RowType
         /\ j.op = "poll" => j.at \in Targets /\ j.was \in P!RUN_STATUSES /\ j.ext \in Nat
         /\ j.op = "apply" => /\ j.at \in Targets /\ j.was \in P!RUN_STATUSES
                             /\ j.answer.status \in P!RUN_STATUSES /\ j.answer.completed \in BOOLEAN
<1>1. CASE j = P!Idle
  BY <1>1 DEF P!Idle
<1>2. CASE j \in [op : {"call"}, run : Runs, at : Targets, calls : P!CallsLeft, prev : Nat,
                  looks : 0..MaxLooks]
  BY <1>2
<1>3. CASE j \in [op : {"commit"}, run : Runs, new : P!RowType]
  BY <1>3
<1>4. CASE j \in [op : {"poll"}, run : Runs, at : Targets, was : P!RUN_STATUSES, ext : Nat]
  BY <1>4
<1>5. CASE j \in [op : {"apply"}, run : Runs, at : Targets, was : P!RUN_STATUSES,
                  answer : [status : P!RUN_STATUSES, completed : BOOLEAN]]
  BY <1>5
<1> QED BY <1>1, <1>2, <1>3, <1>4, <1>5 DEF P!JobType

\* Appending keeps what was there.
LEMMA Appended ==
  ASSUME NEW S, NEW s \in Seq(S), NEW x \in S
  PROVE  /\ Append(s, x) \in Seq(S) /\ Len(Append(s, x)) = Len(s) + 1
         /\ Append(s, x)[Len(s) + 1] = x
         /\ \A i \in DOMAIN s : Append(s, x)[i] = s[i]
OBVIOUS

----------------------------------------------------------------------------
(* Steps of the provider *)

\* The provider's runs only get more, and a final state is never left.
Grows ==
  /\ site' = site
  /\ DOMAIN made' = P!Places /\ DOMAIN listed' = P!Places
  /\ \A t \in P!Places :
       /\ made'[t] \in Seq(Seen[site.provider[t]]) /\ Len(made'[t]) <= site.made[t]
       /\ Len(made[t]) <= Len(made'[t])
       /\ listed'[t] \in 0..Len(made'[t]) /\ listed[t] <= listed'[t]
       /\ \A i \in DOMAIN made[t] :
            made[t][i] \in P!FinalNatives[site.provider[t]] => made'[t][i] = made[t][i]

\* Places have adapters, and ids, lengths and states are what they should be.
LEMMA PlacesTyped ==
  ASSUME P!RunsAssumption, P!RunsTyped, Domains, NEW t \in P!Places
  PROVE  /\ t \in Targets /\ t # None
         /\ site.provider[t] \in P!Providers
         /\ Seen[site.provider[t]] \subseteq P!Natives(site.provider[t])
         /\ P!FirstNative[site.provider[t]] \in Seen[site.provider[t]]
         /\ made[t] \in Seq(Seen[site.provider[t]])
         /\ Len(made[t]) \in Nat /\ Len(made[t]) <= site.made[t] /\ site.made[t] \in Nat
         /\ listed[t] \in Nat /\ listed[t] <= Len(made[t])
<1>1. site \in Sites
  BY DEF P!RunsTyped
<1>2. t \in Targets /\ site.provider[t] \in P!Providers /\ site.made[t] \in Nat
  BY <1>1 DEF P!RunsAssumption, P!Places
<1>3. made[t] \in Seq(Seen[site.provider[t]]) /\ Len(made[t]) <= site.made[t]
      /\ listed[t] \in 0..Len(made[t])
  BY DEF P!RunsTyped
<1>4. Len(made[t]) \in Nat
  BY <1>3
<1> QED BY <1>2, <1>3, <1>4 DEF P!RunsAssumption

\* Nothing changes at the provider.
LEMMA StillGrows ==
  ASSUME P!RunsAssumption, P!RunsTyped, Domains, UNCHANGED <<site, made, listed>>
  PROVE  Grows
<1> SUFFICES ASSUME NEW t \in P!Places
             PROVE  /\ made[t] \in Seq(Seen[site.provider[t]]) /\ Len(made[t]) <= site.made[t]
                    /\ Len(made[t]) <= Len(made[t])
                    /\ listed[t] \in 0..Len(made[t]) /\ listed[t] <= listed[t]
  BY DEF Grows, Domains
<1> QED BY PlacesTyped

\* The provider has one more run at t.
LEMMA LaunchGrows ==
  ASSUME P!RunsAssumption, P!RunsTyped, Domains, NEW t \in P!Places, P!Launch(t),
         Len(made[t]) < site.made[t], UNCHANGED <<site, listed>>
  PROVE  /\ Grows
         /\ Len(made'[t]) = Len(made[t]) + 1
         /\ made'[t][Len(made[t]) + 1] = P!FirstNative[site.provider[t]]
<1>1. \A u \in P!Places : made'[u] = IF u = t THEN Append(made[t], P!FirstNative[site.provider[t]])
                                   ELSE made[u]
  BY DEF P!Launch, Domains
<1>2. ASSUME NEW u \in P!Places
      PROVE  /\ made'[u] \in Seq(Seen[site.provider[u]]) /\ Len(made'[u]) <= site.made[u]
             /\ Len(made[u]) <= Len(made'[u])
             /\ listed'[u] \in 0..Len(made'[u]) /\ listed[u] <= listed'[u]
             /\ \A i \in DOMAIN made[u] : made'[u][i] = made[u][i]
  <2>1. CASE u = t
    <3>1. made'[u] = Append(made[u], P!FirstNative[site.provider[u]])
      BY <1>1, <2>1
    <3>2. /\ made[u] \in Seq(Seen[site.provider[u]])
          /\ P!FirstNative[site.provider[u]] \in Seen[site.provider[u]]
      BY PlacesTyped
    <3>3. /\ made'[u] \in Seq(Seen[site.provider[u]]) /\ Len(made'[u]) = Len(made[u]) + 1
          /\ \A i \in DOMAIN made[u] : made'[u][i] = made[u][i]
      <4> DEFINE S == Seen[site.provider[u]]
                 x == P!FirstNative[site.provider[u]]
                 s == made[u]
      <4>1. s \in Seq(S) /\ x \in S
        BY <3>2
      <4>2. made'[u] = Append(s, x)
        BY <3>1
      <4> HIDE DEF S, x, s
      <4>3. made'[u] \in Seq(S) /\ Len(made'[u]) = Len(s) + 1
            /\ \A i \in DOMAIN s : made'[u][i] = s[i]
        BY <4>1, <4>2, Appended
      <4> QED BY <4>3 DEF S, s
    <3> QED BY <2>1, <3>3, PlacesTyped
  <2>2. CASE u # t
    BY <1>1, <2>2, PlacesTyped
  <2> QED BY <2>1, <2>2
<1>3. DOMAIN made' = P!Places /\ DOMAIN listed' = P!Places
  BY DEF P!Launch, Domains
<1>4. Len(made'[t]) = Len(made[t]) + 1
      /\ made'[t][Len(made[t]) + 1] = P!FirstNative[site.provider[t]]
  <2>1. /\ made[t] \in Seq(Seen[site.provider[t]])
        /\ P!FirstNative[site.provider[t]] \in Seen[site.provider[t]]
    BY PlacesTyped
  <2>2. made'[t] = Append(made[t], P!FirstNative[site.provider[t]])
    BY <1>1
  <2> DEFINE S == Seen[site.provider[t]]
             x == P!FirstNative[site.provider[t]]
             s == made[t]
  <2>3. s \in Seq(S) /\ x \in S /\ made'[t] = Append(s, x)
    BY <2>1, <2>2
  <2> HIDE DEF S, x, s
  <2>4. Len(made'[t]) = Len(s) + 1 /\ made'[t][Len(s) + 1] = x
    BY <2>3, Appended
  <2> QED BY <2>4 DEF s, x
<1> QED BY <1>2, <1>3, <1>4 DEF Grows

LEMMA ProceedGrows ==
  ASSUME P!RunsAssumption, P!RunsTyped, Domains, NEW t \in P!Places, NEW i \in 1..Len(made[t]),
         P!Proceed(t, i)
  PROVE  Grows
<1>1. PICK n \in Seen[site.provider[t]] : made' = [made EXCEPT ![t][i] = n]
  BY DEF P!Proceed
<1>2. made[t][i] \notin P!FinalNatives[site.provider[t]] /\ site' = site /\ listed' = listed
  BY DEF P!Proceed
<1>3. ASSUME NEW u \in P!Places
      PROVE  /\ made'[u] \in Seq(Seen[site.provider[u]]) /\ Len(made'[u]) = Len(made[u])
             /\ \A k \in DOMAIN made[u] : made'[u][k] = made[u][k] \/ (u = t /\ k = i)
  <2>1. CASE u = t
    <3>1. made'[u] = [made[t] EXCEPT ![i] = n]
      BY <1>1, <2>1 DEF Domains
    <3> QED BY <2>1, <3>1, PlacesTyped
  <2>2. CASE u # t
    BY <1>1, <2>2, PlacesTyped DEF Domains
  <2> QED BY <2>1, <2>2
<1>4. DOMAIN made' = P!Places /\ DOMAIN listed' = P!Places
  BY <1>1, <1>2 DEF Domains
<1> QED BY <1>2, <1>3, <1>4, PlacesTyped DEF Grows

\* What holds of rows and of the handlers that do not move, holds after the provider
\* has moved.
LEMMA GrowKeeps ==
  ASSUME P!RunsAssumption, RunsInv, Grows, UNCHANGED <<row, target, writer>>
  PROVE  /\ \A x \in P!RowType : RowSound(x) => RowSound(x)'
         /\ \A t \in P!Places : \A id, st : Ended(t, id, st) => Ended(t, id, st)'
         /\ \A h \in Handlers : job'[h] = job[h] => TriggerSound(h)' /\ RefreshSound(h)'
         /\ Domains' /\ RowsInv' /\ P!RunsDistinct' /\ P!NoOrphans'
<1>1. ASSUME NEW t \in P!Places, NEW id, NEW st, Ended(t, id, st)
      PROVE  Ended(t, id, st)'
  <2>1. id \in DOMAIN made'[t]
    BY <1>1, PlacesTyped DEF Ended, Grows, RunsInv
  <2> QED BY <1>1, <2>1 DEF Ended, Grows
<1>2. ASSUME NEW x \in P!RowType, RowSound(x)
      PROVE  RowSound(x)'
  <2>1. CASE x = P!NoRow
    BY <2>1 DEF RowSound, P!NoRow, P!Row
  <2>2. CASE x # P!NoRow
    <3>1. x.at \in P!Places /\ x.by \in P!Places /\ x.ext \in Nat
      BY <1>2, <2>2 DEF RowSound, P!RowType
    <3>2. Given(x.at, x.ext)'
      BY <1>2, <2>2, <3>1, PlacesTyped DEF RowSound, Given, Grows, RunsInv
    <3>3. x.status \in P!Terminal /\ x.ext # 0 => Ended(x.by, x.ext, x.status)'
      BY <1>1, <1>2, <2>2, <3>1 DEF RowSound
    <3>4. P!Places' = P!Places
      BY DEF Grows, P!Places
    <3> QED BY <1>2, <2>2, <3>1, <3>2, <3>3, <3>4 DEF RowSound, P!NoRow, P!Row
  <2> QED BY <2>1, <2>2
<1>3. P!Places' = P!Places
  BY DEF Grows, P!Places
<1>4. \A h \in Handlers : job[h] \in P!JobType
  BY DEF RunsInv, P!RunsTyped
<1>5. ASSUME NEW h \in Handlers, job'[h] = job[h]
      PROVE  TriggerSound(h)'
  <2>1. TriggerSound(h) /\ job[h] \in P!JobType
    BY <1>4 DEF RunsInv, JobsInv
  <2>2. ASSUME job[h].op = "commit"
        PROVE  RowSound(job[h].new)'
    <3>1. job[h].new \in P!RowType
      BY <2>1, <2>2, JobFields
    <3>2. RowSound(job[h].new)
      BY <2>1, <2>2 DEF TriggerSound
    <3> QED BY <1>2, <1>5, <3>1, <3>2 DEF RowSound, Given, Ended, P!NoRow, P!Row, P!Places
  <2>3. ASSUME job[h].op = "call"
        PROVE  /\ job[h].at \in P!Places /\ job[h].prev <= listed'[job[h].at]
               /\ CallsAt(job[h].at, job[h].calls)'
    <3>1. job[h].prev \in Nat
      BY <2>1, <2>3, JobFields
    <3>2. job[h].at \in P!Places /\ CallsAt(job[h].at, job[h].calls) /\ job[h].prev <= listed[job[h].at]
      BY <2>1, <2>3 DEF TriggerSound
    <3>3. site' = site /\ listed[job[h].at] <= listed'[job[h].at]
      BY <3>2 DEF Grows
    <3>4. listed'[job[h].at] \in Nat /\ listed[job[h].at] \in Nat
      <4>1. Len(made'[job[h].at]) \in Nat
        BY <3>2 DEF Grows
      <4> QED BY <3>2, <4>1, PlacesTyped DEF Grows, RunsInv
    <3> QED BY <1>5, <3>1, <3>2, <3>3, <3>4 DEF CallsAt
  <2>4. CASE job[h].op = "call"
    BY <1>3, <1>5, <2>1, <2>3, <2>4 DEF TriggerSound, RowsUpTo, P!NoRow, P!Row
  <2>5. CASE job[h].op = "commit"
    BY <1>3, <1>5, <2>1, <2>2, <2>5 DEF TriggerSound, RowsUpTo, P!NoRow, P!Row
  <2> QED BY <1>5, <2>4, <2>5 DEF TriggerSound
<1>6. ASSUME NEW h \in Handlers, job'[h] = job[h]
      PROVE  RefreshSound(h)'
  BY <1>1, <1>3, <1>6 DEF RunsInv, JobsInv, RefreshSound, P!NoRow, P!Row
<1>7. RowsInv'
  BY <1>2 DEF RunsInv, RowsInv, P!RunsTyped
<1>8. Domains' /\ P!RunsDistinct' /\ P!NoOrphans'
  BY <1>3 DEF RunsInv, Domains, P!RunsDistinct, P!NoOrphans, Grows, P!NoRow, P!Row
<1> QED BY <1>1, <1>2, <1>5, <1>6, <1>7, <1>8

\* The types of what the provider keeps.
LEMMA GrowTypes ==
  ASSUME P!RunsAssumption, RunsInv, Grows
  PROVE  /\ site' \in Sites /\ P!Places' = P!Places
         /\ \A t \in P!Places : /\ made'[t] \in Seq(Seen[site'.provider[t]])
                              /\ Len(made'[t]) <= site'.made[t]
                              /\ listed'[t] \in 0..Len(made'[t])
BY DEF RunsInv, P!RunsTyped, Grows, P!Places

\* A step that moves no handler and writes nothing that the invariant is about.
LEMMA UnmovedStep ==
  ASSUME P!RunsAssumption, RunsInv, Grows, UNCHANGED <<row, target, writer, job>>,
         old' \subseteq Runs, tick' \in {"idle", "raised"}
  PROVE  RunsInv'
<1>1. P!RunsTyped'
  BY GrowTypes DEF RunsInv, P!RunsTyped
<1>2. JobsInv'
  BY GrowKeeps DEF JobsInv
<1> QED BY <1>1, <1>2, GrowKeeps DEF RunsInv

\* A step of one handler that writes no row and keeps the lock as it is.
LEMMA JobStep ==
  ASSUME P!RunsAssumption, RunsInv, Grows, UNCHANGED <<row, target, writer, old, tick>>,
         NEW h \in Handlers, NEW j \in P!JobType, job' = [job EXCEPT ![h] = j],
         writer = h => j.op \in {"call", "commit"},
         TriggerSound(h)', RefreshSound(h)'
  PROVE  RunsInv'
<1>1. job \in [Handlers -> P!JobType]
  BY DEF RunsInv, P!RunsTyped
<1>2. job' \in [Handlers -> P!JobType] /\ job'[h] = j
      /\ \A g \in Handlers : g # h => job'[g] = job[g]
  BY <1>1
<1>3. writer' # None => job'[writer'].op \in {"call", "commit"}
  BY <1>2 DEF RunsInv, P!RunsTyped
<1>4. P!RunsTyped'
  BY <1>2, <1>3, GrowTypes DEF RunsInv, P!RunsTyped
<1>5. JobsInv'
  <2> SUFFICES ASSUME NEW g \in Handlers PROVE TriggerSound(g)' /\ RefreshSound(g)'
    BY DEF JobsInv
  <2>1. CASE g = h
    BY <2>1
  <2>2. CASE g # h
    BY <1>2, <2>2, GrowKeeps
  <2> QED BY <2>1, <2>2
<1> QED BY <1>4, <1>5, GrowKeeps DEF RunsInv

----------------------------------------------------------------------------
(* The actions *)

LEMMA OutsiderKeeps ==
  ASSUME P!RunsAssumption, RunsInv, NEW t \in P!Places, P!Outsider(t)
  PROVE  RunsInv'
<1>1. Grows
  BY LaunchGrows DEF P!Outsider, RunsInv
<1> QED BY <1>1, UnmovedStep DEF P!Outsider, RunsInv, P!RunsTyped

LEMMA AppearKeeps ==
  ASSUME P!RunsAssumption, RunsInv, NEW t \in P!Places, P!Appear(t)
  PROVE  RunsInv'
<1>1. \A u \in P!Places : listed'[u] = IF u = t THEN listed[t] + 1 ELSE listed[u]
  BY DEF P!Appear, RunsInv, Domains
<1>2. made' = made /\ site' = site /\ DOMAIN listed' = P!Places
  BY DEF P!Appear, RunsInv, Domains
<1>3. ASSUME NEW u \in P!Places
      PROVE  listed'[u] \in 0..Len(made'[u]) /\ listed[u] <= listed'[u]
  BY <1>1, <1>2, PlacesTyped DEF P!Appear, RunsInv
<1>4. Grows
  BY <1>2, <1>3, PlacesTyped DEF Grows, RunsInv, Domains
<1> QED BY <1>4, UnmovedStep DEF P!Appear, RunsInv, P!RunsTyped

LEMMA ProceedKeeps ==
  ASSUME P!RunsAssumption, RunsInv, NEW t \in P!Places, NEW i \in 1..Len(made[t]), P!Proceed(t, i)
  PROVE  RunsInv'
<1>1. Grows
  BY ProceedGrows DEF RunsInv
<1> QED BY <1>1, UnmovedStep DEF P!Proceed, RunsInv, P!RunsTyped

LEMMA TickKeeps ==
  ASSUME P!RunsAssumption, RunsInv, P!Tick
  PROVE  RunsInv'
<1>1. Grows
  BY StillGrows DEF RunsInv, P!Tick
<1> QED BY <1>1, UnmovedStep DEF P!Tick, RunsInv, P!RunsTyped

LEMMA AgeKeeps ==
  ASSUME P!RunsAssumption, RunsInv, NEW r \in Runs, P!Age(r)
  PROVE  RunsInv'
<1>1. Grows
  BY StillGrows DEF RunsInv, P!Age
<1> QED BY <1>1, UnmovedStep DEF P!Age, RunsInv, P!RunsTyped

\* No trigger runs while the write lock is free.
LEMMA LockFree ==
  ASSUME P!RunsAssumption, RunsInv, writer = None, NEW g \in Handlers
  PROVE  job[g].op \notin {"call", "commit"}
BY DEF RunsInv, JobsInv, TriggerSound, P!RunsAssumption

LEMMA RetargetKeeps ==
  ASSUME P!RunsAssumption, RunsInv, NEW t \in P!Places, P!Retarget(t)
  PROVE  RunsInv'
<1>1. t # None /\ t \in Targets
  BY PlacesTyped DEF RunsInv
<1>2. UNCHANGED <<site, made, listed, row, job, writer, old, tick>> /\ target' = t /\ target # None
      /\ P!Places' = P!Places
  BY DEF P!Retarget, P!Places
<1>3. P!RunsTyped'
  BY <1>1, <1>2 DEF RunsInv, P!RunsTyped
<1>4. Domains' /\ P!NoOrphans'
  BY <1>1, <1>2 DEF RunsInv, Domains, P!NoOrphans
<1>5. RowsInv' /\ P!RunsDistinct'
  BY <1>2 DEF RunsInv, RowsInv, RowSound, Given, Ended, P!RunsDistinct, P!NoRow, P!Row
<1>6. JobsInv'
  <2> SUFFICES ASSUME NEW g \in Handlers PROVE TriggerSound(g)' /\ RefreshSound(g)'
    BY DEF JobsInv
  <2>1. TriggerSound(g)'
    BY <1>2, LockFree DEF TriggerSound, P!Retarget
  <2>2. RefreshSound(g)'
    BY <1>2 DEF RunsInv, JobsInv, RefreshSound, Ended, P!NoRow, P!Row
  <2> QED BY <2>1, <2>2
<1> QED BY <1>3, <1>4, <1>5, <1>6 DEF RunsInv

LEMMA DeleteKeeps ==
  ASSUME P!RunsAssumption, RunsInv, P!Delete
  PROVE  RunsInv'
<1>1. UNCHANGED <<site, made, listed, job, writer, tick>> /\ target' = None /\ writer = None
      /\ old' = {} /\ P!Places' = P!Places /\ \A r \in Runs : row'[r] = P!NoRow
  BY DEF P!Delete, P!Places
<1>2. P!NoRow \in P!RowType /\ P!NoRow.ext = 0 /\ P!NoRow' = P!NoRow
  BY DEF P!NoRow, P!Row, P!RowType
<1>3. row' \in [Runs -> P!RowType]
  BY <1>2 DEF P!Delete
<1>4. P!RunsTyped'
  BY <1>1, <1>3 DEF RunsInv, P!RunsTyped
<1>5. Domains' /\ P!NoOrphans' /\ P!RunsDistinct'
  BY <1>1, <1>2 DEF RunsInv, Domains, P!NoOrphans, P!RunsDistinct
<1>6. RowsInv'
  BY <1>1, <1>2 DEF RowsInv, RowSound
<1>7. JobsInv'
  <2> SUFFICES ASSUME NEW g \in Handlers PROVE TriggerSound(g)' /\ RefreshSound(g)'
    BY DEF JobsInv
  <2>1. job[g] \in P!JobType
    BY DEF RunsInv, P!RunsTyped
  <2>2. TriggerSound(g)'
    BY <1>1, LockFree DEF TriggerSound
  <2>3. RefreshSound(g)'
    BY <1>1, <1>2, <2>1, JobFields DEF RunsInv, JobsInv, RefreshSound
  <2> QED BY <2>2, <2>3
<1> QED BY <1>4, <1>5, <1>6, <1>7 DEF RunsInv

LEMMA RestartKeeps ==
  ASSUME P!RunsAssumption, RunsInv, P!Restart
  PROVE  RunsInv'
<1>1. UNCHANGED <<site, target, made, listed, row, old, tick>> /\ writer' = None /\ P!Places' = P!Places
      /\ job' \in [Handlers -> {P!Idle}]
  BY DEF P!Restart, P!Places
<1>2. P!Idle \in P!JobType /\ \A g \in Handlers : job'[g].op = "idle"
  BY <1>1 DEF P!Idle, P!JobType
<1>3. P!RunsTyped'
  BY <1>1, <1>2 DEF RunsInv, P!RunsTyped, P!RunsAssumption
<1>4. JobsInv'
  BY <1>2 DEF JobsInv, TriggerSound, RefreshSound
<1> QED BY <1>1, <1>3, <1>4 DEF RunsInv, Domains, RowsInv, RowSound, Given, Ended, P!RunsDistinct,
      P!NoOrphans, P!NoRow, P!Row

\* What the invariant says of a handler that is between two calls of a trigger.
LEMMA Triggering ==
  ASSUME P!RunsAssumption, RunsInv, NEW h \in Handlers, job[h].op = "call"
  PROVE  /\ job[h] \in P!JobType /\ job[h].run \in Runs /\ job[h].prev \in Nat
         /\ job[h].at \in Targets /\ job[h].looks \in 0..MaxLooks
         /\ job[h] = [op |-> "call", run |-> job[h].run, at |-> job[h].at, calls |-> job[h].calls,
                      prev |-> job[h].prev, looks |-> job[h].looks]
         /\ job[h].at \in P!Places /\ CallsAt(job[h].at, job[h].calls)
         /\ writer = h /\ row[job[h].run] = P!NoRow
         /\ job[h].prev <= listed[job[h].at]
         /\ Head(job[h].calls) \in {"dispatch", "look"} => RowsUpTo(job[h].at, job[h].prev)
<1>1. job[h] \in P!JobType /\ TriggerSound(h)
  BY DEF RunsInv, P!RunsTyped, JobsInv
<1> QED BY <1>1, JobFields DEF TriggerSound

\* Rows stand for runs that the provider has, at GitHub for listed ones.
LEMMA RowsGiven ==
  ASSUME P!RunsAssumption, RunsInv, NEW t \in P!Places
  PROVE  /\ RowsUpTo(t, Len(made[t]))
         /\ site.provider[t] = "github_actions" => RowsUpTo(t, listed[t])
<1>1. t # None
  BY PlacesTyped DEF RunsInv
<1>2. ASSUME NEW r \in Runs, row[r].at = t
      PROVE  Given(t, row[r].ext)
  <2>1. row[r] # P!NoRow
    BY <1>1, <1>2 DEF P!NoRow, P!Row
  <2> QED BY <1>2, <2>1 DEF RunsInv, RowsInv, RowSound
<1> QED BY <1>2 DEF RowsUpTo, Given

\* A trigger that goes on to its next call.
LEMMA CallStep ==
  ASSUME P!RunsAssumption, RunsInv, Grows, UNCHANGED <<row, target, writer, old, tick>>,
         NEW h \in Handlers, job[h].op = "call",
         NEW j, job' = [job EXCEPT ![h] = j],
         j.op = "call", j.run = job[h].run, j.at = job[h].at,
         j \in [op : {"call"}, run : Runs, at : Targets, calls : P!CallsLeft, prev : Nat,
                looks : 0..MaxLooks],
         CallsAt(j.at, j.calls), j.prev <= listed[j.at],
         Head(j.calls) \in {"dispatch", "look"} => RowsUpTo(j.at, j.prev)
  PROVE  RunsInv'
<1>1. j \in P!JobType
  BY DEF P!JobType
<1>2. job'[h] = j
  BY DEF RunsInv, P!RunsTyped
<1>3. j.at \in P!Places /\ writer = h /\ row[j.run] = P!NoRow /\ j.prev \in Nat
  BY Triggering
<1>4. j.prev <= listed'[j.at]
  <2>1. Len(made'[j.at]) \in Nat /\ listed'[j.at] \in 0..Len(made'[j.at])
    BY <1>3 DEF Grows
  <2>2. listed'[j.at] \in Nat
    BY <2>1
  <2>3. listed[j.at] \in Nat /\ listed[j.at] <= listed'[j.at]
    BY <1>3, PlacesTyped DEF Grows, RunsInv
  <2> QED BY <1>3, <2>2, <2>3
<1>5. P!Places' = P!Places /\ CallsAt(j.at, j.calls)'
  BY <1>2 DEF Grows, P!Places, CallsAt
<1>6. TriggerSound(h)'
  BY <1>2, <1>3, <1>4, <1>5 DEF TriggerSound, RowsUpTo, CallsAt, P!NoRow, P!Row
<1>7. RefreshSound(h)'
  BY <1>2 DEF RefreshSound
<1> QED BY <1>1, <1>6, <1>7, JobStep

\* A trigger that has its answer.
LEMMA FinishStep ==
  ASSUME P!RunsAssumption, RunsInv, Grows, UNCHANGED <<row, target, writer, old, tick>>,
         NEW h \in Handlers, job[h].op = "call",
         NEW x \in P!RowType, job' = [job EXCEPT ![h] = P!Finished(h, x)],
         RowSound(x)', x.ext # 0 => RowsUpTo(x.at, x.ext - 1)
  PROVE  RunsInv'
<1> DEFINE j == P!Finished(h, x)
<1>1. j \in P!JobType /\ j.op = "commit" /\ j.run = job[h].run /\ j.new = x
  BY Triggering DEF P!Finished, P!JobType
<1>2. job'[h] = j
  BY DEF RunsInv, P!RunsTyped
<1>3. writer = h /\ row[j.run] = P!NoRow
  BY <1>1, Triggering
<1> HIDE DEF j
<1>4. TriggerSound(h)'
  BY <1>1, <1>2, <1>3 DEF TriggerSound, RowSound, Given, Ended, RowsUpTo, P!NoRow, P!Row
<1>5. RefreshSound(h)'
  BY <1>1, <1>2 DEF RefreshSound
<1> QED BY <1>1, <1>4, <1>5, JobStep DEF j

LEMMA TriggerKeeps ==
  ASSUME P!RunsAssumption, RunsInv, NEW h \in Handlers, NEW r \in Runs, P!Trigger(h, r)
  PROVE  RunsInv'
<1> DEFINE j == [op |-> "call", run |-> r, at |-> target,
                 calls |-> P!TriggerCalls[site.provider[target]], prev |-> 0, looks |-> 0]
<1>1. UNCHANGED <<site, target, made, listed, row, old, tick>> /\ writer = None /\ writer' = h
      /\ job' = [job EXCEPT ![h] = j] /\ target \in P!Places /\ target # None /\ row[r] = P!NoRow
  BY DEF P!Trigger, P!Used, RunsInv, Domains
<1>2. P!TriggerCalls[site.provider[target]] \in P!CallsLeft
      /\ CallsAt(target, P!TriggerCalls[site.provider[target]])
      /\ Head(P!TriggerCalls[site.provider[target]]) \notin {"dispatch", "look"}
  BY <1>1, CallsSound, PlacesTyped DEF CallsAt, RunsInv
<1>3. j \in P!JobType /\ j.op = "call" /\ j.run = r /\ j.at = target /\ j.prev = 0
      /\ j.calls = P!TriggerCalls[site.provider[target]]
  BY <1>1, <1>2, PlacesTyped DEF P!JobType, RunsInv, P!RunsAssumption
<1> HIDE DEF j
<1>4. job' \in [Handlers -> P!JobType] /\ job'[h] = j /\ \A g \in Handlers : g # h => job'[g] = job[g]
  BY <1>1, <1>3 DEF RunsInv, P!RunsTyped
<1>5. P!Places' = P!Places /\ h # None
  BY <1>1 DEF P!Places, P!RunsAssumption
<1>6. P!RunsTyped'
  BY <1>1, <1>3, <1>4, <1>5 DEF RunsInv, P!RunsTyped
<1>7. Domains' /\ P!NoOrphans' /\ P!RunsDistinct' /\ RowsInv'
  BY <1>1, <1>5 DEF RunsInv, Domains, P!NoOrphans, P!RunsDistinct, RowsInv, RowSound, Given, Ended, P!NoRow,
    P!Row
<1>8. JobsInv'
  <2> SUFFICES ASSUME NEW g \in Handlers PROVE TriggerSound(g)' /\ RefreshSound(g)'
    BY DEF JobsInv
  <2>1. CASE g = h
    <3>1. 0 <= listed[target]
      BY <1>1, PlacesTyped DEF RunsInv
    <3>2. TriggerSound(g)'
      BY <1>1, <1>2, <1>3, <1>4, <1>5, <2>1, <3>1 DEF TriggerSound, CallsAt, P!NoRow, P!Row
    <3>3. RefreshSound(g)'
      BY <1>3, <1>4, <2>1 DEF RefreshSound
    <3> QED BY <3>2, <3>3
  <2>2. CASE g # h
    <3>1. TriggerSound(g)'
      BY <1>1, <1>4, <2>2, LockFree DEF TriggerSound
    <3>2. RefreshSound(g)'
      BY <1>1, <1>4, <1>5, <2>2 DEF RunsInv, JobsInv, RefreshSound, Ended, P!NoRow, P!Row
    <3> QED BY <3>1, <3>2
  <2> QED BY <2>1, <2>2
<1> QED BY <1>6, <1>7, <1>8 DEF RunsInv

LEMMA TriggerReadsKeeps ==
  ASSUME P!RunsAssumption, RunsInv, NEW h \in Handlers, P!TriggerReads(h)
  PROVE  RunsInv'
<1> DEFINE t == job[h].at
           j == [op |-> "call", run |-> job[h].run, at |-> job[h].at, calls |-> Tail(job[h].calls),
                 prev |-> listed[job[h].at], looks |-> job[h].looks]
<1>1. /\ job[h].op = "call" /\ Head(job[h].calls) \in {"list", "release"}
      /\ job' = [job EXCEPT ![h].calls = Tail(@), ![h].prev = listed[job[h].at]]
      /\ UNCHANGED <<site, target, made, listed, row, writer, old, tick>>
  BY DEF P!TriggerReads, P!Call
<1>2. job' = [job EXCEPT ![h] = j]
  <2>1. job[h] = [op |-> "call", run |-> job[h].run, at |-> job[h].at, calls |-> job[h].calls,
                  prev |-> job[h].prev, looks |-> job[h].looks]
    BY <1>1, Triggering
  <2>2. job'[h] = j
    BY <1>1, <2>1 DEF RunsInv, P!RunsTyped
  <2> HIDE DEF j
  <2> QED BY <1>1, <2>2 DEF RunsInv, P!RunsTyped
<1>3. Grows
  BY <1>1, StillGrows DEF RunsInv
<1>4. t \in P!Places /\ job[h].calls \in P!CallsLeft
      /\ (site.provider[t] = "github_actions" <=> Head(job[h].calls) \in {"list", "dispatch", "look"})
  BY <1>1, Triggering DEF CallsAt
<1>5. Tail(job[h].calls) \in P!CallsLeft
      /\ (site.provider[t] = "github_actions" <=> Head(Tail(job[h].calls)) \in {"list", "dispatch", "look"})
      /\ (Head(Tail(job[h].calls)) \in {"dispatch", "look"} => site.provider[t] = "github_actions")
  BY <1>1, <1>4, CallsNext
<1>6. listed[t] \in Nat
  BY <1>4, PlacesTyped DEF RunsInv
<1>7. j \in [op : {"call"}, run : Runs, at : Targets, calls : P!CallsLeft, prev : Nat,
             looks : 0..MaxLooks]
  <2>1. job[h].run \in Runs /\ job[h].at \in Targets /\ job[h].looks \in 0..MaxLooks
    BY <1>1, Triggering
  <2> QED BY <1>5, <1>6, <2>1
<1> DEFINE c == Tail(job[h].calls)
<1>8. /\ j.op = "call" /\ j.run = job[h].run /\ j.at = t /\ j.calls = c /\ j.prev = listed[t]
  OBVIOUS
<1> HIDE DEF j, c
<1>9. CallsAt(j.at, j.calls) /\ j.prev <= listed[j.at]
  <2>1. /\ c \in P!CallsLeft
        /\ site.provider[t] = "github_actions" <=> Head(c) \in {"list", "dispatch", "look"}
    BY <1>5 DEF c
  <2> QED BY <1>6, <1>8, <2>1 DEF CallsAt
<1>10. Head(j.calls) \in {"dispatch", "look"} => RowsUpTo(j.at, j.prev)
  BY <1>4, <1>5, <1>8, RowsGiven DEF c
<1> QED BY <1>1, <1>2, <1>3, <1>7, <1>8, <1>9, <1>10, CallStep

\* The id of a run just launched, with the status that the launch returned.
LEMMA LaunchedRow ==
  ASSUME P!RunsAssumption, RunsInv, NEW t \in P!Places, P!Launch(t), Len(made[t]) < site.made[t],
         UNCHANGED <<site, listed>>, site.provider[t] # "github_actions",
         NEW x, x.at = t, x.by = t, x.ext = Len(made[t]) + 1,
         x.status = P!TriggerStatus(site.provider[t], P!FirstNative[site.provider[t]])
  PROVE  RowSound(x)' /\ RowsUpTo(x.at, x.ext - 1)
<1> DEFINE p == site.provider[t]
           n == P!FirstNative[site.provider[t]]
           e == Len(made[t]) + 1
           st == P!TriggerStatus(p, n)
<1>1. p \in P!Providers /\ n \in P!Natives(p) /\ t \in Targets /\ Len(made[t]) \in Nat
  BY PlacesTyped DEF RunsInv
<1>2. /\ st \in P!RUN_STATUSES
      /\ st \in P!Terminal => n \in P!FinalNatives[p] /\ st = P!MapStatus(p, n)
  BY <1>1, TriggerStatusSound
<1>3. Len(made'[t]) = e /\ made'[t][e] = n /\ made'[t] \in Seq(Seen[p])
  BY LaunchGrows DEF RunsInv, Grows
<1>4. e \in DOMAIN made'[t] /\ e \in Nat /\ e # 0 /\ e - 1 = Len(made[t])
  BY <1>1, <1>3
<1>5. site' = site
  OBVIOUS
<1>6. x.status = st /\ x.ext = e
  OBVIOUS
<1> HIDE DEF st, e, n
<1>7. x.ext <= Len(made'[t])
  BY <1>3, <1>4, <1>6
<1>8. Given(x.at, x.ext)'
  BY <1>5, <1>7 DEF Given
<1>9. x.status \in P!Terminal => Ended(x.by, x.ext, x.status)'
  BY <1>2, <1>3, <1>4, <1>5, <1>6 DEF Ended, p
<1>10. P!Places' = P!Places
  BY <1>5 DEF P!Places
<1>11. RowSound(x)'
  BY <1>2, <1>6, <1>8, <1>9, <1>10 DEF RowSound
<1>12. RowsUpTo(x.at, x.ext - 1)
  BY <1>4, <1>6, RowsGiven
<1> QED BY <1>11, <1>12

LEMMA TriggerLaunchesKeeps ==
  ASSUME P!RunsAssumption, RunsInv, NEW h \in Handlers, P!TriggerLaunches(h)
  PROVE  RunsInv'
<1> DEFINE t == job[h].at
           j == [op |-> "call", run |-> job[h].run, at |-> job[h].at, calls |-> Tail(job[h].calls),
                 prev |-> job[h].prev, looks |-> job[h].looks]
<1>1. /\ job[h].op = "call" /\ Head(job[h].calls) \in {"launch", "dispatch"}
      /\ Len(made[t]) < site.made[t] /\ P!Launch(t)
      /\ UNCHANGED <<site, target, listed, row, writer, old, tick>>
  BY DEF P!TriggerLaunches, P!Call
<1>2. t \in P!Places /\ job[h].calls \in P!CallsLeft
      /\ (site.provider[t] = "github_actions" <=> Head(job[h].calls) \in {"list", "dispatch", "look"})
  BY <1>1, Triggering DEF CallsAt
<1>3. Grows
  BY <1>1, <1>2, LaunchGrows DEF RunsInv
<1>4. CASE Head(job[h].calls) = "dispatch"
  <2>1. job[h] = [op |-> "call", run |-> job[h].run, at |-> job[h].at, calls |-> job[h].calls,
                  prev |-> job[h].prev, looks |-> job[h].looks]
    BY <1>1, Triggering
  <2>2. job' = [job EXCEPT ![h].calls = Tail(@)]
    BY <1>4 DEF P!TriggerLaunches, P!Call
  <2>3. job' = [job EXCEPT ![h] = j]
    <3>1. job'[h] = [job[h] EXCEPT !.calls = Tail(job[h].calls)]
      BY <2>2 DEF RunsInv, P!RunsTyped
    <3>2. DOMAIN job'[h] = {"op", "run", "at", "calls", "prev", "looks"}
          /\ job'[h].op = "call" /\ job'[h].run = job[h].run /\ job'[h].at = job[h].at
          /\ job'[h].calls = Tail(job[h].calls) /\ job'[h].prev = job[h].prev
          /\ job'[h].looks = job[h].looks
      BY <2>1, <3>1
    <3>3. job'[h] = j
      BY <2>1, <3>1, <3>2
    <3> HIDE DEF j
    <3> QED BY <2>2, <3>3 DEF RunsInv, P!RunsTyped
  <2>4. Tail(job[h].calls) \in P!CallsLeft /\ Head(Tail(job[h].calls)) \in {"dispatch", "look"}
        /\ site.provider[t] = "github_actions"
    BY <1>2, <1>4, CallsNext
  <2>5. job[h].run \in Runs /\ job[h].at \in Targets /\ job[h].looks \in 0..MaxLooks
        /\ job[h].prev \in Nat /\ job[h].prev <= listed[t] /\ RowsUpTo(t, job[h].prev)
    BY <1>1, <1>4, Triggering
  <2>6. j \in [op : {"call"}, run : Runs, at : Targets, calls : P!CallsLeft, prev : Nat,
               looks : 0..MaxLooks]
    BY <2>4, <2>5
  <2>7. /\ j.op = "call" /\ j.run = job[h].run /\ j.at = t /\ j.calls = Tail(job[h].calls)
        /\ j.prev = job[h].prev
    OBVIOUS
  <2> HIDE DEF j
  <2>8. CallsAt(j.at, j.calls)
    BY <2>4, <2>7 DEF CallsAt
  <2> QED BY <1>1, <1>3, <2>3, <2>5, <2>6, <2>7, <2>8, CallStep
<1>5. CASE Head(job[h].calls) = "launch"
  <2> DEFINE st == P!TriggerStatus(site.provider[t], P!FirstNative[site.provider[t]])
             e == Len(made[t]) + 1
  <2>1. PICK x : x = [status |-> st, ext |-> e, at |-> t, by |-> t, done |-> FALSE]
    OBVIOUS
  <2>2. job' = [job EXCEPT ![h] = P!Finished(h, x)]
    BY <1>5, <2>1 DEF P!TriggerLaunches, P!Call, P!Row
  <2>3. site.provider[t] # "github_actions"
    BY <1>2, <1>5
  <2>4. st \in P!RUN_STATUSES /\ e \in Nat /\ t \in Targets
    BY <1>2, PlacesTyped, TriggerStatusSound DEF RunsInv
  <2>5. x \in P!RowType
    <3> HIDE DEF st, e, t
    <3> QED BY <2>1, <2>4 DEF P!RowType
  <2>6. x.status = st /\ x.ext = e /\ x.at = t /\ x.by = t
    BY <2>1
  <2>7. RowSound(x)' /\ RowsUpTo(x.at, x.ext - 1)
    BY <1>1, <1>2, <2>3, <2>6, LaunchedRow
  <2> QED BY <1>1, <1>3, <2>2, <2>5, <2>7, FinishStep
<1> QED BY <1>1, <1>4, <1>5

\* A row without an id.
LEMMA RowWithoutId ==
  ASSUME P!RunsAssumption, RunsInv, Grows, NEW t \in P!Places,
         NEW x, x.ext = 0, x.at = t, x.by = t, x.status \in P!RUN_STATUSES
  PROVE  RowSound(x)'
<1>1. P!Places' = P!Places
  BY DEF Grows, P!Places
<1>2. Len(made'[t]) \in Nat /\ listed'[t] \in 0..Len(made'[t])
  BY DEF Grows
<1>3. Given(x.at, x.ext)'
  BY <1>2 DEF Given
<1> QED BY <1>1, <1>3 DEF RowSound

LEMMA TriggerLooksKeeps ==
  ASSUME P!RunsAssumption, RunsInv, NEW h \in Handlers, P!TriggerLooks(h)
  PROVE  RunsInv'
<1> DEFINE t == job[h].at
           p == site.provider[t]
           top == listed[t]
           j == [op |-> "call", run |-> job[h].run, at |-> job[h].at, calls |-> job[h].calls,
                 prev |-> job[h].prev, looks |-> job[h].looks + 1]
<1>1. /\ job[h].op = "call" /\ Head(job[h].calls) = "look"
      /\ UNCHANGED <<site, target, made, listed, row, writer, old, tick>>
  BY DEF P!TriggerLooks, P!Call
<1>2. /\ t \in P!Places /\ t \in Targets /\ CallsAt(t, job[h].calls)
      /\ RowsUpTo(t, job[h].prev) /\ job[h].prev \in Nat /\ job[h].prev <= top
      /\ job[h].run \in Runs /\ job[h].looks \in 0..MaxLooks
      /\ job[h] = [op |-> "call", run |-> job[h].run, at |-> job[h].at, calls |-> job[h].calls,
                   prev |-> job[h].prev, looks |-> job[h].looks]
  BY <1>1, Triggering
<1>3. Grows
  BY <1>1, StillGrows DEF RunsInv
<1>4. top \in Nat /\ top <= Len(made[t]) /\ Len(made[t]) \in Nat /\ p \in P!Providers
      /\ made[t] \in Seq(Seen[p]) /\ Seen[p] \subseteq P!Natives(p)
  BY <1>2, PlacesTyped DEF RunsInv
<1>5. CASE top # job[h].prev /\ job' = [job EXCEPT ![h] = P!Finished(h, P!Accepted(h, top))]
  <2>1. top # 0 /\ top \in DOMAIN made[t] /\ job[h].prev <= top - 1
    BY <1>2, <1>4, <1>5
  <2>2. made[t][top] \in P!Natives(p)
    BY <1>4, <2>1
  <2> DEFINE n == made[t][top]
             st == P!TriggerStatus(p, n)
  <2>3. /\ st \in P!RUN_STATUSES
        /\ st \in P!Terminal => n \in P!FinalNatives[p] /\ st = P!MapStatus(p, n)
    BY <1>4, <2>2, TriggerStatusSound
  <2>4. PICK x : x = [status |-> st, ext |-> top, at |-> t, by |-> t, done |-> FALSE]
    OBVIOUS
  <2>5. job' = [job EXCEPT ![h] = P!Finished(h, x)]
    BY <1>5, <2>1, <2>4 DEF P!Accepted, P!Row
  <2>6. x.status = st /\ x.ext = top /\ x.at = t /\ x.by = t
    BY <2>4
  <2>7. x \in P!RowType
    <3> HIDE DEF st, t, top
    <3> QED BY <1>2, <1>4, <2>3, <2>4 DEF P!RowType
  <2>8. Given(x.at, x.ext)'
    BY <1>1, <1>4, <2>6 DEF Given
  <2>9. x.status \in P!Terminal => Ended(x.by, x.ext, x.status)'
    <3> HIDE DEF st
    <3> QED BY <1>1, <2>1, <2>3, <2>6 DEF Ended
  <2>10. RowSound(x)'
    <3>1. P!Places' = P!Places
      BY <1>1 DEF P!Places
    <3> HIDE DEF st
    <3> QED BY <1>2, <2>3, <2>6, <2>8, <2>9, <3>1 DEF RowSound
  <2>11. RowsUpTo(x.at, x.ext - 1)
    <3>1. \A r \in Runs : row[r].ext \in Nat
      BY DEF RunsInv, P!RunsTyped, P!RowType
    <3> HIDE DEF t, top
    <3> QED BY <1>2, <1>4, <2>1, <2>6, <3>1 DEF RowsUpTo
  <2> QED BY <1>1, <1>3, <2>5, <2>7, <2>10, <2>11, FinishStep
<1>6. CASE job[h].looks + 1 < MaxLooks /\ job' = [job EXCEPT ![h].looks = @ + 1]
  <2>1. job' = [job EXCEPT ![h] = j]
    <3>1. job'[h] = [job[h] EXCEPT !.looks = job[h].looks + 1]
      BY <1>6 DEF RunsInv, P!RunsTyped
    <3>2. DOMAIN job'[h] = {"op", "run", "at", "calls", "prev", "looks"}
          /\ job'[h].op = "call" /\ job'[h].run = job[h].run /\ job'[h].at = job[h].at
          /\ job'[h].calls = job[h].calls /\ job'[h].prev = job[h].prev
          /\ job'[h].looks = job[h].looks + 1
      BY <1>2, <3>1
    <3>3. job'[h] = j
      BY <1>2, <3>1, <3>2
    <3> HIDE DEF j
    <3> QED BY <1>6, <3>3 DEF RunsInv, P!RunsTyped
  <2>2. job[h].calls \in P!CallsLeft
    BY <1>2 DEF CallsAt
  <2>3. job[h].looks + 1 \in 0..MaxLooks
    BY <1>2, <1>6 DEF P!RunsAssumption
  <2>4. j \in [op : {"call"}, run : Runs, at : Targets, calls : P!CallsLeft, prev : Nat,
               looks : 0..MaxLooks]
    BY <1>2, <2>2, <2>3
  <2>5. /\ j.op = "call" /\ j.run = job[h].run /\ j.at = t /\ j.calls = job[h].calls
        /\ j.prev = job[h].prev
    OBVIOUS
  <2> HIDE DEF j
  <2> QED BY <1>1, <1>2, <1>3, <2>1, <2>4, <2>5, CallStep
<1>7. CASE job[h].looks + 1 = MaxLooks /\ job' = [job EXCEPT ![h] = P!Finished(h, P!Accepted(h, 0))]
  <2>1. PICK x : x = [status |-> "queued", ext |-> 0, at |-> t, by |-> t, done |-> FALSE]
    OBVIOUS
  <2>2. job' = [job EXCEPT ![h] = P!Finished(h, x)]
    BY <1>7, <2>1 DEF P!Accepted, P!Row
  <2>3. x \in P!RowType /\ x.ext = 0 /\ x.at = t /\ x.by = t /\ x.status \in P!RUN_STATUSES
    BY <1>2, <2>1 DEF P!RowType, P!RUN_STATUSES
  <2>4. RowSound(x)'
    BY <1>2, <1>3, <2>3, RowWithoutId
  <2> QED BY <1>1, <1>3, <2>2, <2>3, <2>4, FinishStep
<1> QED BY <1>5, <1>6, <1>7 DEF P!TriggerLooks

LEMMA TriggerRefusedKeeps ==
  ASSUME P!RunsAssumption, RunsInv, NEW h \in Handlers, P!TriggerRefused(h)
  PROVE  RunsInv'
<1> DEFINE t == job[h].at
<1>1. /\ job[h].op = "call" /\ job' = [job EXCEPT ![h] = P!Finished(h, P!Failed(h))]
      /\ UNCHANGED <<site, target, listed, row, writer, old, tick>>
      /\ made' = made \/ (Len(made[t]) < site.made[t] /\ P!Launch(t))
  BY DEF P!TriggerRefused
<1>2. t \in P!Places /\ t \in Targets
  BY <1>1, Triggering
<1>3. Grows
  BY <1>1, <1>2, StillGrows, LaunchGrows DEF RunsInv
<1>4. PICK x : x = [status |-> "failed", ext |-> 0, at |-> t, by |-> t, done |-> TRUE]
  OBVIOUS
<1>5. job' = [job EXCEPT ![h] = P!Finished(h, x)]
  BY <1>1, <1>4 DEF P!Failed, P!Row
<1>6. x \in P!RowType /\ x.ext = 0 /\ x.at = t /\ x.by = t /\ x.status \in P!RUN_STATUSES
  BY <1>2, <1>4 DEF P!RowType, P!RUN_STATUSES
<1>7. RowSound(x)'
  BY <1>2, <1>3, <1>6, RowWithoutId
<1> QED BY <1>1, <1>3, <1>5, <1>6, <1>7, FinishStep

LEMMA TriggerRaisesKeeps ==
  ASSUME P!RunsAssumption, RunsInv, NEW h \in Handlers, P!TriggerRaises(h)
  PROVE  RunsInv'
<1>1. /\ job[h].op = "call" /\ job' = [job EXCEPT ![h] = P!Finished(h, P!NoRow)]
      /\ UNCHANGED <<site, target, made, listed, row, writer, old, tick>>
  BY DEF P!TriggerRaises
<1>2. Grows
  BY <1>1, StillGrows DEF RunsInv
<1>3. PICK x : x = [status |-> "none", ext |-> 0, at |-> None, by |-> None, done |-> FALSE]
  OBVIOUS
<1>4. job' = [job EXCEPT ![h] = P!Finished(h, x)]
  BY <1>1, <1>3 DEF P!NoRow, P!Row
<1>5. x \in P!RowType /\ x.ext = 0
  BY <1>3 DEF P!RowType
<1>6. RowSound(x)'
  BY <1>3 DEF RowSound, P!NoRow, P!Row
<1> QED BY <1>1, <1>2, <1>4, <1>5, <1>6, FinishStep

LEMMA AgentRaisesKeeps ==
  ASSUME P!RunsAssumption, RunsInv, NEW h \in Handlers, P!AgentRaises(h)
  PROVE  RunsInv'
<1> DEFINE t == job[h].at
<1>1. /\ job[h].op = "call" /\ job' = [job EXCEPT ![h] = P!Finished(h, P!NeverTriggered(h))]
      /\ UNCHANGED <<site, target, made, listed, row, writer, old, tick>>
  BY DEF P!AgentRaises
<1>2. t \in P!Places /\ t \in Targets
  BY <1>1, Triggering
<1>3. Grows
  BY <1>1, StillGrows DEF RunsInv
<1>4. PICK x : x = [status |-> "queued", ext |-> 0, at |-> t, by |-> t, done |-> FALSE]
  OBVIOUS
<1>5. job' = [job EXCEPT ![h] = P!Finished(h, x)]
  BY <1>1, <1>4 DEF P!NeverTriggered, P!Row
<1>6. x \in P!RowType /\ x.ext = 0 /\ x.at = t /\ x.by = t /\ x.status \in P!RUN_STATUSES
  BY <1>2, <1>4 DEF P!RowType, P!RUN_STATUSES
<1>7. RowSound(x)'
  BY <1>2, <1>3, <1>6, RowWithoutId
<1> QED BY <1>1, <1>3, <1>5, <1>6, <1>7, FinishStep

LEMMA TriggerCommitsKeeps ==
  ASSUME P!RunsAssumption, RunsInv, NEW h \in Handlers, P!TriggerCommits(h)
  PROVE  RunsInv'
<1>1. PICK r \in Runs, x \in P!RowType : r = job[h].run /\ x = job[h].new
  <2>1. job[h] \in P!JobType /\ job[h].op = "commit"
    BY DEF RunsInv, P!RunsTyped, P!TriggerCommits
  <2> QED BY <2>1, JobFields
<1>2. /\ job[h].op = "commit" /\ row' = [row EXCEPT ![r] = x] /\ job' = [job EXCEPT ![h] = P!Idle]
      /\ writer' = None /\ UNCHANGED <<site, target, made, listed, old, tick>> /\ P!Places' = P!Places
  BY <1>1 DEF P!TriggerCommits, P!Places
<1>3. /\ writer = h /\ row[r] = P!NoRow /\ RowSound(x) /\ target # None
      /\ x.ext # 0 => RowsUpTo(x.at, x.ext - 1)
  BY <1>1, <1>2 DEF RunsInv, JobsInv, TriggerSound, Domains, P!RunsAssumption
<1>4. /\ row' \in [Runs -> P!RowType] /\ row'[r] = x
      /\ \A s \in Runs : s # r => row'[s] = row[s]
  BY <1>2 DEF RunsInv, P!RunsTyped
<1>5. /\ P!Idle \in P!JobType /\ job' \in [Handlers -> P!JobType] /\ job'[h] = P!Idle
      /\ \A g \in Handlers : g # h => job'[g] = job[g]
  BY <1>2 DEF RunsInv, P!RunsTyped, P!JobType
<1>6. P!RunsTyped'
  BY <1>2, <1>4, <1>5 DEF RunsInv, P!RunsTyped
<1>7. Domains' /\ P!NoOrphans'
  BY <1>2, <1>3 DEF RunsInv, Domains, P!NoOrphans
<1>8. RowsInv'
  <2> SUFFICES ASSUME NEW s \in Runs PROVE RowSound(row[s])'
    BY DEF RowsInv
  <2>1. CASE s = r
    BY <1>2, <1>3, <1>4, <2>1 DEF RowSound, Given, Ended, P!NoRow, P!Row
  <2>2. CASE s # r
    <3>1. RowSound(row[s])
      BY DEF RunsInv, RowsInv
    <3> QED BY <1>2, <1>4, <2>2, <3>1 DEF RowSound, Given, Ended, P!NoRow, P!Row
  <2> QED BY <2>1, <2>2
<1>9. P!RunsDistinct'
  <2> SUFFICES ASSUME NEW s \in Runs, NEW u \in Runs, s # u, row'[s].ext # 0,
                      row'[s].at = row'[u].at, row'[s].ext = row'[u].ext
               PROVE  FALSE
    BY DEF P!RunsDistinct
  <2>1. \A q \in Runs : row[q].ext \in Nat
    BY DEF RunsInv, P!RunsTyped, P!RowType
  <2>2. x.ext \in Nat
    BY DEF P!RowType
  <2>3. CASE s = r
    <3>1. row'[s] = x /\ row'[u] = row[u]
      BY <1>4, <2>3
    <3>2. row[u].ext <= x.ext - 1
      BY <1>3, <3>1 DEF RowsUpTo
    <3> QED BY <2>1, <2>2, <3>1, <3>2
  <2>4. CASE u = r
    <3>1. row'[u] = x /\ row'[s] = row[s]
      BY <1>4, <2>4
    <3>2. row[s].ext <= x.ext - 1
      BY <1>3, <3>1 DEF RowsUpTo
    <3> QED BY <2>1, <2>2, <3>1, <3>2
  <2>5. CASE s # r /\ u # r
    BY <1>4, <2>5 DEF RunsInv, P!RunsDistinct
  <2> QED BY <2>3, <2>4, <2>5
<1>10. JobsInv'
  <2> SUFFICES ASSUME NEW g \in Handlers PROVE TriggerSound(g)' /\ RefreshSound(g)'
    BY DEF JobsInv
  <2>1. CASE g = h
    BY <1>5, <2>1 DEF TriggerSound, RefreshSound, P!Idle
  <2>2. CASE g # h
    <3>1. job'[g] = job[g] /\ job[g] \in P!JobType /\ TriggerSound(g) /\ RefreshSound(g)
      BY <1>5, <2>2 DEF RunsInv, P!RunsTyped, JobsInv
    <3>2. job[g].op \notin {"call", "commit"}
      BY <1>3, <2>2, <3>1 DEF TriggerSound
    <3>3. TriggerSound(g)'
      BY <3>1, <3>2 DEF TriggerSound
    <3>4. job[g].op \in {"poll", "apply"} => job[g].run \in Runs /\ job[g].run # r
      BY <1>3, <3>1, JobFields DEF RefreshSound
    <3>5. job[g].op \in {"poll", "apply"} => row'[job[g].run] = row[job[g].run]
      BY <1>4, <3>4
    <3>6. RefreshSound(g)'
      BY <1>2, <3>1, <3>5 DEF RefreshSound, Ended, P!NoRow, P!Row
    <3> QED BY <3>3, <3>6
  <2> QED BY <2>1, <2>2
<1> QED BY <1>6, <1>7, <1>8, <1>9, <1>10 DEF RunsInv

\* A refresh that ends without writing.
LEMMA IdleStep ==
  ASSUME P!RunsAssumption, RunsInv, NEW h \in Handlers, job[h].op \in {"poll", "apply"},
         job' = [job EXCEPT ![h] = P!Idle],
         UNCHANGED <<site, target, made, listed, row, writer, old, tick>>
  PROVE  RunsInv'
<1>1. P!Idle \in P!JobType /\ P!Idle.op = "idle"
  BY DEF P!JobType, P!Idle
<1>2. job'[h] = P!Idle
  BY DEF RunsInv, P!RunsTyped
<1>3. TriggerSound(h)' /\ RefreshSound(h)'
  BY <1>1, <1>2 DEF TriggerSound, RefreshSound
<1>4. Grows
  BY StillGrows DEF RunsInv
<1>5. writer # h
  BY DEF RunsInv, P!RunsTyped, P!RunsAssumption
<1> QED BY <1>1, <1>3, <1>4, <1>5, JobStep

LEMMA RefreshFailsKeeps ==
  ASSUME P!RunsAssumption, RunsInv, NEW h \in Handlers, P!RefreshFails(h) \/ P!RefreshLocked(h)
  PROVE  RunsInv'
BY IdleStep DEF P!RefreshFails, P!RefreshLocked

LEMMA RefreshKeeps ==
  ASSUME P!RunsAssumption, RunsInv, NEW h \in Handlers, NEW r \in Runs, P!Refresh(h, r)
  PROVE  RunsInv'
<1> DEFINE j == [op |-> "poll", run |-> r, at |-> target, was |-> row[r].status, ext |-> row[r].ext]
<1>1. /\ job[h] = P!Idle /\ row[r] # P!NoRow /\ target # None /\ job' = [job EXCEPT ![h] = j]
      /\ UNCHANGED <<site, target, made, listed, row, writer, old, tick>>
  BY DEF P!Refresh
<1>2. target \in P!Places /\ P!Places' = P!Places
  BY <1>1 DEF RunsInv, Domains, P!Places
<1>3. target \in Targets
  BY <1>2, PlacesTyped DEF RunsInv
<1>4. row[r].status \in P!RUN_STATUSES /\ row[r].ext \in Nat
  BY <1>1 DEF RunsInv, RowsInv, RowSound, P!RunsTyped, P!RowType
<1>5. j \in P!JobType
  BY <1>3, <1>4 DEF P!JobType
<1>6. j.op = "poll" /\ j.run = r /\ j.at = target /\ j.ext = row[r].ext
  OBVIOUS
<1> HIDE DEF j
<1>7. job'[h] = j
  BY <1>1 DEF RunsInv, P!RunsTyped
<1>8. TriggerSound(h)' /\ RefreshSound(h)'
  BY <1>1, <1>2, <1>6, <1>7 DEF TriggerSound, RefreshSound, P!NoRow, P!Row
<1>9. Grows
  BY <1>1, StillGrows DEF RunsInv
<1>10. writer # h
  BY <1>1 DEF RunsInv, P!RunsTyped, P!RunsAssumption, P!Idle
<1> QED BY <1>1, <1>5, <1>8, <1>9, <1>10, JobStep

\* What a poll answers: a status that ends a row is the end of that run.
LEMMA PollAnswerSound ==
  ASSUME P!RunsAssumption, RunsInv, NEW t \in P!Places, NEW id \in Nat
  PROVE  /\ P!PollAnswer(t, id) \in [status : P!RUN_STATUSES, completed : BOOLEAN]
         /\ P!PollAnswer(t, id).status \in P!Terminal => Ended(t, id, P!PollAnswer(t, id).status)
<1> DEFINE p == site.provider[t]
<1>1. p \in P!Providers /\ made[t] \in Seq(Seen[p]) /\ Seen[p] \subseteq P!Natives(p)
  BY PlacesTyped DEF RunsInv
<1>2. CASE id = 0
  BY <1>2 DEF P!PollAnswer, P!NoId, P!RUN_STATUSES, P!Terminal
<1>3. CASE id # 0 /\ id \notin DOMAIN made[t]
  BY <1>3 DEF P!PollAnswer, P!NotFound, P!RUN_STATUSES, P!Terminal
<1>4. CASE id # 0 /\ id \in DOMAIN made[t]
  <2> DEFINE n == made[t][id]
  <2>1. n \in P!Natives(p)
    BY <1>1, <1>4
  <2>2. P!PollAnswer(t, id) = P!Answer(p, n)
    BY <1>4 DEF P!PollAnswer
  <2>3. P!MapStatus(p, n) \in P!RUN_STATUSES /\ P!Completed(p, n) \in BOOLEAN
        /\ (P!MapStatus(p, n) \in P!Terminal => n \in P!FinalNatives[p])
    BY <1>1, <2>1, MapSound
  <2>4. P!Answer(p, n).status = P!MapStatus(p, n)
        /\ P!Answer(p, n) \in [status : P!RUN_STATUSES, completed : BOOLEAN]
    BY <2>3 DEF P!Answer
  <2> QED BY <1>4, <2>2, <2>3, <2>4 DEF Ended
<1> QED BY <1>2, <1>3, <1>4

LEMMA RefreshAnsweredKeeps ==
  ASSUME P!RunsAssumption, RunsInv, NEW h \in Handlers, P!RefreshAnswered(h)
  PROVE  RunsInv'
<1> DEFINE a == P!PollAnswer(job[h].at, job[h].ext)
           j == [op |-> "apply", run |-> job[h].run, was |-> job[h].was, at |-> job[h].at,
                 answer |-> a]
<1>1. /\ job[h].op = "poll" /\ job' = [job EXCEPT ![h] = j]
      /\ UNCHANGED <<site, target, made, listed, row, writer, old, tick>> /\ P!Places' = P!Places
  BY DEF P!RefreshAnswered, P!Places
<1>2. /\ job[h] \in P!JobType /\ job[h].at \in P!Places /\ (row[job[h].run] = P!NoRow => target = None)
      /\ row[job[h].run] = P!NoRow \/ job[h].ext = row[job[h].run].ext
  BY <1>1 DEF RunsInv, P!RunsTyped, JobsInv, RefreshSound
<1>3. job[h].run \in Runs /\ job[h].at \in Targets /\ job[h].was \in P!RUN_STATUSES /\ job[h].ext \in Nat
  BY <1>1, <1>2, JobFields
<1>4. /\ a \in [status : P!RUN_STATUSES, completed : BOOLEAN]
      /\ a.status \in P!Terminal => Ended(job[h].at, job[h].ext, a.status)
  BY <1>2, <1>3, PollAnswerSound
<1> HIDE DEF a
<1>5. j \in P!JobType
  BY <1>3, <1>4 DEF P!JobType
<1>6. j.op = "apply" /\ j.run = job[h].run /\ j.at = job[h].at /\ j.answer = a
  OBVIOUS
<1> HIDE DEF j
<1>7. job'[h] = j
  BY <1>1 DEF RunsInv, P!RunsTyped
<1>8. TriggerSound(h)' /\ RefreshSound(h)'
  BY <1>1, <1>2, <1>4, <1>6, <1>7 DEF TriggerSound, RefreshSound, Ended, P!NoRow, P!Row
<1>9. Grows
  BY <1>1, StillGrows DEF RunsInv
<1>10. writer # h
  BY <1>1 DEF RunsInv, P!RunsTyped, P!RunsAssumption
<1> QED BY <1>1, <1>5, <1>8, <1>9, <1>10, JobStep

LEMMA RefreshCommitsKeeps ==
  ASSUME P!RunsAssumption, RunsInv, NEW h \in Handlers, P!RefreshCommits(h)
  PROVE  RunsInv'
<1> DEFINE r == job[h].run
           a == job[h].answer
<1>1. /\ job[h].op = "apply" /\ writer = None /\ job' = [job EXCEPT ![h] = P!Idle]
      /\ UNCHANGED <<site, target, made, listed, writer, old, tick>> /\ P!Places' = P!Places
  BY DEF P!RefreshCommits, P!Places
<1>2. CASE row[r] = P!NoRow
  <2>1. row' = row
    BY <1>2 DEF P!RefreshCommits
  <2> QED BY <1>1, <2>1, IdleStep
<1>3. CASE row[r] # P!NoRow
  <2>1. job[h] \in P!JobType
    BY DEF RunsInv, P!RunsTyped
  <2>2. r \in Runs /\ job[h].at \in Targets /\ a.status \in P!RUN_STATUSES /\ a.completed \in BOOLEAN
    BY <1>1, <2>1, JobFields
  <2>3. /\ job[h].at \in P!Places /\ target # None
        /\ a.status \in P!Terminal => Ended(job[h].at, row[r].ext, a.status)
    BY <1>1, <1>3, <2>2 DEF RunsInv, JobsInv, RefreshSound, P!NoOrphans
  <2> DEFINE x == [status |-> IF a.status # job[h].was THEN a.status ELSE row[r].status,
                   ext |-> row[r].ext, at |-> row[r].at,
                   by |-> IF a.status # job[h].was THEN job[h].at ELSE row[r].by,
                   done |-> row[r].done \/ (a.completed /\ a.status \in P!Terminal)]
  <2>4. row[r] \in P!RowType /\ RowSound(row[r])
    BY <2>2 DEF RunsInv, P!RunsTyped, RowsInv
  <2>5. row[r] = [status |-> row[r].status, ext |-> row[r].ext, at |-> row[r].at, by |-> row[r].by,
                  done |-> row[r].done]
    BY <2>4 DEF P!RowType
  <2>6. row'[r] = x /\ \A s \in Runs : s # r => row'[s] = row[s]
    <3>1. row' = [row EXCEPT ![r].status = IF a.status # job[h].was THEN a.status ELSE @,
                             ![r].done = @ \/ (a.completed /\ a.status \in P!Terminal),
                             ![r].by = IF a.status # job[h].was THEN job[h].at ELSE @]
      BY <1>3 DEF P!RefreshCommits
    <3>2. row \in [Runs -> P!RowType]
      BY DEF RunsInv, P!RunsTyped
    <3>3. \A s \in Runs : s # r => row'[s] = row[s]
      BY <3>1, <3>2
    <3>4. row'[r] = [row[r] EXCEPT !.status = IF a.status # job[h].was THEN a.status ELSE @,
                                   !.done = @ \/ (a.completed /\ a.status \in P!Terminal),
                                   !.by = IF a.status # job[h].was THEN job[h].at ELSE @]
      BY <2>2, <3>1, <3>2, Zenon
    <3>5. row'[r] = x
      BY <2>4, <3>4 DEF P!RowType
    <3> QED BY <3>3, <3>5
  <2>7. x \in P!RowType
    BY <2>2, <2>4 DEF P!RowType
  <2>8. /\ x.ext = row[r].ext /\ x.at = row[r].at
        /\ \/ x.status = a.status /\ x.by = job[h].at
           \/ x.status = row[r].status /\ x.by = row[r].by
    OBVIOUS
  <2> HIDE DEF x
  <2>9. row' \in [Runs -> P!RowType]
    BY <2>6, <2>7 DEF RunsInv, P!RunsTyped, P!RefreshCommits
  <2>10. /\ P!Idle \in P!JobType /\ job' \in [Handlers -> P!JobType] /\ job'[h] = P!Idle
         /\ \A g \in Handlers : g # h => job'[g] = job[g]
    BY <1>1 DEF RunsInv, P!RunsTyped, P!JobType
  <2>11. P!RunsTyped'
    BY <1>1, <2>9, <2>10 DEF RunsInv, P!RunsTyped
  <2>12. Domains' /\ P!NoOrphans'
    BY <1>1, <2>3 DEF RunsInv, Domains, P!NoOrphans
  <2>13. /\ x.at \in P!Places /\ x.by \in P!Places /\ x.status \in P!RUN_STATUSES /\ Given(x.at, x.ext)
         /\ x.status \in P!Terminal /\ x.ext # 0 => Ended(x.by, x.ext, x.status)
    BY <1>3, <2>2, <2>3, <2>4, <2>8 DEF RowSound
  <2>14. RowsInv'
    <3> SUFFICES ASSUME NEW s \in Runs PROVE RowSound(row[s])'
      BY DEF RowsInv
    <3>1. CASE s = r
      <4>1. row'[s] = x
        BY <2>6, <3>1
      <4>2. /\ row'[s].at \in P!Places' /\ row'[s].by \in P!Places'
            /\ row'[s].status \in P!RUN_STATUSES /\ Given(row[s].at, row[s].ext)'
        BY <1>1, <2>13, <4>1 DEF Given
      <4>3. row'[s].status \in P!Terminal /\ row'[s].ext # 0 =>
              Ended(row[s].by, row[s].ext, row[s].status)'
        BY <1>1, <2>13, <4>1 DEF Ended
      <4> QED BY <4>2, <4>3 DEF RowSound
    <3>2. CASE s # r
      <4>1. RowSound(row[s])
        BY DEF RunsInv, RowsInv
      <4> QED BY <1>1, <2>6, <3>2, <4>1 DEF RowSound, Given, Ended, P!NoRow, P!Row
    <3> QED BY <3>1, <3>2
  <2>15. \A s \in Runs : row'[s].ext = row[s].ext /\ row'[s].at = row[s].at
    BY <2>6, <2>8
  <2>16. P!RunsDistinct'
    BY <2>15 DEF RunsInv, P!RunsDistinct
  <2>17. x # P!NoRow
    <3>1. None \notin P!Places
      BY PlacesTyped DEF RunsInv
    <3> QED BY <2>13, <3>1 DEF P!NoRow, P!Row
  <2>18. JobsInv'
    <3> SUFFICES ASSUME NEW g \in Handlers PROVE TriggerSound(g)' /\ RefreshSound(g)'
      BY DEF JobsInv
    <3>1. CASE g = h
      BY <2>10, <3>1 DEF TriggerSound, RefreshSound, P!Idle
    <3>2. CASE g # h
      <4>1. job'[g] = job[g] /\ job[g] \in P!JobType /\ RefreshSound(g)
        BY <2>10, <3>2 DEF RunsInv, P!RunsTyped, JobsInv
      <4>2. job[g].op \notin {"call", "commit"}
        BY <1>1, LockFree
      <4>3. TriggerSound(g)'
        BY <4>1, <4>2 DEF TriggerSound
      <4>4. job[g].op \in {"poll", "apply"} => job[g].run \in Runs
        BY <4>1, JobFields
      <4>5. ASSUME job[g].op \in {"poll", "apply"}
            PROVE  /\ row'[job[g].run] # P!NoRow
                   /\ row[job[g].run] # P!NoRow /\ row'[job[g].run].ext = row[job[g].run].ext
        <5>1. row[job[g].run] # P!NoRow
          BY <2>3, <4>1, <4>5 DEF RefreshSound
        <5>2. row'[job[g].run] # P!NoRow
          BY <2>6, <2>17, <4>4, <4>5, <5>1
        <5> QED BY <2>15, <4>4, <4>5, <5>1, <5>2
      <4>6. RefreshSound(g)'
        BY <1>1, <4>1, <4>5 DEF RefreshSound, Ended, P!NoRow, P!Row
      <4> QED BY <4>3, <4>6
    <3> QED BY <3>1, <3>2
  <2> QED BY <2>11, <2>12, <2>14, <2>16, <2>18 DEF RunsInv
<1> QED BY <1>2, <1>3

LEMMA RunsInit ==
  ASSUME P!RunsAssumption, P!Init
  PROVE  RunsInv
<1>1. /\ site \in Sites /\ target \in P!Places /\ DOMAIN site.provider \subseteq Targets
      /\ \A t \in P!Places : site.made[t] \in Nat
      /\ None \notin Targets
  BY DEF P!Init, P!RunsAssumption, P!Places
<1>2. \A t \in P!Places : made[t] = <<>> /\ listed[t] = 0
  BY DEF P!Init
<1>3. \A r \in Runs : row[r] = P!NoRow
  BY DEF P!Init
<1>4. P!NoRow \in P!RowType /\ P!NoRow.ext = 0
  BY DEF P!NoRow, P!Row, P!RowType
<1>5. \A h \in Handlers : job[h] = P!Idle
  BY DEF P!Init
<1>6. row \in [Runs -> P!RowType] /\ job \in [Handlers -> P!JobType]
  BY <1>4 DEF P!Init, P!JobType
<1>7. \A t \in P!Places : /\ made[t] \in Seq(Seen[site.provider[t]]) /\ Len(made[t]) <= site.made[t]
                        /\ listed[t] \in 0..Len(made[t])
  <2> SUFFICES ASSUME NEW t \in P!Places
               PROVE  /\ made[t] \in Seq(Seen[site.provider[t]]) /\ Len(made[t]) <= site.made[t]
                      /\ listed[t] \in 0..Len(made[t])
    OBVIOUS
  <2>1. made[t] \in Seq(Seen[site.provider[t]]) /\ Len(made[t]) = 0
    <3>1. made[t] = <<>>
      BY <1>2
    <3>2. <<>> \in Seq(Seen[site.provider[t]]) /\ Len(<<>>) = 0
      OBVIOUS
    <3> QED BY <3>1, <3>2
  <2>2. site.made[t] \in Nat /\ listed[t] = 0
    BY <1>1, <1>2
  <2> QED BY <2>1, <2>2
<1>8. P!RunsTyped
  BY <1>1, <1>6, <1>7 DEF P!RunsTyped, P!Init, P!Places
<1>9. Domains
  BY <1>1 DEF Domains, P!Init
<1>10. RowsInv
  BY <1>3 DEF RowsInv, RowSound
<1>11. JobsInv
  BY <1>5 DEF JobsInv, TriggerSound, RefreshSound, P!Idle
<1>12. P!RunsDistinct /\ P!NoOrphans
  BY <1>3, <1>4 DEF P!RunsDistinct, P!NoOrphans
<1> QED BY <1>8, <1>9, <1>10, <1>11, <1>12 DEF RunsInv

LEMMA RunsNext ==
  ASSUME P!RunsAssumption, RunsInv, [P!Next]_(P!vars)
  PROVE  RunsInv'
<1>1. ASSUME NEW t \in P!Places, P!Outsider(t) \/ P!Appear(t) \/ P!Retarget(t)
      PROVE  RunsInv'
  BY <1>1, OutsiderKeeps, AppearKeeps, RetargetKeeps
<1>2. ASSUME NEW t \in P!Places, NEW i \in 1..Len(made[t]), P!Proceed(t, i)
      PROVE  RunsInv'
  BY <1>2, ProceedKeeps
<1>3. ASSUME NEW h \in Handlers, NEW r \in Runs, P!Trigger(h, r) \/ P!Refresh(h, r)
      PROVE  RunsInv'
  BY <1>3, TriggerKeeps, RefreshKeeps
<1>4. ASSUME NEW h \in Handlers, P!HandlerStep(h)
      PROVE  RunsInv'
  <2>1. CASE P!TriggerReads(h) \/ P!TriggerLaunches(h) \/ P!TriggerLooks(h) \/ P!TriggerRefused(h)
    BY <2>1, TriggerReadsKeeps, TriggerLaunchesKeeps, TriggerLooksKeeps, TriggerRefusedKeeps
  <2>2. CASE P!TriggerRaises(h) \/ P!AgentRaises(h) \/ P!TriggerCommits(h)
    BY <2>2, TriggerRaisesKeeps, AgentRaisesKeeps, TriggerCommitsKeeps
  <2>3. CASE P!RefreshAnswered(h) \/ P!RefreshFails(h) \/ P!RefreshCommits(h) \/ P!RefreshLocked(h)
    BY <2>3, RefreshAnsweredKeeps, RefreshFailsKeeps, RefreshCommitsKeeps
  <2> QED BY <1>4, <2>1, <2>2, <2>3 DEF P!HandlerStep
<1>5. CASE P!Delete \/ P!Tick \/ P!Restart
  BY <1>5, DeleteKeeps, TickKeeps, RestartKeeps
<1>6. ASSUME NEW r \in Runs, P!Age(r)
      PROVE  RunsInv'
  BY <1>6, AgeKeeps
<1>7. CASE UNCHANGED P!vars
  <2>1. UNCHANGED <<site, target, made, listed, row, job, writer, old, tick>>
    BY <1>7 DEF P!vars
  <2>2. Grows
    BY <2>1, StillGrows DEF RunsInv
  <2> QED BY <2>1, <2>2, UnmovedStep DEF RunsInv, P!RunsTyped
<1> QED BY <1>1, <1>2, <1>3, <1>4, <1>5, <1>6, <1>7 DEF P!Next

\* The adapters and the assumption about the constants, as the instance states them.
LEMMA SameAdapters ==
  /\ P!StatusMap = StatusMap /\ P!FirstNative = FirstNative
  /\ P!FinalNatives = FinalNatives
<1>1. P!StatusMap = StatusMap
  BY DEF P!StatusMap, P!GitHubStatus, P!AzureStatus, P!OctopusStatus, P!AWXStatus, P!TerraformStatus, StatusMap,
    GitHubStatus, AzureStatus, OctopusStatus, AWXStatus, TerraformStatus
<1>2. P!FirstNative = FirstNative
  BY DEF P!FirstNative, FirstNative
<1>3. P!FinalNatives = FinalNatives
  BY DEF P!FinalNatives, FinalNatives
<1> QED BY <1>1, <1>2, <1>3

LEMMA RunConstants == P!RunsAssumption
BY SameAdapters, RunsAssumption
   DEF RunsAssumption, P!RunsAssumption, Providers, P!Providers, Natives, P!Natives

\* The inductive invariant of the pipelines holds for every number of handlers, rows,
\* targets, looks and provider runs.
THEOREM RunsInvariant == P!Spec => []RunsInv
<1>1. P!Init => RunsInv
  BY RunsInit, RunConstants
<1>2. RunsInv /\ [P!Next]_(P!vars) => RunsInv'
  BY RunsNext, RunConstants
<1> QED BY <1>1, <1>2, PTL DEF P!Spec

\* pipeline_runs always holds sound rows: in shape, no two for the same run of a
\* provider, and none without its pipeline (RowsSound), whatever triggers, refreshes,
\* edits, deletes and restarts race each other.
THEOREM RowsAreSound == P!Spec => []RowsSound
<1>1. RunsInv => P!RowsSound
  BY DEF RunsInv, P!RowsSound
<1>2. P!NoRow = NoRow /\ P!RowType = RowType /\ P!Places = Places
  BY DEF P!NoRow, P!Row, P!RowType, P!RUN_STATUSES, P!Places, NoRow, Row, RowType,
    RUN_STATUSES, Places
<1>3. P!JobType = JobType
  BY <1>2 DEF P!JobType, P!Idle, P!CallsLeft, P!RUN_STATUSES, JobType, Idle, CallsLeft,
    RUN_STATUSES
<1>4. P!RunsTyped => RunsTyped
  BY <1>2, <1>3 DEF P!RunsTyped, RunsTyped
<1>5. P!RunsDistinct /\ P!NoOrphans => RunsDistinct /\ NoOrphans
  BY <1>2 DEF P!RunsDistinct, P!NoOrphans, RunsDistinct, NoOrphans
<1>6. P!RowsSound => RowsSound
  BY <1>4, <1>5 DEF P!RowsSound, RowsSound
<1> QED BY <1>1, <1>6, RunsInvariant, PTL

\* A row that refresh_run never polls again says what the provider's run ended with
\* (SettledIsRight): no late answer, and no answer from another target than the
\* trigger's, settles it wrongly.
THEOREM SettledAreRight == P!Spec => []SettledIsRight
<1>1. RunsInv => P!SettledIsRight
  <2> SUFFICES ASSUME RunsInv, NEW r \in Runs, row[r].status \in P!Terminal, row[r].ext # 0
               PROVE  Ended(row[r].by, row[r].ext, row[r].status)
    BY DEF P!SettledIsRight, Ended
  <2>1. row[r] # P!NoRow
    BY DEF P!NoRow, P!Row, P!Terminal
  <2> QED BY <2>1 DEF RunsInv, RowsInv, RowSound
<1>2. P!SettledIsRight => SettledIsRight
  BY SameAdapters DEF P!SettledIsRight, P!Terminal, P!MapStatus, SettledIsRight, Terminal, MapStatus
<1> QED BY <1>1, <1>2, RunsInvariant, PTL
=============================================================================
