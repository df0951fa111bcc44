---------------------------- MODULE ChatReplies ----------------------------
(***************************************************************************)
(* Reply generation of one conversation, dosm/llm/routes.py: user messages *)
(* are posted, a browser opens a server-sent-event stream for the reply to *)
(* one, the stream starts a background generation or reconnects to the one *)
(* the process-local registry _reply_futures names, and the generation     *)
(* ends by writing an assistant message.  Plan-card results (dosm/agent/   *)
(* routes.py) are appended to the same conversation.                       *)
(*                                                                         *)
(* A message id is its position in `msgs`; a generation number stands for  *)
(* the task together with its future and queue.                            *)
(***************************************************************************)
EXTENDS Naturals, Sequences, FiniteSets

CONSTANTS Tabs,        \* event streams a browser may have open
          MaxMsgs,     \* bound: rows of chat_messages
          MaxGens,     \* bound: generations started
          MaxRestarts  \* bound: restarts of the process

ASSUME ChatAssumption ==
    MaxMsgs \in Nat /\ MaxGens \in Nat /\ MaxRestarts \in Nat

VARIABLES
    conv,     \* whether the conversation row exists
    msgs,     \* rows of chat_messages: role, ord, and the message answered
    reg,      \* _reply_futures[cid]: reply_to and generation, gen = 0 if absent
    gens,     \* the generations started: message answered, next_ord, state
    stream,   \* for each tab, the generation its stream waits for, or 0
    restarts

vars == <<conv, msgs, reg, gens, stream, restarts>>

Absent == [to |-> 0, gen |-> 0]
Running(g) == gens[g].state = "running"
NumRunning == Cardinality({g \in DOMAIN gens : Running(g)})

Init ==
    /\ conv = TRUE
    /\ msgs = <<>>
    /\ reg = Absent
    /\ gens = <<>>
    /\ stream = [t \in Tabs |-> 0]
    /\ restarts = 0

\* The rows are read in the order of `ord`; the next one is one past the last.
NextOrd ==
    IF msgs = <<>> THEN 0
    ELSE 1 + CHOOSE n \in {msgs[i].ord : i \in DOMAIN msgs} :
                \A i \in DOMAIN msgs : msgs[i].ord <= n

\* Room for another row beside those the running generations will write.
Room == Len(msgs) + NumRunning < MaxMsgs

\* chat_post_message
Post ==
    /\ conv /\ Room
    /\ msgs' = Append(msgs, [role |-> "user", ord |-> NextOrd, to |-> 0])
    /\ UNCHANGED <<conv, reg, gens, stream, restarts>>

\* A plan card's runner ended: its result becomes an assistant message.
PlanResult ==
    /\ conv /\ Room
    /\ msgs' = Append(msgs, [role |-> "assistant", ord |-> NextOrd, to |-> 0])
    /\ UNCHANGED <<conv, reg, gens, stream, restarts>>

\* chat_stream, the registry's future is for this very message: wait for it.
Reconnect(t, m) ==
    /\ stream[t] = 0
    /\ reg.gen # 0 /\ reg.to = m
    /\ Running(reg.gen)
    /\ stream' = [stream EXCEPT ![t] = reg.gen]
    /\ UNCHANGED <<conv, msgs, reg, gens, restarts>>

\* Mutant: the 409 check is missing.
AnsweredNever(m) == FALSE

\* "assistant already replied to this message" (409)
Answered(m) ==
    \E i \in DOMAIN msgs : msgs[i].role = "assistant" /\ msgs[i].ord > msgs[m].ord

\* chat_stream, otherwise: start a generation and put it into the registry, over
\* whatever is there.
Generate(t, m) ==
    /\ stream[t] = 0
    /\ ~ (reg.gen # 0 /\ reg.to = m /\ Running(reg.gen))
    /\ conv /\ m \in DOMAIN msgs
    /\ msgs[m].role = "user"
    /\ ~ Answered(m)
    /\ Len(gens) < MaxGens /\ Room
    /\ gens' = Append(gens, [to |-> m, ord |-> NextOrd, state |-> "running"])
    /\ reg' = [to |-> m, gen |-> Len(gens) + 1]
    /\ stream' = [stream EXCEPT ![t] = Len(gens) + 1]
    /\ UNCHANGED <<conv, msgs, restarts>>

\* Mutant: the `finally` does not clear the registry.
GenEndsNoPop(g) ==
    /\ Running(g)
    /\ gens' = [gens EXCEPT ![g].state = "ended"]
    /\ msgs' = IF conv THEN Append(msgs, [role |-> "assistant",
                                          ord |-> gens[g].ord, to |-> gens[g].to])
                       ELSE msgs
    /\ UNCHANGED <<conv, reg, stream, restarts>>

\* Mutant: a failed transaction leaves the future unresolved.
GenEndsSilent(g) ==
    /\ Running(g)
    /\ gens' = [gens EXCEPT ![g].state = IF conv THEN "ended" ELSE "lost"]
    /\ msgs' = IF conv THEN Append(msgs, [role |-> "assistant",
                                          ord |-> gens[g].ord, to |-> gens[g].to])
                       ELSE msgs
    /\ reg' = Absent
    /\ UNCHANGED <<conv, stream, restarts>>

\* _generate_reply after its model and query rounds, good or bad: write the reply
\* under the ord computed at the start (a deleted conversation makes that fail),
\* resolve the future, and pop the conversation's registry entry.
GenEnds(g) ==
    /\ Running(g)
    /\ gens' = [gens EXCEPT ![g].state = "ended"]
    /\ msgs' = IF conv THEN Append(msgs, [role |-> "assistant",
                                          ord |-> gens[g].ord, to |-> gens[g].to])
                       ELSE msgs
    /\ reg' = Absent
    /\ UNCHANGED <<conv, stream, restarts>>

\* The sentinel and the future's result end the stream.
StreamEnds(t) ==
    /\ stream[t] # 0
    /\ gens[stream[t]].state = "ended"
    /\ stream' = [stream EXCEPT ![t] = 0]
    /\ UNCHANGED <<conv, msgs, reg, gens, restarts>>

\* The browser navigates away; the generation goes on.
TabLeaves(t) ==
    /\ stream[t] # 0
    /\ stream' = [stream EXCEPT ![t] = 0]
    /\ UNCHANGED <<conv, msgs, reg, gens, restarts>>

\* chat_delete: the messages go with the conversation, the task does not.
Delete ==
    /\ conv
    /\ conv' = FALSE
    /\ msgs' = <<>>
    /\ UNCHANGED <<reg, gens, stream, restarts>>

\* Tasks, futures and the registry are process-local.
Restart ==
    /\ restarts < MaxRestarts
    /\ restarts' = restarts + 1
    /\ reg' = Absent
    /\ gens' = [g \in DOMAIN gens |-> IF Running(g) THEN [gens[g] EXCEPT !.state = "lost"]
                                                    ELSE gens[g]]
    /\ stream' = [t \in Tabs |-> 0]
    /\ UNCHANGED <<conv, msgs>>

Next ==
    \/ Post \/ PlanResult \/ Delete \/ Restart
    \/ \E t \in Tabs : \/ StreamEnds(t) \/ TabLeaves(t)
                       \/ \E m \in 1 .. MaxMsgs : Reconnect(t, m) \/ Generate(t, m)
    \/ \E g \in DOMAIN gens : GenEnds(g)

Spec == Init /\ [][Next]_vars

\* A generation ends: it makes at most MAX_QUERY_ROUNDS + 1 model calls, each with
\* a timeout.  A resolved future wakes its streams.
Fairness ==
    /\ \A g \in 1 .. MaxGens : WF_vars(g \in DOMAIN gens /\ GenEnds(g))
    /\ \A t \in Tabs : WF_vars(StreamEnds(t))

FairSpec == Spec /\ Fairness

-----------------------------------------------------------------------------
(* Properties *)

\* Roles, states and references have their types, and no row's ord exceeds the rows
\* there can be.
TypeOK ==
    /\ conv \in BOOLEAN
    /\ \A i \in DOMAIN msgs : /\ msgs[i].role \in {"user", "assistant"}
                              /\ msgs[i].ord \in 0 .. MaxMsgs
                              /\ msgs[i].to \in 0 .. MaxMsgs
    /\ Len(msgs) <= MaxMsgs /\ Len(gens) <= MaxGens
    /\ \A g \in DOMAIN gens : gens[g].state \in {"running", "ended", "lost"}
    /\ reg.gen \in 0 .. Len(gens)
    /\ stream \in [Tabs -> 0 .. Len(gens)]

\* The registry only names a generation in flight, and the message it answers:
\* nobody reconnects to a future that is done or to another message's reply.
RegistryLive ==
    reg.gen # 0 => Running(reg.gen) /\ gens[reg.gen].to = reg.to

\* A message that has its reply is never generated for again, whoever retries,
\* reloads or reconnects.
NoneAfterReply ==
    [][\A m \in DOMAIN msgs :
          (\E i \in DOMAIN msgs : msgs[i].role = "assistant" /\ msgs[i].to = m)
             => ~ \E g \in DOMAIN gens' : g \notin DOMAIN gens /\ gens'[g].to = m]_vars

\* Every open stream ends, also when the conversation is deleted under it.
StreamsEnd == \A t \in Tabs : stream[t] # 0 ~> stream[t] = 0

\* A generation ends with a reply in the conversation, unless that is deleted or
\* the process dies.
GenerationAnswers ==
    \A g \in 1 .. MaxGens :
        (g \in DOMAIN gens /\ Running(g))
           ~> \/ ~ conv
              \/ /\ g \in DOMAIN gens
                 /\ \/ gens[g].state = "lost"
                    \/ \E i \in DOMAIN msgs : /\ msgs[i].role = "assistant"
                                             /\ msgs[i].to = gens[g].to

\* Nobody is left with a reference to a generation that is not there: the registry
\* and the streams name generations that exist, the registry a running one.
RegistrySound == TypeOK /\ RegistryLive

\* Whoever waits for a reply gets an end: the stream and, unless the conversation or
\* the process goes, the row.
RepliesArrive == StreamsEnd /\ GenerationAnswers
=============================================================================
