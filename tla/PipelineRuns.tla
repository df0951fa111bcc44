---------------------------- MODULE PipelineRuns ----------------------------
(***************************************************************************)
(* One pipeline, its PipelineRun rows and the runs its provider really     *)
(* has.  A handler (a request or an agent action) triggers a run through   *)
(* the adapter's calls, each of them an await, or refreshes a row from the *)
(* provider; the poller ticks; users retarget or delete the pipeline.      *)
(*                                                                         *)
(* A trigger flushes its INSERT before the first await and commits in the  *)
(* request's teardown: it holds SQLite's write lock from Trigger to        *)
(* TriggerCommits, its row is invisible until then, and what another       *)
(* handler writes meanwhile fails after the busy timeout (the wait blocks  *)
(* the loop the trigger itself needs).                                     *)
(***************************************************************************)
EXTENDS RunTables

vars == <<site, target, made, listed, row, job, writer, old, tick>>

Used == {r \in Runs : row[r] # NoRow} \cup
        {job[h].run : h \in {h \in Handlers : job[h].op \in {"call", "commit"}}}

\* Rows the poller selects: not terminal, with an external id.
Eligible == {r \in Runs : /\ row[r].status \in {"queued", "running", "unknown"}
                          /\ row[r].ext # 0}

Init ==
  /\ site \in Sites
  /\ target \in Places
  /\ made = [t \in Places |-> <<>>]
  /\ listed = [t \in Places |-> 0]
  /\ row = [r \in Runs |-> NoRow]
  /\ job = [h \in Handlers |-> Idle]
  /\ writer = None
  /\ old = {}
  /\ tick = "idle"

----------------------------------------------------------------------------
(* The provider. *)

Launch(t) == made' = [made EXCEPT ![t] = Append(@, FirstNative[site.provider[t]])]

\* Somebody starts a run of the same workflow without DOSM.
Outsider(t) ==
  /\ Len(made[t]) < site.made[t]
  /\ Launch(t)
  /\ UNCHANGED <<site, target, listed, row, job, writer, old, tick>>

\* A run goes on; it never leaves a final state.
Proceed(t, i) ==
  /\ made[t][i] \notin FinalNatives[site.provider[t]]
  /\ \E n \in Seen[site.provider[t]] \ {made[t][i], FirstNative[site.provider[t]]} :
       made' = [made EXCEPT ![t][i] = n]
  /\ UNCHANGED <<site, target, listed, row, job, writer, old, tick>>

\* The list of runs lags behind the runs.
Appear(t) ==
  /\ listed[t] < Len(made[t])
  /\ listed' = [listed EXCEPT ![t] = @ + 1]
  /\ UNCHANGED <<site, target, made, row, job, writer, old, tick>>

----------------------------------------------------------------------------
(* Triggering: pipelines_trigger and the agent's run_pipeline. *)

Call(h) == Head(job[h].calls)

\* The lookups of the pipeline, then trigger_pipeline's flushed INSERT.
Trigger(h, r) ==
  /\ job[h] = Idle /\ target # None /\ r \in site.runs \ Used
  /\ writer = None
  /\ writer' = h
  /\ job' = [job EXCEPT ![h] =
       [op |-> "call", run |-> r, at |-> target,
        calls |-> TriggerCalls[site.provider[target]], prev |-> 0, looks |-> 0]]
  /\ UNCHANGED <<site, target, made, listed, row, old, tick>>

Finished(h, new) ==
  [op |-> "commit", run |-> job[h].run, new |-> new]
Accepted(h, id) ==
  LET t == job[h].at IN
  Row(IF id = 0 THEN "queued" ELSE TriggerStatus(site.provider[t], made[t][id]), id, t, FALSE)
Failed(h) == Row("failed", 0, job[h].at, TRUE)
NeverTriggered(h) == Row("queued", 0, job[h].at, FALSE)

\* Mutant: a lookup is tried again for ever.
TriggerReadsAgain(h) ==
  /\ job[h].op = "call" /\ Call(h) \in {"list", "release"}
  /\ job' = [job EXCEPT ![h].prev = listed[job[h].at], ![h].looks = 1 - @]
  /\ UNCHANGED <<site, target, made, listed, row, writer, old, tick>>

\* A call that only reads: the newest run (kept as previous_id), a release.
TriggerReads(h) ==
  /\ job[h].op = "call" /\ Call(h) \in {"list", "release"}
  /\ job' = [job EXCEPT ![h].calls = Tail(@), ![h].prev = listed[job[h].at]]
  /\ UNCHANGED <<site, target, made, listed, row, writer, old, tick>>

\* The call that starts the run; a launch answers with its id.
TriggerLaunches(h) ==
  /\ job[h].op = "call" /\ Call(h) \in {"launch", "dispatch"}
  /\ LET t == job[h].at IN
       /\ Len(made[t]) < site.made[t]
       /\ Launch(t)
       /\ job' = IF Call(h) = "dispatch" THEN [job EXCEPT ![h].calls = Tail(@)]
                 ELSE [job EXCEPT ![h] = Finished(h,
                        Row(TriggerStatus(site.provider[t], FirstNative[site.provider[t]]),
                            Len(made[t]) + 1, t, FALSE))]
  /\ UNCHANGED <<site, target, listed, row, writer, old, tick>>

\* Mutant: the newest run is ours, whatever was listed before.
TriggerLooksAtTop(h) ==
  /\ job[h].op = "call" /\ Call(h) = "look"
  /\ LET top == listed[job[h].at] IN
       \/ /\ top # 0
          /\ job' = [job EXCEPT ![h] = Finished(h, Accepted(h, top))]
       \/ /\ job[h].looks + 1 < MaxLooks
          /\ job' = [job EXCEPT ![h].looks = @ + 1]
       \/ /\ job[h].looks + 1 = MaxLooks
          /\ job' = [job EXCEPT ![h] = Finished(h, Accepted(h, 0))]
  /\ UNCHANGED <<site, target, made, listed, row, writer, old, tick>>

\* One of GitHub's looks: a newest run that is not the one listed before the
\* dispatch is taken for ours.  A look may also see nothing new, or get no 200;
\* after the last one the row keeps no id.
TriggerLooks(h) ==
  /\ job[h].op = "call" /\ Call(h) = "look"
  /\ LET top == listed[job[h].at] IN
       \/ /\ top # job[h].prev
          /\ job' = [job EXCEPT ![h] = Finished(h, Accepted(h, top))]
       \/ /\ job[h].looks + 1 < MaxLooks
          /\ job' = [job EXCEPT ![h].looks = @ + 1]
       \/ /\ job[h].looks + 1 = MaxLooks
          /\ job' = [job EXCEPT ![h] = Finished(h, Accepted(h, 0))]
  /\ UNCHANGED <<site, target, made, listed, row, writer, old, tick>>

\* PipelineProviderError or PipelineUnreachable: the row is kept as failed.
\* A timed-out launch may have started the run all the same.
TriggerRefused(h) ==
  /\ job[h].op = "call" /\ Call(h) # "look"
  /\ job' = [job EXCEPT ![h] = Finished(h, Failed(h))]
  /\ \/ UNCHANGED made
     \/ /\ Call(h) \in {"launch", "dispatch"} /\ Len(made[job[h].at]) < site.made[job[h].at]
        /\ Launch(job[h].at)
  /\ UNCHANGED <<site, target, listed, row, writer, old, tick>>

\* Any other exception (raise_for_status, a timeout of a look): the request's
\* session rolls back.
TriggerRaises(h) ==
  /\ job[h].op = "call" /\ Call(h) \in {"list", "look"}
  /\ job' = [job EXCEPT ![h] = Finished(h, NoRow)]
  /\ UNCHANGED <<site, target, made, listed, row, writer, old, tick>>

\* The agent's action catches it and returns inside its session_scope, which
\* commits the row as it was flushed.
AgentRaises(h) ==
  /\ job[h].op = "call" /\ Call(h) \in {"list", "look"}
  /\ job' = [job EXCEPT ![h] = Finished(h, NeverTriggered(h))]
  /\ UNCHANGED <<site, target, made, listed, row, writer, old, tick>>

\* The teardown: commit (or rollback) and the end of the write lock.
TriggerCommits(h) ==
  /\ job[h].op = "commit"
  /\ row' = [row EXCEPT ![job[h].run] = job[h].new]
  /\ job' = [job EXCEPT ![h] = Idle]
  /\ writer' = None
  /\ UNCHANGED <<site, target, made, listed, old, tick>>

----------------------------------------------------------------------------
(* Refreshing: pipelines_run_refresh and refresh_run. *)

\* The row and the configuration are loaded before the await; a settled row
\* is not polled.
Refresh(h, r) ==
  /\ job[h] = Idle /\ row[r] # NoRow /\ target # None
  /\ ~(row[r].status \in Terminal /\ row[r].done)
  /\ job' = [job EXCEPT ![h] = [op |-> "poll", run |-> r, at |-> target,
                                was |-> row[r].status, ext |-> row[r].ext]]
  /\ UNCHANGED <<site, target, made, listed, row, writer, old, tick>>

\* The adapter's answer: by the id alone, at the configuration loaded.
PollAnswer(at, id) ==
  IF id = 0 THEN NoId
  ELSE IF id \in DOMAIN made[at] THEN Answer(site.provider[at], made[at][id])
  ELSE NotFound

RefreshAnswered(h) ==
  /\ job[h].op = "poll"
  /\ job' = [job EXCEPT ![h] =
       [op |-> "apply", run |-> job[h].run, was |-> job[h].was, at |-> job[h].at,
        answer |-> PollAnswer(job[h].at, job[h].ext)]]
  /\ UNCHANGED <<site, target, made, listed, row, writer, old, tick>>

\* An unreachable or refusing provider only sets error and last_polled_at.
RefreshFails(h) ==
  /\ job[h].op = "poll"
  /\ job' = [job EXCEPT ![h] = Idle]
  /\ UNCHANGED <<site, target, made, listed, row, writer, old, tick>>

\* The ORM writes the columns that differ from the loaded row; the UPDATE of a
\* row deleted meanwhile rolls back.
RefreshCommits(h) ==
  /\ job[h].op = "apply" /\ writer = None
  /\ LET r == job[h].run
         a == job[h].answer IN
       row' = IF row[r] = NoRow THEN row
              ELSE [row EXCEPT ![r].status = IF a.status # job[h].was THEN a.status ELSE @,
                               ![r].done = @ \/ (a.completed /\ a.status \in Terminal),
                               ![r].by = IF a.status # job[h].was THEN job[h].at ELSE @]
  /\ job' = [job EXCEPT ![h] = Idle]
  /\ UNCHANGED <<site, target, made, listed, writer, old, tick>>

\* A flush while a trigger holds the lock fails when the busy timeout is over.
RefreshLocked(h) ==
  /\ job[h].op = "apply" /\ writer # None
  /\ job' = [job EXCEPT ![h] = Idle]
  /\ UNCHANGED <<site, target, made, listed, row, writer, old, tick>>

----------------------------------------------------------------------------
(* The pipeline itself, the poller, time and the process. *)

\* pipelines_update: another target, with runs of the old one in flight.
Retarget(t) ==
  /\ target # None /\ t # target /\ writer = None
  /\ target' = t
  /\ UNCHANGED <<site, made, listed, row, job, writer, old, tick>>

\* pipelines_delete: the rows go with it.
Delete ==
  /\ target # None /\ writer = None
  /\ target' = None
  /\ row' = [r \in Runs |-> NoRow]
  /\ old' = {}
  /\ UNCHANGED <<site, made, listed, job, writer, tick>>

\* poll_tick: with an eligible row the subtraction of its naive triggered_at
\* raises, before anything is abandoned or polled.
Tick ==
  /\ tick' = IF Eligible = {} THEN "idle" ELSE "raised"
  /\ UNCHANGED <<site, target, made, listed, row, job, writer, old>>

Age(r) ==
  /\ r \in AgeRuns \ old /\ row[r] # NoRow
  /\ old' = old \cup {r}
  /\ UNCHANGED <<site, target, made, listed, row, job, writer, tick>>

\* The process dies: handlers and what they had not committed are gone.
Restart ==
  /\ job # [h \in Handlers |-> Idle]
  /\ job' = [h \in Handlers |-> Idle]
  /\ writer' = None
  /\ UNCHANGED <<site, target, made, listed, row, old, tick>>

HandlerStep(h) ==
  \/ TriggerReads(h) \/ TriggerLaunches(h) \/ TriggerLooks(h)
  \/ TriggerRefused(h) \/ TriggerRaises(h) \/ AgentRaises(h) \/ TriggerCommits(h)
  \/ RefreshAnswered(h) \/ RefreshFails(h) \/ RefreshCommits(h) \/ RefreshLocked(h)

Next ==
  \/ \E t \in Places : Outsider(t) \/ Appear(t) \/ Retarget(t)
  \/ \E t \in Places : \E i \in 1..Len(made[t]) : Proceed(t, i)
  \/ \E h \in Handlers, r \in Runs : Trigger(h, r) \/ Refresh(h, r)
  \/ \E h \in Handlers : HandlerStep(h)
  \/ Delete \/ Tick \/ Restart
  \/ \E r \in Runs : Age(r)

\* Every await of a handler ends (each httpx call has a timeout) and the
\* poller's loop ticks for ever; users, outsiders and providers need not move.
Spec == Init /\ [][Next]_vars /\ (\A h \in Handlers : WF_vars(HandlerStep(h))) /\ WF_vars(Tick)

----------------------------------------------------------------------------
(* Properties. *)

\* The write lock is given back: a trigger ends, whatever the provider does.
LockFreed == writer # None ~> writer = None

\* poller.py's header: "Abandoned runs (no movement after
\* poller_abandon_after_hours) are marked failed so they don't accumulate
\* forever."
AbandonedEnds == \A r \in Runs : r \in Eligible /\ r \in old ~> r \notin Eligible

=============================================================================
