----------------------------- MODULE RunTables ------------------------------
(***************************************************************************)
(* One pipeline: its PipelineRun rows, what the handlers hold of them, the *)
(* runs its provider really has, and what must always hold of the rows.    *)
(* PipelineRuns has the steps.                                             *)
(***************************************************************************)
EXTENDS PipelineAdapters

CONSTANTS
  Targets,   \* what a pipeline's configuration can point at
  Runs,      \* ids of PipelineRun rows
  Handlers,  \* requests and agent actions in progress
  None,
  Sites,     \* installations: each target's provider, and the bounds made (runs
             \* the provider ever has at a target) and runs (rows ever used)
  Seen,      \* Seen[p]: the native states of p this instance lets happen
  MaxLooks,  \* POST_DISPATCH_POLL_TRIES
  AgeRuns    \* bound: rows that grow older than the abandon limit

ASSUME RunsAssumption ==
  /\ \A s \in Sites : /\ DOMAIN s.provider \subseteq Targets /\ DOMAIN s.provider # {}
                      /\ \A t \in DOMAIN s.provider : s.provider[t] \in Providers /\ s.made[t] \in Nat
                      /\ s.runs \subseteq Runs
  /\ \A p \in Providers : Seen[p] \subseteq Natives(p) /\ FirstNative[p] \in Seen[p]
  /\ MaxLooks \in Nat \ {0}
  /\ AgeRuns \subseteq Runs
  /\ None \notin Targets \cup Runs \cup Handlers

VARIABLES
  site,      \* the installation, never changed
  target,    \* the Pipeline row's config, None once it is deleted
  made,      \* made[t]: the provider's runs at t, their native states, by id
  listed,    \* listed[t]: how many of them its list shows already
  row,       \* the committed PipelineRun rows
  job,       \* what each handler is doing
  writer,    \* the handler that holds the database's write lock
  old,       \* rows older than poller_abandon_after_hours
  tick       \* how the poller's last tick ended

\* at and by are history: the target of the trigger and of the answer that the
\* status is from.
Row(status, ext, t, done) == [status |-> status, ext |-> ext, at |-> t, by |-> t, done |-> done]
NoRow == Row("none", 0, None, FALSE)
\* The targets of this installation.
Places == DOMAIN site.provider
Idle == [op |-> "idle"]

----------------------------------------------------------------------------
(* Properties. *)

RowType == [status : RUN_STATUSES \cup {"none"}, ext : Nat, at : Targets \cup {None},
            by : Targets \cup {None}, done : BOOLEAN]
\* The calls that are left of a trigger: GitHub's, Octopus's and everybody's last.
CallsLeft == {<<"list", "dispatch", "look">>, <<"dispatch", "look">>, <<"look">>,
              <<"release", "launch">>, <<"launch">>}
JobType ==
  {Idle}
  \cup [op : {"call"}, run : Runs, at : Targets,
        calls : CallsLeft,
        prev : Nat, looks : 0..MaxLooks]
  \cup [op : {"commit"}, run : Runs, new : RowType]
  \cup [op : {"poll"}, run : Runs, at : Targets, was : RUN_STATUSES, ext : Nat]
  \cup [op : {"apply"}, run : Runs, at : Targets, was : RUN_STATUSES,
        answer : [status : RUN_STATUSES, completed : BOOLEAN]]

\* The state has its shape: every job is at a step of its handler, with the
\* calls of its adapter that are left, and the lock's holder is triggering.
RunsTyped ==
  /\ site \in Sites
  /\ target \in Targets \cup {None}
  /\ \A t \in Places : /\ made[t] \in Seq(Seen[site.provider[t]]) /\ Len(made[t]) <= site.made[t]
                        /\ listed[t] \in 0..Len(made[t])
  /\ row \in [Runs -> RowType]
  /\ job \in [Handlers -> JobType]
  /\ writer \in Handlers \cup {None}
  /\ writer # None => job[writer].op \in {"call", "commit"}
  /\ old \subseteq Runs
  /\ tick \in {"idle", "raised"}

\* A row that refresh_run will never poll again (terminal, completed_at set)
\* and that has a provider's run says what that run really ended with: no
\* answer that arrives late, out of order or from before an edit settles a row
\* wrongly, and no status that the provider may still leave settles one.
SettledIsRight ==
  \A r \in Runs :
    row[r].status \in Terminal /\ row[r].done /\ row[r].ext # 0 =>
      /\ row[r].ext \in DOMAIN made[row[r].by]
      /\ made[row[r].by][row[r].ext] \in FinalNatives[site.provider[row[r].by]]
      /\ row[r].status = MapStatus(site.provider[row[r].by], made[row[r].by][row[r].ext])

\* No two rows stand for the same run of a provider: GitHub's search for "the
\* newest run" is raced by nobody else in DOSM, because a trigger holds the
\* write lock from its first flush to its commit.
RunsDistinct ==
  \A r, s \in Runs :
    r # s /\ row[r].ext # 0 /\ row[r].at = row[s].at => row[r].ext # row[s].ext

\* Deleting a pipeline leaves no row behind, not even one of a trigger whose
\* answer was still awaited.
NoOrphans == target = None => \A r \in Runs : row[r] = NoRow

\* What pipeline_runs holds: rows in shape, each for a run of its own, and none
\* without its pipeline.
RowsSound == RunsTyped /\ RunsDistinct /\ NoOrphans
=============================================================================
