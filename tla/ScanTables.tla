----------------------------- MODULE ScanTables -----------------------------
(***************************************************************************)
(* Network scans: the tables, the tasks and the registry of dosm/network,  *)
(* and what must always hold of them.  Scans has the steps.                *)
(***************************************************************************)
EXTENDS Naturals, Sequences, FiniteSets, NetworkExecutor

CONSTANTS
  Hosts,      \* inventory hosts that are scan sources
  Source,     \* how each of them is reached
  Server,     \* the source "DOSM Server"
  Requests,   \* scans users may ask for: sources, destinations, ports
  Ports,      \* port numbers of the port library
  Cap,        \* asyncio.Semaphore(5)
  MaxScans, MaxRows, MaxTasks, MaxEdits, MaxFaults   \* bounds

NoRow == [gone |-> TRUE]
Pending == [probe |-> <<>>, by |-> "nobody"]
NoSource == [none |-> TRUE]

ASSUME ScansAssumption ==
  /\ Source \in [Hosts -> Sources]
  /\ Server \notin Hosts /\ NoSource \notin Hosts \cup {Server}
  /\ \A q \in Requests : /\ q.sources \in Seq(Hosts \cup {Server})
                         /\ q.ports \in Seq(Nat) /\ Len(q.dests) \in Nat
  /\ Cap \in Nat \ {0}
  /\ {MaxScans, MaxRows, MaxTasks, MaxEdits, MaxFaults} \subseteq Nat

VARIABLES
  scan,    \* the committed scan rows
  result,  \* the committed result rows
  hosts,   \* hosts in the inventory
  ports,   \* the port library, by id
  task,    \* the tasks of this process, in the order they were started
  active,  \* _active_tasks: the task registered for each scan id
  edits, faults

Used(table) == {i \in DOMAIN table : table[i] # NoRow}

----------------------------------------------------------------------------
(* Properties. *)

Alive(t) == task[t].pc \in {"new", "checks", "done"}

\* No scan was deleted under its task: the row of a task that is not over is
\* the one it was started for.
Undisturbed == \A t \in DOMAIN task : ~task[t].orphan

\* Type invariant.  A result row never outlives its scan.
ScansTyped ==
  /\ \A s \in Used(scan) : scan[s].status \in {"pending", "running", "completed", "failed"}
  /\ \A r \in Used(result) : result[r].scan \in Used(scan)
  /\ \A t \in DOMAIN task :
       /\ task[t].pc \in {"new", "checks", "done", "reaped", "dead"}
       /\ \A w \in Range(task[t].work) : w.pc \in {"queued", "checking", "end", "raised"}
  /\ active \in [1..MaxScans -> 0..Len(task)]
  /\ hosts \subseteq Hosts
  /\ {edits, faults} \subseteq Nat

\* A result row says what a check of its own source, destination and port
\* found.
OwnFinding ==
  \A r \in Used(result) :
    result[r].found # Pending =>
      result[r].found.probe = <<result[r].label, result[r].dst, result[r].port>>

\* As long as no scan is deleted under its task, every result is the result
\* of the row's own check, whatever else fails or is deleted.
OwnUndisturbed == Undisturbed => OwnFinding

\* A completed scan has a result in every row, except where its source was
\* deleted before the scan began, where a check or a write raised, and where
\* another scan was deleted under its task.
CompletedIsChecked ==
  Undisturbed =>
    \A t \in DOMAIN task, r \in Used(result) :
      /\ result[r].scan = task[t].scan
      /\ task[t].pc = "done"
      /\ scan[result[r].scan].status = "completed"
      /\ result[r].found = Pending
      => \/ result[r].label \notin DOMAIN task[t].work
         \/ task[t].work[result[r].label].pc = "raised"
         \/ \E i \in task[t].work[result[r].label].seen :
              task[t].work[result[r].label].params[i].id = r

\* is_running: exactly the scans with a task that is not over are registered.
RegistryExact ==
  Undisturbed =>
    \A s \in DOMAIN active :
      (active[s] # 0) <=> \E t \in DOMAIN task : Alive(t) /\ task[t].scan = s

\* Rows, tasks and registry belong together: no result outlives its scan, and as
\* long as no scan is deleted under its task, each result is the row's own and the
\* registry is exact.
ScansSound == ScansTyped /\ OwnUndisturbed /\ RegistryExact
=============================================================================
