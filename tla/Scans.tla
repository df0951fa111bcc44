------------------------------- MODULE Scans --------------------------------
(***************************************************************************)
(* Network scans.  Creating a scan commits its row and one result row per  *)
(* source, destination and port, and starts a background task.  The task   *)
(* groups the result rows by source, checks the sources Cap at a time and  *)
(* writes each result by the id of its row as it arrives.  Meanwhile scans *)
(* are deleted and re-run, hosts are deleted, checks and writes fail, and  *)
(* the process may die.                                                    *)
(*                                                                         *)
(* The tables have plain integer keys, which SQLite gives out as the       *)
(* largest id in use plus one: the id of a deleted last row is used again. *)
(***************************************************************************)
EXTENDS ScanTables, FiniteSetsExt

vars == <<scan, result, hosts, ports, task, active, edits, faults>>

\* The id SQLite gives to the next row.
NextId(table) == IF Used(table) = {} THEN 1 ELSE Max(Used(table)) + 1

\* The numbers of a set in ascending order, and a sequence without what is not in
\* a set.
Ascending(S) == [k \in 1..Cardinality(S) |->
                   CHOOSE i \in S : Cardinality({j \in S : j <= i}) = k]
Kept(seq, S) ==
  LET at == Ascending({i \in DOMAIN seq : seq[i] \in S})
  IN  [k \in DOMAIN at |-> seq[at[k]]]

Init ==
  /\ scan = [s \in 1..MaxScans |-> NoRow]
  /\ result = [r \in 1..MaxRows |-> NoRow]
  /\ hosts = Hosts
  /\ \E n \in Ports : ports = [i \in 1..Cardinality(Ports) |->
                              IF i = 1 THEN [number |-> n] ELSE NoRow]
  /\ task = <<>>
  /\ active = [s \in 1..MaxScans |-> 0]
  /\ edits = 0 /\ faults = 0

----------------------------------------------------------------------------
(* Requests: creating, re-running and deleting scans; the port library.    *)

Row(s, src, dst, port) ==
  [scan |-> s, src |-> src, label |-> src, dst |-> dst, port |-> port,
   found |-> Pending]

\* The result rows of a request; sources and ports that are gone are left
\* out.
RowsOf(s, q) ==
  LET here == Kept(q.sources, hosts \cup {Server})
      open == Kept(q.ports, Used(ports))
      per == Len(q.dests) * Len(open)
  IN  [i \in 1..(Len(here) * per) |->
         Row(s, here[((i - 1) \div per) + 1],
             q.dests[(((i - 1) % per) \div Len(open)) + 1],
             ports[open[((i - 1) % Len(open)) + 1]].number)]

\* Both tables in one commit, then create_task and the registry.
Enter(q) ==
  LET s == NextId(scan)
      new == RowsOf(s, q)
      first == NextId(result)
  IN  /\ s <= MaxScans /\ first + Len(new) - 1 <= MaxRows
      /\ Len(task) < MaxTasks
      /\ scan' = [scan EXCEPT ![s] = [status |-> "pending", config |-> q]]
      /\ result' = [r \in DOMAIN result |->
                      IF r \in first..(first + Len(new) - 1)
                        THEN new[r - first + 1] ELSE result[r]]
      /\ task' = Append(task, [scan |-> s, pc |-> "new", work |-> <<>>, orphan |-> FALSE])
      /\ active' = [active EXCEPT ![s] = Len(task) + 1]
      /\ UNCHANGED <<hosts, ports, edits, faults>>

MapCreate(q) ==
  /\ q.sources # <<>> /\ q.ports # <<>> /\ q.dests # <<>>
  /\ Enter(q)

MapRerun(s) ==
  /\ scan[s] # NoRow
  /\ Enter(scan[s].config)

\* Bookkeeping for the properties: the tasks whose scan goes under them.
Orphaned(s) ==
  [t \in DOMAIN task |->
     [task[t] EXCEPT !.orphan = @ \/ (task[t].scan = s /\ task[t].pc \in {"new", "checks", "done"})]]

MapDelete(s) ==
  /\ scan[s] # NoRow
  /\ scan' = [scan EXCEPT ![s] = NoRow]
  /\ result' = [r \in DOMAIN result |->
                  IF result[r] # NoRow /\ result[r].scan = s THEN NoRow ELSE result[r]]
  /\ task' = Orphaned(s)
  /\ UNCHANGED <<hosts, ports, active, edits, faults>>

\* Result rows keep their label when their host goes.
HostDelete(h) ==
  /\ h \in hosts /\ edits < MaxEdits
  /\ hosts' = hosts \ {h}
  /\ result' = [r \in DOMAIN result |->
                  IF result[r] # NoRow /\ result[r].src = h
                    THEN [result[r] EXCEPT !.src = NoSource] ELSE result[r]]
  /\ edits' = edits + 1
  /\ UNCHANGED <<scan, ports, task, active, faults>>

PortCreate(n) ==
  /\ \A i \in Used(ports) : ports[i].number # n
  /\ NextId(ports) \in DOMAIN ports
  /\ ports' = [ports EXCEPT ![NextId(ports)] = [number |-> n]]
  /\ UNCHANGED <<scan, result, hosts, task, active, edits, faults>>

PortDelete(i) ==
  /\ ports[i] # NoRow /\ edits < MaxEdits
  /\ ports' = [ports EXCEPT ![i] = NoRow]
  /\ edits' = edits + 1
  /\ UNCHANGED <<scan, result, hosts, task, active, faults>>

----------------------------------------------------------------------------
(* The task of a scan. *)

How(src) == Route(IF src = Server THEN ThisServer ELSE Source[src])

\* The rows of a scan by source.  A row whose host is gone is in no group.
Groups(s) ==
  LET mine == {r \in Used(result) : result[r].scan = s}
  IN  [src \in {result[r].src : r \in mine} \ {NoSource} |->
         Ascending({r \in mine : result[r].src = src})]

Queued(ids) == [pc |-> "queued", ids |-> ids, params |-> <<>>, next |-> 1, seen |-> {}]

\* _run up to the first await: the scan is running and its sources queue.
Run(t) ==
  /\ task[t].pc = "new"
  /\ LET s == task[t].scan IN
       IF scan[s] = NoRow
         THEN /\ task' = [task EXCEPT ![t].pc = "done"]
              /\ UNCHANGED scan
         ELSE /\ scan' = [scan EXCEPT ![s].status = "running"]
              /\ task' = [task EXCEPT ![t] =
                            [@ EXCEPT !.pc = "checks",
                                      !.work = [src \in DOMAIN Groups(s) |-> Queued(Groups(s)[src])]]]
  /\ UNCHANGED <<result, hosts, ports, active, edits, faults>>

\* Every source is through with its checks or has raised.
Gathered(t) == \A w \in Range(task[t].work) : w.pc \in {"end", "raised"}

\* Mutant: the exception is logged and the status left as it is.
RunFailsLogged(t) ==
  /\ faults < MaxFaults
  /\ \/ task[t].pc = "new" /\ scan[task[t].scan] # NoRow
     \/ task[t].pc = "checks" /\ Gathered(t)
  /\ task' = [task EXCEPT ![t].pc = "done"]
  /\ faults' = faults + 1
  /\ UNCHANGED <<scan, result, hosts, ports, active, edits>>

\* An exception outside the sources: reading the rows or the last commit.
RunFails(t) ==
  /\ faults < MaxFaults
  /\ \/ task[t].pc = "new" /\ scan[task[t].scan] # NoRow
     \/ task[t].pc = "checks" /\ Gathered(t)
  /\ scan' = [s \in DOMAIN scan |->
                IF s = task[t].scan /\ scan[s] # NoRow
                  THEN [scan[s] EXCEPT !.status = "failed"] ELSE scan[s]]
  /\ task' = [task EXCEPT ![t].pc = "done"]
  /\ faults' = faults + 1
  /\ UNCHANGED <<result, hosts, ports, active, edits>>

\* Mutant: the scan is completed when the first source is.
RunCompletesEarly(t) ==
  /\ task[t].pc = "checks"
  /\ \E w \in Range(task[t].work) : w.pc \in {"end", "raised"}
  /\ scan' = [s \in DOMAIN scan |->
                IF s = task[t].scan /\ scan[s] # NoRow
                  THEN [scan[s] EXCEPT !.status = "completed"] ELSE scan[s]]
  /\ task' = [task EXCEPT ![t].pc = "done"]
  /\ UNCHANGED <<result, hosts, ports, active, edits, faults>>

\* gather keeps the exceptions of the sources to itself.
RunCompletes(t) ==
  /\ task[t].pc = "checks"
  /\ Gathered(t)
  /\ scan' = [s \in DOMAIN scan |->
                IF s = task[t].scan /\ scan[s] # NoRow
                  THEN [scan[s] EXCEPT !.status = "completed"] ELSE scan[s]]
  /\ task' = [task EXCEPT ![t].pc = "done"]
  /\ UNCHANGED <<result, hosts, ports, active, edits, faults>>

\* The done callback: it drops whatever is registered for the id.
Reap(t) ==
  /\ task[t].pc = "done"
  /\ active' = [active EXCEPT ![task[t].scan] = 0]
  /\ task' = [task EXCEPT ![t] = [@ EXCEPT !.pc = "reaped", !.work = <<>>]]
  /\ UNCHANGED <<scan, result, hosts, ports, edits, faults>>

----------------------------------------------------------------------------
(* A source of a task.  Results are written where their ids are in use.    *)

Works(t, src) == task[t].pc = "checks" /\ src \in DOMAIN task[t].work
InHand(t) == {src \in DOMAIN task[t].work : task[t].work[src].pc = "checking"}

\* The rows after finding[i] has been written for every i in the set.
Written(found, is) ==
  [r \in DOMAIN result |->
     IF result[r] # NoRow /\ r \in {found[i].id : i \in is}
       THEN [result[r] EXCEPT !.found =
               found[CHOOSE i \in is : found[i].id = r].what]
       ELSE result[r]]

\* What is checked for the rows that are still there.
Params(ids) ==
  LET there == Kept(ids, Used(result))
  IN  [i \in DOMAIN there |->
         [id |-> there[i], dst |-> result[there[i]].dst, port |-> result[there[i]].port]]

Failure(src, p) == [id |-> p.id, what |-> [probe |-> <<src, p.dst, p.port>>, by |-> "failure"]]
Checked(src, p) == [id |-> p.id, what |-> [probe |-> <<src, p.dst, p.port>>, by |-> "check"]]
Failures(src, params) == [i \in DOMAIN params |-> Failure(src, params[i])]

\* The semaphore admits the source and its parameters are read.
CheckSource(t, src) ==
  /\ Works(t, src) /\ task[t].work[src].pc = "queued"
  /\ Cardinality(InHand(t)) < Cap
  /\ src \in hosts \cup {Server} /\ How(src) # "refused"
  /\ LET params == Params(task[t].work[src].ids)
     IN  task' = [task EXCEPT ![t].work[src] =
                    [@ EXCEPT !.pc = IF params = <<>> THEN "end" ELSE "checking",
                              !.params = params]]
  /\ UNCHANGED <<scan, result, hosts, ports, active, edits, faults>>

\* The host is gone, or its credentials or its route are of no use: all its
\* checks fail.
SourceRefused(t, src) ==
  /\ Works(t, src) /\ task[t].work[src].pc = "queued"
  /\ Cardinality(InHand(t)) < Cap
  /\ src # Server
  /\ src \notin hosts \/ Source[src].protocol # "local"
  /\ LET params == Params(task[t].work[src].ids)
     IN  result' = Written(Failures(src, params), DOMAIN params)
  /\ task' = [task EXCEPT ![t].work[src].pc = "end"]
  /\ UNCHANGED <<scan, hosts, ports, active, edits, faults>>

\* Mutant: a check is reported under the index of the one after it.
ProbeReportsNext(t, src) ==
  /\ Works(t, src) /\ task[t].work[src].pc = "checking"
  /\ LET w == task[t].work[src]
         j == IF w.next < Len(w.params) THEN w.next + 1 ELSE w.next
         f == Checked(src, w.params[w.next])
     IN  /\ result' = Written([i \in {j} |-> [f EXCEPT !.id = w.params[j].id]], {j})
         /\ task' = [task EXCEPT ![t].work[src] =
                       [w EXCEPT !.seen = @ \cup {w.next}, !.next = @ + 1,
                                 !.pc = IF w.next = Len(w.params) THEN "end" ELSE @]]
  /\ UNCHANGED <<scan, hosts, ports, active, edits, faults>>

\* One check is answered and its callback writes the result.
Probe(t, src) ==
  /\ Works(t, src) /\ task[t].work[src].pc = "checking"
  /\ LET w == task[t].work[src]
         f == Checked(src, w.params[w.next])
     IN  /\ result' = Written([i \in {w.next} |-> f], {w.next})
         /\ task' = [task EXCEPT ![t].work[src] =
                       [w EXCEPT !.seen = @ \cup {w.next}, !.next = @ + 1,
                                 !.pc = IF w.next = Len(w.params) THEN "end" ELSE @]]
  /\ UNCHANGED <<scan, hosts, ports, active, edits, faults>>

\* The connection fails: every check is answered, none was reported, and
\* the results the callback never saw are written together.
ConnectFails(t, src) ==
  /\ Works(t, src) /\ task[t].work[src].pc = "checking" /\ task[t].work[src].next = 1
  /\ Group(How(src)).connect = "all"
  /\ LET params == task[t].work[src].params
     IN  result' = Written(Failures(src, params), DOMAIN params)
  /\ task' = [task EXCEPT ![t].work[src].pc = "end"]
  /\ UNCHANGED <<scan, hosts, ports, active, edits, faults>>

\* A callback's write raises; it has noted the index as committed before.
ReportFails(t, src) ==
  /\ Works(t, src) /\ task[t].work[src].pc = "checking" /\ faults < MaxFaults
  /\ LET w == task[t].work[src]
         rest == DOMAIN w.params \ (w.seen \cup {w.next})
         all == Group(How(src)).report = "all"
     IN  /\ result' = IF all THEN Written(Failures(src, w.params), rest) ELSE result
         /\ task' = [task EXCEPT ![t].work[src] =
                       [w EXCEPT !.seen = @ \cup {w.next},
                                 !.pc = IF all THEN "end" ELSE "raised"]]
  /\ faults' = faults + 1
  /\ UNCHANGED <<scan, hosts, ports, active, edits>>

\* A check of the DOSM process raises something it does not expect, such as
\* the error for a port number out of range.
ProbeRaises(t, src) ==
  /\ Works(t, src) /\ task[t].work[src].pc = "checking" /\ faults < MaxFaults
  /\ Group(How(src)).probe = "raise"
  /\ task' = [task EXCEPT ![t].work[src].pc = "raised"]
  /\ faults' = faults + 1
  /\ UNCHANGED <<scan, result, hosts, ports, active, edits>>

\* The process dies; nothing at startup looks at the scans.
Died(x) == [x EXCEPT !.pc = "dead", !.work = <<>>]

Restart ==
  /\ faults < MaxFaults /\ task # <<>>
  /\ task' = [t \in DOMAIN task |-> Died(task[t])]
  /\ active' = [s \in DOMAIN active |-> 0]
  /\ faults' = faults + 1
  /\ UNCHANGED <<scan, result, hosts, ports, edits>>

----------------------------------------------------------------------------
SourceStep(t, src) == CheckSource(t, src) \/ SourceRefused(t, src) \/ Probe(t, src)

Next ==
  \/ \E q \in Requests : MapCreate(q)
  \/ \E s \in DOMAIN scan : MapRerun(s) \/ MapDelete(s)
  \/ \E h \in Hosts : HostDelete(h)
  \/ \E n \in Ports : PortCreate(n)
  \/ \E i \in DOMAIN ports : PortDelete(i)
  \/ \E t \in DOMAIN task :
       \/ Run(t) \/ RunFails(t) \/ RunCompletes(t) \/ Reap(t)
       \/ \E src \in Hosts \cup {Server} :
            \/ SourceStep(t, src)
            \/ ConnectFails(t, src) \/ ReportFails(t, src) \/ ProbeRaises(t, src)
  \/ Restart

\* The event loop runs what is ready, and every check has a time limit.
Fairness ==
  \A t \in 1..MaxTasks :
    /\ WF_vars(t \in DOMAIN task /\ (Run(t) \/ RunCompletes(t)))
    /\ WF_vars(t \in DOMAIN task /\ Reap(t))
    /\ \A src \in Hosts \cup {Server} : WF_vars(t \in DOMAIN task /\ SourceStep(t, src))

Spec == Init /\ [][Next]_vars /\ Fairness

----------------------------------------------------------------------------
(* Properties. *)

\* A scan with a task ends as completed or failed, unless it is deleted or
\* the process dies.
ScanEnds ==
  \A t \in 1..MaxTasks :
    (t \in DOMAIN task /\ Alive(t)) ~>
      /\ t \in DOMAIN task
      /\ \/ task[t].pc = "dead"
         \/ scan[task[t].scan] = NoRow
         \/ scan[task[t].scan].status \in {"completed", "failed"}
=============================================================================
