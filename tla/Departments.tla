---------------------------- MODULE Departments -----------------------------
(***************************************************************************)
(* The AD-integrated department directory (org/routes.py, directory/): the *)
(* department rows with the members and the parent a sync derives from the *)
(* directory, and the contact card of each in the docs store.              *)
(*                                                                         *)
(* Directory calls run in a thread; everything else of a web handler runs  *)
(* on the event loop.  sync_department flushes an audit row before it asks *)
(* the directory, so it holds SQLite's write lock from SyncStarts to its   *)
(* commit, while the department it works on was loaded before it got the   *)
(* lock.  What another session wants to write meanwhile waits for the lock *)
(* or fails when the busy timeout is over.  A flush writes the columns     *)
(* that differ from the loaded row.                                        *)
(***************************************************************************)
EXTENDS Naturals, Sequences, FiniteSets, FiniteSetsExt, Tables

CONSTANTS
  DeptIds, Names,
  Groups, People,  \* of the directory
  Joiners, Lines,  \* who joins and leaves groups; the lines <<person, manager>> drawn
  ChainDepth,      \* the managers sync_group walks up (20)
  Forms,           \* the creations users ask for: tenant, name, group, manager
  Handlers,        \* requests, agent actions and commands in progress
  MaxRequests,     \* bound: handlers ever begun
  MaxMoves         \* bound: changes in the directory

ASSUME DepartmentsAssumption ==
  /\ DeptIds \subseteq Nat \ {0} /\ NoId \notin DeptIds \cup People
  /\ Names \subseteq DOMAIN SlugOf
  /\ Forms \subseteq [tenant : Tenants, name : Names, group : Groups, manager : People]
  /\ Joiners \subseteq People /\ Lines \subseteq People \X (People \cup {NoId})
  /\ ChainDepth \in Nat \ {0}
  /\ MaxRequests \in Nat /\ MaxMoves \in Nat

VARIABLES
  depts,       \* departments: id -> [tenant, name, slug, group, manager, parent, status, members, got]
  cards,       \* the files org/<slug>.md, by slug
  unsynced,    \* those written by a creation that found no directory source
  belongs,     \* the directory: the members of each group
  boss,        \* the directory: the manager of each person, or NoId
  configured,  \* a jump box is chosen in the configuration
  job,         \* what each handler is doing
  writer,      \* the handler that holds the write lock, or NoId
  requests, moves

adVars == <<belongs, boss, moves>>
vars == <<depts, cards, unsynced, adVars, configured, job, writer, requests>>

Idle == [pc |-> "idle"]

----------------------------------------------------------------------------
(* The directory *)

Enrol(g, p) ==
  /\ moves < MaxMoves /\ moves' = moves + 1
  /\ belongs' = [belongs EXCEPT ![g] = IF p \in @ THEN @ \ {p} ELSE @ \cup {p}]
  /\ UNCHANGED <<depts, cards, unsynced, boss, configured, job, writer, requests>>

Reports(p, q) ==
  /\ moves < MaxMoves /\ moves' = moves + 1
  /\ boss[p] # q /\ boss' = [boss EXCEPT ![p] = q]
  /\ UNCHANGED <<depts, cards, unsynced, belongs, configured, job, writer, requests>>

\* sync_group's manager chain: the people above m, nearest first, up to the first who
\* has no manager.
ManagerChain(m) ==
  LET up[n \in 0..ChainDepth] ==
        IF n = 0 THEN m ELSE IF up[n - 1] = NoId THEN NoId ELSE boss[up[n - 1]]
  IN  [n \in {i \in 1..ChainDepth : up[i] # NoId} |-> up[n]]

\* The answers sync_group may give for a row: the group's members, and the chain
\* unless the manager does not resolve.
SyncGroup(row) ==
  [members : {belongs[row.group]}, chain : {ManagerChain(row.manager), << >>}]

----------------------------------------------------------------------------
(* Rows and cards *)

\* _find_unique_slug, within the tenant.
UniqueSlug(t, base) ==
  LET taken == {depts[d].slug : d \in {d \in DOMAIN depts : depts[d].tenant = t}}
      Free(i) == Append(base, i) \notin taken
      first == CHOOSE i \in 2..(Cardinality(taken) + 2) : Free(i) /\ \A j \in 2..(i - 1) : ~Free(j)
  IN  IF base \in taken THEN Append(base, first) ELSE base

\* uq_department_tenant_name
NameFree(t, n, except) ==
  \A d \in DOMAIN depts \ {except} : depts[d].tenant = t => depts[d].name # n

\* What a flush leaves in a column.
Column(loaded, new, now) == IF new # loaded THEN new ELSE now

\* Mutant: the department itself is not left out.
InferParentAny(d, chain) ==
  LET of(p) == {x \in DOMAIN depts : depts[x].manager = p}
      hits == {i \in DOMAIN chain : of(chain[i]) # {}}
  IN  IF hits = {} THEN NoId ELSE Max(of(chain[Min(hits)]))

\* _infer_parent_id: the first of the chain who manages another department, in
\* any tenant; of several departments of one manager only the last counts.
InferParent(d, chain) ==
  LET of(p) == {x \in DOMAIN depts : depts[x].manager = p}
      hits == {i \in DOMAIN chain : of(chain[i]) # {} /\ Max(of(chain[i])) # d}
  IN  IF hits = {} THEN NoId ELSE Max(of(chain[Min(hits)]))

\* _sync_doc writes the card, or the docs store raises.
WriteCard(slug, stored, missing) ==
  /\ cards' = IF stored THEN cards \cup {slug} ELSE cards
  /\ unsynced' = IF ~stored THEN unsynced
                 ELSE IF missing THEN unsynced \cup {slug} ELSE unsynced \ {slug}

Ends(h) == job' = [job EXCEPT ![h] = Idle]
Begins(h, to) ==
  /\ job[h] = Idle /\ requests < MaxRequests
  /\ requests' = requests + 1
  /\ job' = [job EXCEPT ![h] = to]

----------------------------------------------------------------------------
(* Creating and editing *)

IsConfigured == configured

\* org_create asks the directory for the group and the manager first.
OrgCreate(h, f) ==
  /\ IsConfigured
  /\ Begins(h, [pc |-> "create", tenant |-> f.tenant, name |-> f.name, group |-> f.group,
                manager |-> f.manager])
  /\ UNCHANGED <<depts, cards, unsynced, adVars, configured, writer>>

\* The directory does not know one of them or does not answer.
ResolveFails(h) ==
  /\ job[h].pc \in {"create", "update"}
  /\ Ends(h)
  /\ UNCHANGED <<depts, cards, unsynced, adVars, configured, writer, requests>>

\* The row is committed; its first sync follows on the same session.
CreateCommits(h) ==
  /\ job[h].pc = "create" /\ writer = NoId
  /\ NewId(depts) \in DeptIds
  /\ LET j == job[h] IN
       IF NameFree(j.tenant, j.name, NoId)
       THEN /\ depts' = Put(depts, NewId(depts),
                 [tenant |-> j.tenant, name |-> j.name, slug |-> UniqueSlug(j.tenant, SlugOf[j.name]),
                  group |-> j.group, manager |-> j.manager, parent |-> NoId,
                  status |-> "pending", members |-> {}, got |-> {}])
            /\ job' = [job EXCEPT ![h] = [pc |-> "load", door |-> "create", dept |-> NewId(depts)]]
       ELSE UNCHANGED depts /\ Ends(h)
  /\ UNCHANGED <<cards, unsynced, adVars, configured, writer, requests>>

\* The directory is asked again only if the group or the manager changed.
OrgUpdate(h, d, g, m) ==
  /\ d \in DOMAIN depts /\ IsConfigured
  /\ depts[d].group # g \/ depts[d].manager # m
  /\ Begins(h, [pc |-> "update", dept |-> d, row |-> depts[d], group |-> g, manager |-> m])
  /\ UNCHANGED <<depts, cards, unsynced, adVars, configured, writer>>

UpdateCommits(h, stored) ==
  /\ job[h].pc = "update" /\ writer = NoId
  /\ LET j == job[h] IN
       IF j.dept \in DOMAIN depts
       THEN /\ depts' = [depts EXCEPT ![j.dept].group = Column(j.row.group, j.group, @),
                                      ![j.dept].manager = Column(j.row.manager, j.manager, @),
                                      ![j.dept].status = Column(j.row.status, "pending", @)]
            /\ WriteCard(depts[j.dept].slug, stored, FALSE)
       ELSE UNCHANGED <<depts, cards, unsynced>>
  /\ Ends(h)
  /\ UNCHANGED <<adVars, configured, writer, requests>>

\* Another name or description: no await, and the slug stays.
OrgRename(h, d, n, stored) ==
  /\ d \in DOMAIN depts /\ writer = NoId
  /\ NameFree(depts[d].tenant, n, d)
  /\ Begins(h, Idle)
  /\ depts' = [depts EXCEPT ![d].name = n]
  /\ WriteCard(depts[d].slug, stored, FALSE)
  /\ UNCHANGED <<adVars, configured, writer>>

\* A write that waited for the lock until the busy timeout.
WriteLocked(h) ==
  /\ job[h].pc \in {"create", "update", "wait"} /\ writer # NoId
  /\ Ends(h)
  /\ UNCHANGED <<depts, cards, unsynced, adVars, configured, writer, requests>>

----------------------------------------------------------------------------
(* Syncing *)

\* The web's sync and `dosm org sync` load the row at once ...
OrgSync(h, d) ==
  /\ d \in DOMAIN depts /\ IsConfigured
  /\ Begins(h, [pc |-> "wait", door |-> "web", dept |-> d, row |-> depts[d]])
  /\ UNCHANGED <<depts, cards, unsynced, adVars, configured, writer>>

OrgSyncCli(h, d) ==
  /\ d \in DOMAIN depts /\ configured
  /\ Begins(h, [pc |-> "wait", door |-> "cli", dept |-> d, row |-> depts[d]])
  /\ UNCHANGED <<depts, cards, unsynced, adVars, configured, writer>>

\* ... the agent's sync_org_group in the thread, by the id of the one department
\* of the tenant with the group.
AgentSync(h, d) ==
  /\ d \in DOMAIN depts
  /\ \A x \in DOMAIN depts \ {d} : depts[x].tenant = depts[d].tenant => depts[x].group # depts[d].group
  /\ Begins(h, [pc |-> "load", door |-> "agent", dept |-> d])
  /\ UNCHANGED <<depts, cards, unsynced, adVars, configured, writer>>

\* The row of a created department, expired by its commit, is read again.
SyncLoads(h) ==
  /\ job[h].pc = "load"
  /\ IF job[h].dept \in DOMAIN depts
     THEN job' = [job EXCEPT ![h] = [pc |-> "wait", door |-> @.door, dept |-> @.dept,
                                     row |-> depts[@.dept]]]
     ELSE Ends(h)
  /\ UNCHANGED <<depts, cards, unsynced, adVars, configured, writer, requests>>

\* The audit row is flushed: the write lock is taken.  A command has read the
\* configuration when it began.
SyncStarts(h) ==
  /\ job[h].pc = "wait" /\ writer = NoId
  /\ configured \/ job[h].door = "cli"
  /\ writer' = h
  /\ job' = [job EXCEPT ![h].pc = "ask"]
  /\ UNCHANGED <<depts, cards, unsynced, adVars, configured, requests>>

\* No jump box, or one without a host, credential or secret: AdDirectoryError
\* leaves before anything else is written.  org_create passes over it and goes
\* on with its transaction open.
SourceMissing(h) ==
  /\ job[h].pc = "wait" /\ writer = NoId
  /\ IF job[h].door = "create"
     THEN writer' = h /\ job' = [job EXCEPT ![h].pc = "card"]
     ELSE UNCHANGED writer /\ Ends(h)
  /\ UNCHANGED <<depts, cards, unsynced, adVars, configured, requests>>

\* After the commit a creation and a web sync go on to the card.
Committed(h, doors) ==
  /\ writer' = NoId
  /\ job' = [job EXCEPT ![h] = IF @.door \in doors THEN [@ EXCEPT !.pc = "card"] ELSE Idle]

\* Mutant: the members to remove are those loaded before the lock was taken.
SyncAnsweredStaleDiff(h) ==
  /\ job[h].pc = "ask"
  /\ LET j == job[h]
         d == j.dept
     IN  \E result \in SyncGroup(j.row) :
           IF d \in DOMAIN depts
           THEN /\ depts' = [depts EXCEPT
                     ![d].members = (@ \ (j.row.members \ result.members)) \cup result.members,
                     ![d].got = result.members,
                     ![d].parent = Column(j.row.parent, InferParent(d, result.chain), @),
                     ![d].status = Column(j.row.status, "ok", @)]
                /\ Committed(h, {"create", "web"})
           ELSE UNCHANGED depts /\ writer' = NoId /\ Ends(h)
  /\ UNCHANGED <<cards, unsynced, adVars, configured, requests>>

\* The answer is for the group and the manager of the loaded row.  Members, parent
\* and status are committed; the UPDATE of a row deleted since rolls everything
\* back.
SyncAnswered(h) ==
  /\ job[h].pc = "ask"
  /\ LET j == job[h]
         d == j.dept
     IN  \E result \in SyncGroup(j.row) :
           IF d \in DOMAIN depts
           THEN /\ depts' = [depts EXCEPT
                     ![d].members = (@ \ (depts[d].members \ result.members)) \cup result.members,
                     ![d].got = result.members,
                     ![d].parent = Column(j.row.parent, InferParent(d, result.chain), @),
                     ![d].status = Column(j.row.status, "ok", @)]
                /\ Committed(h, {"create", "web"})
           ELSE UNCHANGED depts /\ writer' = NoId /\ Ends(h)
  /\ UNCHANGED <<cards, unsynced, adVars, configured, requests>>

\* Mutant: a failed sync leaves its transaction open.
SyncFailsOpen(h) ==
  /\ job[h].pc = "ask"
  /\ Ends(h)
  /\ UNCHANGED <<depts, writer, cards, unsynced, adVars, configured, requests>>

\* The directory fails: the error is committed, the members stay.
SyncFails(h) ==
  /\ job[h].pc = "ask"
  /\ LET j == job[h] IN
       IF j.dept \in DOMAIN depts
       THEN /\ depts' = [depts EXCEPT ![j.dept].status = Column(j.row.status, "error", @)]
            /\ Committed(h, {"create"})
       ELSE UNCHANGED depts /\ writer' = NoId /\ Ends(h)
  /\ UNCHANGED <<cards, unsynced, adVars, configured, requests>>

\* Mutant: the card is written from the row as it was loaded.
CardFromLoaded(h, stored) ==
  /\ job[h].pc = "card"
  /\ WriteCard(job[h].row.slug, stored, writer = h)
  /\ writer' = IF writer = h THEN NoId ELSE writer
  /\ Ends(h)
  /\ UNCHANGED <<depts, adVars, configured, requests>>

\* Back on the event loop.  A row expired by the commit is read again and may be
\* gone; without a commit the loaded one is used, and the request's end releases
\* the lock.
Card(h, stored) ==
  /\ job[h].pc = "card"
  /\ LET d == job[h].dept IN
       CASE writer = h -> WriteCard(job[h].row.slug, stored, TRUE)
         [] writer # h /\ d \in DOMAIN depts -> WriteCard(depts[d].slug, stored, FALSE)
         [] OTHER -> UNCHANGED <<cards, unsynced>>
  /\ writer' = IF writer = h THEN NoId ELSE writer
  /\ Ends(h)
  /\ UNCHANGED <<depts, adVars, configured, requests>>

----------------------------------------------------------------------------
(* Deleting, configuring, restarting *)

\* The card goes first, then the row with its members; children become roots.
OrgDelete(h, d) ==
  /\ d \in DOMAIN depts /\ writer = NoId
  /\ Begins(h, Idle)
  /\ cards' = cards \ {depts[d].slug}
  /\ unsynced' = unsynced \ {depts[d].slug}
  /\ depts' = [x \in DOMAIN depts \ {d} |->
                 IF depts[x].parent = d THEN [depts[x] EXCEPT !.parent = NoId] ELSE depts[x]]
  /\ UNCHANGED <<adVars, configured, writer>>

\* The row's deletion waits for the lock until the busy timeout: the card is gone.
OrgDeleteLocked(h, d) ==
  /\ d \in DOMAIN depts /\ writer # NoId
  /\ Begins(h, Idle)
  /\ cards' = cards \ {depts[d].slug}
  /\ unsynced' = unsynced \ {depts[d].slug}
  /\ UNCHANGED <<depts, adVars, configured, writer>>

\* config.yaml and the configuration in memory change before the audit row's commit.
OrgConfigureSave(h) ==
  /\ Begins(h, Idle)
  /\ configured' = ~configured
  /\ UNCHANGED <<depts, cards, unsynced, adVars, writer>>

\* The server dies with the handlers in it; a command is a process of its own.
Restart ==
  LET dead == {h \in Handlers : job[h] # Idle /\ ("door" \in DOMAIN job[h] => job[h].door # "cli")}
  IN  /\ dead # {}
      /\ job' = [h \in Handlers |-> IF h \in dead THEN Idle ELSE job[h]]
      /\ writer' = IF writer \in dead THEN NoId ELSE writer
      /\ UNCHANGED <<depts, cards, unsynced, adVars, configured, requests>>

----------------------------------------------------------------------------
Init ==
  /\ depts = << >> /\ cards = {} /\ unsynced = {}
  /\ belongs = [g \in Groups |-> {}]
  /\ boss = [p \in People |-> NoId]
  /\ configured = TRUE
  /\ job = [h \in Handlers |-> Idle]
  /\ writer = NoId
  /\ requests = 0 /\ moves = 0

\* The steps of a handler that has begun.
HandlerStep(h) ==
  \/ ResolveFails(h) \/ CreateCommits(h) \/ WriteLocked(h)
  \/ SyncLoads(h) \/ SyncStarts(h) \/ SourceMissing(h) \/ SyncAnswered(h) \/ SyncFails(h)
  \/ \E stored \in BOOLEAN : UpdateCommits(h, stored) \/ Card(h, stored)

Next ==
  \/ \E g \in Groups, p \in Joiners : Enrol(g, p)
  \/ \E line \in Lines : Reports(line[1], line[2])
  \/ \E h \in Handlers :
       \/ HandlerStep(h)
       \/ OrgConfigureSave(h)
       \/ \E f \in Forms : OrgCreate(h, f)
       \/ \E d \in DOMAIN depts :
            \/ \E g \in Groups, m \in People : OrgUpdate(h, d, g, m)
            \/ \E n \in Names, stored \in BOOLEAN : OrgRename(h, d, n, stored)
            \/ OrgSync(h, d) \/ OrgSyncCli(h, d) \/ AgentSync(h, d)
            \/ OrgDelete(h, d) \/ OrgDeleteLocked(h, d)
  \/ Restart

\* A directory call has a timeout and the thread and the event loop go on.
Spec == Init /\ [][Next]_vars /\ \A h \in Handlers : WF_vars(HandlerStep(h))

----------------------------------------------------------------------------
\* The state has its shape; a parent is a department's id, not a person.
TypeOK ==
  /\ DOMAIN depts \subseteq DeptIds
  /\ \A d \in DOMAIN depts :
       /\ depts[d].group \in Groups /\ depts[d].manager \in People
       /\ depts[d].members \subseteq People /\ depts[d].parent \in DeptIds \cup {NoId}
       /\ depts[d].status \in {"pending", "ok", "error"}
  /\ unsynced \subseteq cards
  /\ \A h \in Handlers : job[h].pc \in {"idle", "create", "update", "load", "wait", "ask", "card"}
  /\ writer \in Handlers \cup {NoId}

(***************************************************************************)
(* The members of a department are exactly those of one answer of the      *)
(* directory, the last that was committed for it, however many syncs from  *)
(* the web, the agent and the command line overlapped and whichever of     *)
(* them failed: people never accumulate from two answers.                  *)
(***************************************************************************)
MembersExact == \A d \in DOMAIN depts : depts[d].members = depts[d].got

(***************************************************************************)
(* The parent a sync derives is another department that exists, also when  *)
(* managers are edited, departments deleted and ids used again while the   *)
(* sync had its own copy of the row.                                       *)
(***************************************************************************)
ParentSound ==
  \A d \in DOMAIN depts : depts[d].parent # NoId => depts[d].parent \in DOMAIN depts \ {d}

\* The tree of departments has no dangling and no self edges.
DepartmentsSound == TypeOK /\ ParentSound

(***************************************************************************)
(* A contact card in the docs store is the card of a department there is:  *)
(* a deletion that overlaps a sync or a creation is not undone by a card   *)
(* written late.  The exception is a creation that found no directory      *)
(* source and goes on with the row it had loaded.                          *)
(***************************************************************************)
NoGhostCards ==
  \A s \in cards \ unsynced : \E d \in DOMAIN depts : depts[d].slug = s

\* The write lock a sync holds while it asks the directory is given back.
LockReturned == writer # NoId ~> writer = NoId
=============================================================================
