------------------------- MODULE DepartmentsProofs --------------------------
(***************************************************************************)
(* For every directory, every number of departments and handlers, and      *)
(* whatever is edited, deleted or answered late: the members are those of  *)
(* one answer, parents exist and are other departments, and a card in the  *)
(* docs store is that of a department.                                     *)
(***************************************************************************)
EXTENDS Departments, WellFoundedInduction, TLAPS

Columns == {"tenant", "name", "slug", "group", "manager", "parent", "status", "members", "got"}

RowTyped(r) ==
  /\ DOMAIN r = Columns
  /\ r.group \in Groups /\ r.manager \in People
  /\ r.members \subseteq People /\ r.parent \in DeptIds \cup {NoId}
  /\ r.status \in {"pending", "ok", "error"}

\* A handler's row is a copy that may be of a department since deleted.
JobTyped(j) ==
  /\ j.pc \in {"idle", "create", "update", "load", "wait", "ask", "card"}
  /\ j.pc \in {"create", "update"} => j.group \in Groups /\ j.manager \in People
  /\ j.pc \in {"wait", "ask", "card"} =>
       DOMAIN j = {"pc", "door", "dept", "row"} /\ RowTyped(j.row)

\* Ids in use are bounded, so that there is a greatest.
IdsBounded == \E n \in Nat : \A d \in DOMAIN depts : d <= n

RowsTyped ==
  /\ DOMAIN depts \subseteq DeptIds /\ IdsBounded
  /\ \A d \in DOMAIN depts : RowTyped(depts[d])

JobsTyped ==
  /\ belongs \in [Groups -> SUBSET People]
  /\ DOMAIN job = Handlers /\ \A h \in Handlers : JobTyped(job[h])
  /\ writer \in Handlers \cup {NoId}

RowsInv == RowsTyped /\ MembersExact /\ ParentSound

CardsInv == unsynced \subseteq cards /\ NoGhostCards

DeptInv == RowsInv /\ CardsInv /\ JobsTyped

----------------------------------------------------------------------------
(* Greatest and least ids *)

\* A non-empty set of natural numbers has a least element.
LEMMA LeastNatural ==
  ASSUME NEW S \in SUBSET Nat, S # {}
  PROVE  \E m \in S : \A n \in S : m <= n
<1> DEFINE R == {ss \in Nat \X Nat : ss[1] < ss[2]}
<1>1. IsWellFoundedOn(R, Nat)
  BY NatLessThanWellFounded DEF OpToRel
<1>2. \A m, n \in Nat : n < m => <<n, m>> \in R
  OBVIOUS
<1> HIDE DEF R
<1>3. PICK m \in S : \A n \in S : ~ (<<n, m>> \in R)
  BY <1>1, WFMin
<1>4. ASSUME NEW n \in S PROVE m <= n
  <2>1. m \in Nat /\ n \in Nat
    OBVIOUS
  <2>2. ~ (n < m)
    BY <1>2, <1>3, <2>1
  <2> QED BY <2>1, <2>2
<1> QED BY <1>4

\* A non-empty bounded set of natural numbers has a greatest element: its least
\* upper bound.
LEMMA GreatestNatural ==
  ASSUME NEW S \in SUBSET Nat, S # {}, NEW n \in Nat, \A x \in S : x <= n
  PROVE  \E m \in S : \A x \in S : x <= m
<1> DEFINE bounds == {u \in Nat : \A x \in S : x <= u}
<1>1. bounds \in SUBSET Nat /\ bounds # {}
  OBVIOUS
<1>2. PICK m \in bounds : \A u \in bounds : m <= u
  BY <1>1, LeastNatural
<1>3. m \in S
  <2> SUFFICES ASSUME m \notin S PROVE FALSE
    OBVIOUS
  <2>1. \A x \in S : x \in Nat /\ x < m
    BY <1>2
  <2>2. m \in Nat /\ m # 0
    <3>1. PICK x : x \in S
      OBVIOUS
    <3> QED BY <1>2, <2>1, <3>1
  <2>3. m - 1 \in bounds
    BY <2>1, <2>2
  <2>4. m <= m - 1
    BY <1>2, <2>3
  <2> QED BY <2>2, <2>4
<1> QED BY <1>2, <1>3

\* The managers' departments that _infer_parent_id looks up have a last one.
LEMMA MaxOfIds ==
  ASSUME RowsTyped, NEW S \in SUBSET DOMAIN depts, S # {}
  PROVE  Max(S) \in S
<1>1. PICK n \in Nat : \A d \in DOMAIN depts : d <= n
  BY DEF RowsTyped, IdsBounded
<1>2. S \in SUBSET Nat
  BY DepartmentsAssumption DEF RowsTyped
<1>3. \E m \in S : \A x \in S : x <= m
  BY <1>1, <1>2, GreatestNatural
<1>4. \E m \in S : \A x \in S : m >= x
  BY <1>2, <1>3
<1> QED BY <1>4 DEF Max

\* The id of a new row is not in use, and the ids in use stay bounded.
LEMMA NewIdFresh ==
  ASSUME RowsTyped
  PROVE  /\ NewId(depts) \in Nat /\ NewId(depts) \notin DOMAIN depts
         /\ \A d \in DOMAIN depts : d <= NewId(depts)
<1>1. CASE DOMAIN depts = {}
  BY <1>1 DEF NewId
<1>2. CASE DOMAIN depts # {}
  <2>1. PICK n \in Nat : \A d \in DOMAIN depts : d <= n
    BY DEF RowsTyped, IdsBounded
  <2>2. DOMAIN depts \in SUBSET Nat
    BY DepartmentsAssumption DEF RowsTyped
  <2>3. \E m \in DOMAIN depts : \A x \in DOMAIN depts : x <= m
    BY <1>2, <2>1, <2>2, GreatestNatural
  <2> DEFINE m == CHOOSE m \in DOMAIN depts : \A x \in DOMAIN depts : x <= m
  <2>4. m \in DOMAIN depts /\ \A x \in DOMAIN depts : x <= m
    BY <2>3
  <2>5. NewId(depts) = 1 + m
    BY <1>2 DEF NewId
  <2> HIDE DEF m
  <2> QED BY <2>2, <2>4, <2>5
<1> QED BY <1>1, <1>2

\* The parent derived from an answer is none, or another department that exists.
LEMMA InferParentSound ==
  ASSUME RowsTyped, NEW d, NEW chain, DOMAIN chain \subseteq Nat
  PROVE  InferParent(d, chain) # NoId => InferParent(d, chain) \in DOMAIN depts \ {d}
<1> DEFINE of(p) == {x \in DOMAIN depts : depts[x].manager = p}
           hits == {i \in DOMAIN chain : of(chain[i]) # {} /\ Max(of(chain[i])) # d}
<1>1. CASE hits = {}
  BY <1>1 DEF InferParent
<1>2. CASE hits # {}
  <2>1. \E m \in hits : \A n \in hits : m <= n
    BY <1>2, LeastNatural
  <2>2. Min(hits) \in hits
    BY <2>1 DEF Min
  <2> DEFINE S == of(chain[Min(hits)])
  <2>3. S # {} /\ Max(S) # d
    BY <2>2
  <2>4. S \in SUBSET DOMAIN depts
    OBVIOUS
  <2>5. InferParent(d, chain) = Max(S)
    BY <1>2 DEF InferParent
  <2> HIDE DEF S, hits
  <2> QED BY <2>3, <2>4, <2>5, MaxOfIds
<1> QED BY <1>1, <1>2

\* An answer of the directory: members of the group, and a chain counted from 1.
LEMMA AnswerShape ==
  ASSUME JobsTyped, NEW row, RowTyped(row), NEW result \in SyncGroup(row)
  PROVE  result.members \subseteq People /\ DOMAIN result.chain \subseteq Nat
<1>1. result.members = belongs[row.group] /\ result.chain \in {ManagerChain(row.manager), << >>}
  BY DEF SyncGroup
<1>2. DOMAIN ManagerChain(row.manager) \subseteq Nat
  BY DepartmentsAssumption DEF ManagerChain
<1> QED BY <1>1, <1>2 DEF JobsTyped, RowTyped

----------------------------------------------------------------------------
(* Rows *)

\* One row is written; its slug is the one it had.
LEMMA RowWritten ==
  ASSUME RowsInv, NoGhostCards, NEW d \in DOMAIN depts, NEW r, RowTyped(r),
         depts' = [depts EXCEPT ![d] = r],
         r.slug = depts[d].slug, r.members = r.got,
         r.parent # NoId => r.parent \in DOMAIN depts \ {d}
  PROVE  /\ RowsInv' /\ DOMAIN depts' = DOMAIN depts
         /\ \A x \in DOMAIN depts : depts'[x].slug = depts[x].slug
<1>1. /\ DOMAIN depts' = DOMAIN depts /\ depts'[d] = r
      /\ \A x \in DOMAIN depts \ {d} : depts'[x] = depts[x]
  OBVIOUS
<1>2. RowsTyped'
  BY <1>1 DEF RowsInv, RowsTyped, IdsBounded
<1>3. MembersExact' /\ ParentSound'
  BY <1>1 DEF RowsInv, MembersExact, ParentSound
<1> QED BY <1>1, <1>2, <1>3 DEF RowsInv

\* A new row has no members, no parent and an id of its own.
LEMMA RowCreated ==
  ASSUME RowsInv, NEW r, RowTyped(r), r.members = r.got, r.parent = NoId,
         NewId(depts) \in DeptIds, depts' = Put(depts, NewId(depts), r)
  PROVE  /\ RowsInv' /\ DOMAIN depts \subseteq DOMAIN depts'
         /\ \A x \in DOMAIN depts : depts'[x].slug = depts[x].slug
<1>1. /\ NewId(depts) \in Nat /\ NewId(depts) \notin DOMAIN depts
      /\ \A d \in DOMAIN depts : d <= NewId(depts)
  BY NewIdFresh DEF RowsInv
<1>2. /\ DOMAIN depts' = DOMAIN depts \cup {NewId(depts)} /\ depts'[NewId(depts)] = r
      /\ \A x \in DOMAIN depts : depts'[x] = depts[x]
  BY <1>1 DEF Put
<1>3. RowsTyped'
  <2>1. \A d \in DOMAIN depts' : d <= NewId(depts)
    BY <1>1, <1>2
  <2>2. IdsBounded'
    BY <1>1, <2>1 DEF IdsBounded
  <2> QED BY <1>2, <2>2 DEF RowsInv, RowsTyped
<1>4. MembersExact' /\ ParentSound'
  BY <1>2 DEF RowsInv, MembersExact, ParentSound
<1> QED BY <1>2, <1>3, <1>4 DEF RowsInv

\* A deletion leaves the other rows, with no edge to the one that is gone.
LEMMA RowDeleted ==
  ASSUME RowsInv, NEW d \in DOMAIN depts,
         depts' = [x \in DOMAIN depts \ {d} |->
                     IF depts[x].parent = d THEN [depts[x] EXCEPT !.parent = NoId] ELSE depts[x]]
  PROVE  /\ RowsInv' /\ DOMAIN depts' = DOMAIN depts \ {d}
         /\ \A x \in DOMAIN depts' : depts'[x].slug = depts[x].slug
<1>1. DOMAIN depts' = DOMAIN depts \ {d}
  OBVIOUS
<1>2. ASSUME NEW x \in DOMAIN depts'
      PROVE  /\ RowTyped(depts'[x]) /\ depts'[x].slug = depts[x].slug
             /\ depts'[x].members = depts'[x].got
             /\ depts'[x].parent # NoId => depts'[x].parent \in DOMAIN depts' \ {x}
  <2>1. x \in DOMAIN depts /\ x # d /\ RowTyped(depts[x]) /\ depts[x].members = depts[x].got
        /\ (depts[x].parent # NoId => depts[x].parent \in DOMAIN depts \ {x})
    BY <1>1 DEF RowsInv, RowsTyped, MembersExact, ParentSound
  <2>2. CASE depts[x].parent = d
    <3>1. depts'[x] = [depts[x] EXCEPT !.parent = NoId]
      BY <1>1, <2>2
    <3> QED BY <2>1, <3>1 DEF RowTyped, Columns
  <2>3. CASE depts[x].parent # d
    <3>1. depts'[x] = depts[x]
      BY <1>1, <2>3
    <3> QED BY <1>1, <2>1, <2>3, <3>1
  <2> QED BY <2>2, <2>3
<1>3. RowsTyped'
  BY <1>1, <1>2 DEF RowsInv, RowsTyped, IdsBounded
<1>4. MembersExact' /\ ParentSound'
  BY <1>2 DEF MembersExact, ParentSound
<1> QED BY <1>1, <1>2, <1>3, <1>4 DEF RowsInv

----------------------------------------------------------------------------
(* Cards and jobs *)

\* The card written is of a row that is there, or is marked as written without a sync.
LEMMA CardWritten ==
  ASSUME CardsInv, NEW slug, NEW stored \in BOOLEAN, NEW missing \in BOOLEAN,
         WriteCard(slug, stored, missing),
         DOMAIN depts \subseteq DOMAIN depts',
         \A x \in DOMAIN depts : depts'[x].slug = depts[x].slug,
         missing \/ \E x \in DOMAIN depts : depts[x].slug = slug
  PROVE  CardsInv'
<1>1. CASE stored /\ missing
  BY <1>1 DEF CardsInv, NoGhostCards, WriteCard
<1>2. CASE stored /\ ~ missing
  BY <1>2 DEF CardsInv, NoGhostCards, WriteCard
<1>3. CASE ~ stored
  BY <1>3 DEF CardsInv, NoGhostCards, WriteCard
<1> QED BY <1>1, <1>2, <1>3

\* Rows that keep their slugs keep their cards.
LEMMA CardsKept ==
  ASSUME CardsInv, UNCHANGED <<cards, unsynced>>,
         DOMAIN depts \subseteq DOMAIN depts',
         \A x \in DOMAIN depts : depts'[x].slug = depts[x].slug
  PROVE  CardsInv'
BY DEF CardsInv, NoGhostCards

\* One handler moves on.
LEMMA JobMoves ==
  ASSUME JobsTyped, NEW h \in Handlers, NEW j, JobTyped(j), job' = [job EXCEPT ![h] = j],
         UNCHANGED belongs, writer' \in Handlers \cup {NoId}
  PROVE  JobsTyped'
BY DEF JobsTyped

\* An idle handler has nothing in hand.
LEMMA IdleTyped == JobTyped(Idle)
BY DEF JobTyped, Idle

\* The handler's answer is sent.
LEMMA JobEnds ==
  ASSUME JobsTyped, NEW h \in Handlers, Ends(h), UNCHANGED belongs,
         writer' \in Handlers \cup {NoId}
  PROVE  JobsTyped'
BY JobMoves, IdleTyped DEF Ends

\* The next step of a handler that holds a row.
LEMMA JobHolds ==
  ASSUME NEW j, JobTyped(j), j.pc \in {"wait", "ask", "card"}, NEW pc \in {"wait", "ask", "card"}
  PROVE  JobTyped([j EXCEPT !.pc = pc])
BY DEF JobTyped

\* A commit of a sync, and what the handler does next.
LEMMA JobCommits ==
  ASSUME JobsTyped, NEW h \in Handlers, job[h].pc = "ask", NEW doors, Committed(h, doors),
         UNCHANGED belongs
  PROVE  JobsTyped'
<1>1. JobTyped(job[h]) /\ DOMAIN job = Handlers
  BY DEF JobsTyped
<1>2. PICK j \in {Idle, [job[h] EXCEPT !.pc = "card"]} : job' = [job EXCEPT ![h] = j]
  BY <1>1 DEF Committed
<1>3. JobTyped(j)
  BY <1>1, <1>2, IdleTyped, JobHolds
<1>4. writer' \in Handlers \cup {NoId}
  BY DEF Committed
<1> QED BY <1>2, <1>3, <1>4, JobMoves

----------------------------------------------------------------------------
(* Steps *)

\* A step that touches neither rows nor cards.
LEMMA RowsIdle ==
  ASSUME DeptInv, UNCHANGED <<depts, cards, unsynced>>, JobsTyped'
  PROVE  DeptInv'
BY DEF DeptInv, RowsInv, CardsInv, RowsTyped, IdsBounded, MembersExact, ParentSound, NoGhostCards

\* A row is written and the cards stay.
LEMMA RowOnly ==
  ASSUME DeptInv, NEW d \in DOMAIN depts, NEW r, RowTyped(r),
         depts' = [depts EXCEPT ![d] = r],
         r.slug = depts[d].slug, r.members = r.got,
         r.parent # NoId => r.parent \in DOMAIN depts \ {d},
         UNCHANGED <<cards, unsynced>>, JobsTyped'
  PROVE  DeptInv'
<1>1. /\ RowsInv' /\ DOMAIN depts' = DOMAIN depts
      /\ \A x \in DOMAIN depts : depts'[x].slug = depts[x].slug
  BY RowWritten DEF DeptInv, CardsInv
<1>2. CardsInv'
  BY <1>1, CardsKept DEF DeptInv
<1> QED BY <1>1, <1>2 DEF DeptInv

\* A row is written, and its card.
LEMMA RowAndCard ==
  ASSUME DeptInv, NEW d \in DOMAIN depts, NEW r, RowTyped(r),
         depts' = [depts EXCEPT ![d] = r],
         r.slug = depts[d].slug, r.members = r.got, r.parent = depts[d].parent,
         NEW stored \in BOOLEAN, WriteCard(depts[d].slug, stored, FALSE), JobsTyped'
  PROVE  DeptInv'
<1>1. r.parent # NoId => r.parent \in DOMAIN depts \ {d}
  BY DEF DeptInv, RowsInv, ParentSound
<1>2. /\ RowsInv' /\ DOMAIN depts' = DOMAIN depts
      /\ \A x \in DOMAIN depts : depts'[x].slug = depts[x].slug
  BY <1>1, RowWritten DEF DeptInv, CardsInv
<1>3. CardsInv'
  BY <1>2, CardWritten DEF DeptInv
<1> QED BY <1>2, <1>3 DEF DeptInv

\* What a request does when it begins: nothing yet, or all it will.
LEMMA BeginStep ==
  ASSUME DeptInv, NEW h \in Handlers,
         \/ OrgConfigureSave(h)
         \/ \E f \in Forms : OrgCreate(h, f)
         \/ \E d \in DOMAIN depts :
              \/ \E g \in Groups, m \in People : OrgUpdate(h, d, g, m)
              \/ \E n \in Names, stored \in BOOLEAN : OrgRename(h, d, n, stored)
              \/ OrgSync(h, d) \/ OrgSyncCli(h, d) \/ AgentSync(h, d)
              \/ OrgDelete(h, d) \/ OrgDeleteLocked(h, d)
  PROVE  DeptInv'
<1> USE DEF adVars
<1>0. /\ JobsTyped /\ writer \in Handlers \cup {NoId}
      /\ \A d \in DOMAIN depts : RowTyped(depts[d]) /\ depts[d].members = depts[d].got
  BY DEF DeptInv, JobsTyped, RowsInv, RowsTyped, MembersExact
<1>1. ASSUME NEW j, Begins(h, j), JobTyped(j), UNCHANGED <<belongs, writer>> PROVE JobsTyped'
  BY <1>0, <1>1, JobMoves DEF Begins
<1>2. CASE OrgConfigureSave(h)
  BY <1>1, <1>2, RowsIdle, IdleTyped DEF OrgConfigureSave
<1>3. ASSUME NEW f \in Forms, OrgCreate(h, f) PROVE DeptInv'
  <2> DEFINE j == [pc |-> "create", tenant |-> f.tenant, name |-> f.name, group |-> f.group,
                   manager |-> f.manager]
  <2>1. f.group \in Groups /\ f.manager \in People
    BY DepartmentsAssumption
  <2>2. JobTyped(j)
    BY <2>1 DEF JobTyped
  <2> QED BY <1>1, <1>3, <2>2, RowsIdle DEF OrgCreate
<1>4. ASSUME NEW d \in DOMAIN depts, NEW g \in Groups, NEW m \in People, OrgUpdate(h, d, g, m)
      PROVE  DeptInv'
  <2> DEFINE j == [pc |-> "update", dept |-> d, row |-> depts[d], group |-> g, manager |-> m]
  <2>1. JobTyped(j)
    BY DEF JobTyped
  <2> QED BY <1>1, <1>4, <2>1, RowsIdle DEF OrgUpdate
<1>5. ASSUME NEW d \in DOMAIN depts, NEW n \in Names, NEW stored \in BOOLEAN,
             OrgRename(h, d, n, stored)
      PROVE  DeptInv'
  <2> DEFINE r == [depts[d] EXCEPT !.name = n]
  <2>1. RowTyped(r) /\ r.slug = depts[d].slug /\ r.members = r.got /\ r.parent = depts[d].parent
    BY <1>0 DEF RowTyped, Columns
  <2>2. depts' = [depts EXCEPT ![d] = r] /\ WriteCard(depts[d].slug, stored, FALSE)
    BY <1>5 DEF OrgRename
  <2>3. JobsTyped'
    BY <1>1, <1>5, IdleTyped DEF OrgRename
  <2> HIDE DEF r
  <2> QED BY <2>1, <2>2, <2>3, RowAndCard
<1>6. ASSUME NEW d \in DOMAIN depts, OrgSync(h, d) \/ OrgSyncCli(h, d) \/ AgentSync(h, d)
      PROVE  DeptInv'
  <2>1. /\ JobTyped([pc |-> "wait", door |-> "web", dept |-> d, row |-> depts[d]])
        /\ JobTyped([pc |-> "wait", door |-> "cli", dept |-> d, row |-> depts[d]])
        /\ JobTyped([pc |-> "load", door |-> "agent", dept |-> d])
    BY <1>0 DEF JobTyped
  <2> QED BY <1>1, <1>6, <2>1, RowsIdle DEF OrgSync, OrgSyncCli, AgentSync
<1>7. ASSUME NEW d \in DOMAIN depts, OrgDelete(h, d) PROVE DeptInv'
  <2>1. JobsTyped'
    BY <1>1, <1>7, IdleTyped DEF OrgDelete
  <2>2. /\ RowsInv' /\ DOMAIN depts' = DOMAIN depts \ {d}
        /\ \A x \in DOMAIN depts' : depts'[x].slug = depts[x].slug
    BY <1>7, RowDeleted DEF OrgDelete, DeptInv
  <2>3. CardsInv'
    BY <1>7, <2>2 DEF OrgDelete, DeptInv, CardsInv, NoGhostCards
  <2> QED BY <2>1, <2>2, <2>3 DEF DeptInv
<1>8. ASSUME NEW d \in DOMAIN depts, OrgDeleteLocked(h, d) PROVE DeptInv'
  <2>1. JobsTyped'
    BY <1>1, <1>8, IdleTyped DEF OrgDeleteLocked
  <2>2. RowsInv'
    BY <1>8 DEF OrgDeleteLocked, DeptInv, RowsInv, RowsTyped, IdsBounded, MembersExact, ParentSound
  <2>3. CardsInv'
    BY <1>8 DEF OrgDeleteLocked, DeptInv, CardsInv, NoGhostCards
  <2> QED BY <2>1, <2>2, <2>3 DEF DeptInv
<1> QED BY <1>2, <1>3, <1>4, <1>5, <1>6, <1>7, <1>8

\* Column keeps the current value or takes the new one.
LEMMA ColumnEither == \A loaded, new, now : Column(loaded, new, now) \in {new, now}
BY DEF Column

\* The steps of a handler that has begun.
LEMMA HandlerKeeps ==
  ASSUME DeptInv, NEW h \in Handlers, HandlerStep(h)
  PROVE  DeptInv'
<1> USE DEF adVars
<1>0. /\ JobsTyped /\ writer \in Handlers \cup {NoId} /\ JobTyped(job[h])
      /\ \A d \in DOMAIN depts : RowTyped(depts[d]) /\ depts[d].members = depts[d].got
      /\ \A d \in DOMAIN depts : depts[d].parent # NoId => depts[d].parent \in DOMAIN depts \ {d}
  BY DEF DeptInv, JobsTyped, RowsInv, RowsTyped, MembersExact, ParentSound
<1>1. CASE ResolveFails(h) \/ WriteLocked(h)
  BY <1>0, <1>1, JobEnds, RowsIdle DEF ResolveFails, WriteLocked
<1>2. CASE CreateCommits(h)
  <2> DEFINE j == job[h]
             r == [tenant |-> j.tenant, name |-> j.name, slug |-> UniqueSlug(j.tenant, SlugOf[j.name]),
                   group |-> j.group, manager |-> j.manager, parent |-> NoId,
                   status |-> "pending", members |-> {}, got |-> {}]
             k == [pc |-> "load", door |-> "create", dept |-> NewId(depts)]
  <2>1. UNCHANGED <<cards, unsynced, belongs, writer>> /\ NewId(depts) \in DeptIds
    BY <1>2 DEF CreateCommits
  <2>2. CASE UNCHANGED depts /\ Ends(h)
    BY <1>0, <2>1, <2>2, JobEnds, RowsIdle
  <2>3. CASE depts' = Put(depts, NewId(depts), r) /\ job' = [job EXCEPT ![h] = k]
    <3>1. JobTyped(k)
      BY DEF JobTyped
    <3>2. JobsTyped'
      BY <1>0, <2>1, <2>3, <3>1, JobMoves
    <3>3. RowTyped(r) /\ r.members = r.got /\ r.parent = NoId
      BY <1>0, <1>2 DEF RowTyped, Columns, JobTyped, CreateCommits
    <3> HIDE DEF r
    <3>4. /\ RowsInv' /\ DOMAIN depts \subseteq DOMAIN depts'
          /\ \A x \in DOMAIN depts : depts'[x].slug = depts[x].slug
      BY <2>1, <2>3, <3>3, RowCreated DEF DeptInv
    <3>5. CardsInv'
      BY <2>1, <3>4, CardsKept DEF DeptInv
    <3> QED BY <3>2, <3>4, <3>5 DEF DeptInv
  <2> QED BY <1>2, <2>2, <2>3 DEF CreateCommits
<1>3. ASSUME NEW stored \in BOOLEAN, UpdateCommits(h, stored) PROVE DeptInv'
  <2> DEFINE j == job[h]
             d == j.dept
             r == [depts[d] EXCEPT !.group = Column(j.row.group, j.group, @),
                                   !.manager = Column(j.row.manager, j.manager, @),
                                   !.status = Column(j.row.status, "pending", @)]
  <2>1. JobsTyped'
    BY <1>0, <1>3, JobEnds DEF UpdateCommits
  <2>2. CASE d \notin DOMAIN depts
    <3>1. UNCHANGED <<depts, cards, unsynced>>
      BY <1>3, <2>2 DEF UpdateCommits
    <3> QED BY <2>1, <3>1, RowsIdle
  <2>3. CASE d \in DOMAIN depts
    <3>1. depts' = [depts EXCEPT ![d] = r] /\ WriteCard(depts[d].slug, stored, FALSE)
      BY <1>0, <1>3, <2>3 DEF UpdateCommits, RowTyped, Columns
    <3>2. RowTyped(depts[d]) /\ j.group \in Groups /\ j.manager \in People
      BY <1>0, <1>3, <2>3 DEF UpdateCommits, JobTyped
    <3>3. /\ Column(j.row.group, j.group, depts[d].group) \in Groups
          /\ Column(j.row.manager, j.manager, depts[d].manager) \in People
          /\ Column(j.row.status, "pending", depts[d].status) \in {"pending", "ok", "error"}
      BY <3>2, ColumnEither DEF RowTyped
    <3>4. RowTyped(r) /\ r.slug = depts[d].slug /\ r.members = r.got /\ r.parent = depts[d].parent
      BY <1>0, <2>3, <3>2, <3>3 DEF RowTyped, Columns
    <3> HIDE DEF r, d
    <3> QED BY <2>1, <2>3, <3>1, <3>4, RowAndCard
  <2> QED BY <2>2, <2>3
<1>4. CASE SyncLoads(h)
  <2> DEFINE d == job[h].dept
             k == [pc |-> "wait", door |-> job[h].door, dept |-> d, row |-> depts[d]]
  <2>1. UNCHANGED <<depts, cards, unsynced, belongs, writer>>
    BY <1>4 DEF SyncLoads
  <2>2. CASE Ends(h)
    BY <1>0, <2>1, <2>2, JobEnds, RowsIdle
  <2>3. CASE d \in DOMAIN depts /\ job' = [job EXCEPT ![h] = k]
    <3>1. JobTyped(k)
      BY <1>0, <2>3 DEF JobTyped
    <3> HIDE DEF k
    <3> QED BY <1>0, <2>1, <2>3, <3>1, JobMoves, RowsIdle
  <2> QED BY <1>0, <1>4, <2>2, <2>3 DEF SyncLoads, JobsTyped
<1>5. CASE SyncStarts(h)
  <2>1. /\ job' = [job EXCEPT ![h] = [job[h] EXCEPT !.pc = "ask"]] /\ job[h].pc = "wait"
        /\ writer' = h /\ UNCHANGED <<depts, cards, unsynced, belongs>>
    BY <1>0, <1>5 DEF SyncStarts, JobsTyped
  <2>2. JobTyped([job[h] EXCEPT !.pc = "ask"])
    BY <1>0, <2>1, JobHolds
  <2> QED BY <1>0, <2>1, <2>2, JobMoves, RowsIdle
<1>6. CASE SourceMissing(h)
  <2>1. UNCHANGED <<depts, cards, unsynced, belongs>> /\ job[h].pc = "wait"
    BY <1>6 DEF SourceMissing
  <2>2. CASE UNCHANGED writer /\ Ends(h)
    BY <1>0, <2>1, <2>2, JobEnds, RowsIdle
  <2>3. CASE writer' = h /\ job' = [job EXCEPT ![h].pc = "card"]
    <3>1. job' = [job EXCEPT ![h] = [job[h] EXCEPT !.pc = "card"]]
      BY <2>3
    <3>2. JobTyped([job[h] EXCEPT !.pc = "card"])
      BY <1>0, <2>1, JobHolds
    <3> QED BY <1>0, <2>1, <2>3, <3>1, <3>2, JobMoves, RowsIdle
  <2> QED BY <1>6, <2>2, <2>3 DEF SourceMissing
<1>7. CASE SyncAnswered(h)
  <2> DEFINE j == job[h]
             d == j.dept
  <2>1. PICK result \in SyncGroup(j.row) :
          IF d \in DOMAIN depts
          THEN /\ depts' = [depts EXCEPT
                     ![d].members = (@ \ (depts[d].members \ result.members)) \cup result.members,
                     ![d].got = result.members,
                     ![d].parent = Column(j.row.parent, InferParent(d, result.chain), @),
                     ![d].status = Column(j.row.status, "ok", @)]
               /\ Committed(h, {"create", "web"})
          ELSE UNCHANGED depts /\ writer' = NoId /\ Ends(h)
    BY <1>7 DEF SyncAnswered
  <2>2. job[h].pc = "ask" /\ UNCHANGED <<cards, unsynced, belongs>>
    BY <1>7 DEF SyncAnswered
  <2>3. RowTyped(j.row)
    BY <1>0, <2>2 DEF JobTyped
  <2>4. result.members \subseteq People /\ DOMAIN result.chain \subseteq Nat
    BY <1>0, <2>3, AnswerShape
  <2>5. CASE d \notin DOMAIN depts
    BY <1>0, <2>1, <2>2, <2>5, JobEnds, RowsIdle
  <2>6. CASE d \in DOMAIN depts
    <3> DEFINE members == (depts[d].members \ (depts[d].members \ result.members)) \cup result.members
               parent == Column(j.row.parent, InferParent(d, result.chain), depts[d].parent)
               status == Column(j.row.status, "ok", depts[d].status)
               r == [depts[d] EXCEPT !.members = members, !.got = result.members,
                                     !.parent = parent, !.status = status]
    <3>1. depts' = [depts EXCEPT ![d] = r] /\ Committed(h, {"create", "web"})
      BY <1>0, <2>1, <2>6 DEF RowTyped, Columns
    <3>2. JobsTyped'
      BY <1>0, <2>2, <3>1, JobCommits
    <3>3. members = result.members
      OBVIOUS
    <3>4. parent # NoId => parent \in DOMAIN depts \ {d}
      BY <1>0, <2>4, <2>6, InferParentSound, ColumnEither DEF DeptInv, RowsInv
    <3>5. parent \in DeptIds \cup {NoId}
      BY <3>4 DEF DeptInv, RowsInv, RowsTyped
    <3>6. status \in {"pending", "ok", "error"}
      BY <1>0, <2>6, ColumnEither DEF RowTyped
    <3> HIDE DEF members, parent, status
    <3>7. RowTyped(r) /\ r.slug = depts[d].slug /\ r.members = r.got /\ r.parent = parent
      BY <1>0, <2>4, <2>6, <3>3, <3>5, <3>6 DEF RowTyped, Columns
    <3> HIDE DEF r, d
    <3> QED BY <2>2, <2>6, <3>1, <3>2, <3>4, <3>7, RowOnly
  <2> QED BY <2>5, <2>6
<1>8. CASE SyncFails(h)
  <2> DEFINE j == job[h]
             d == j.dept
  <2>1. job[h].pc = "ask" /\ UNCHANGED <<cards, unsynced, belongs>>
    BY <1>8 DEF SyncFails
  <2>2. CASE d \notin DOMAIN depts
    <3>1. UNCHANGED depts /\ writer' = NoId /\ Ends(h)
      BY <1>8, <2>2 DEF SyncFails
    <3> QED BY <1>0, <2>1, <3>1, JobEnds, RowsIdle
  <2>3. CASE d \in DOMAIN depts
    <3> DEFINE status == Column(j.row.status, "error", depts[d].status)
               r == [depts[d] EXCEPT !.status = status]
    <3>1. depts' = [depts EXCEPT ![d] = r] /\ Committed(h, {"create"})
      BY <1>8, <2>3 DEF SyncFails
    <3>2. JobsTyped'
      BY <1>0, <2>1, <3>1, JobCommits
    <3>3. status \in {"pending", "ok", "error"}
      BY <1>0, <2>3, ColumnEither DEF RowTyped
    <3> HIDE DEF status
    <3>4. RowTyped(r) /\ r.slug = depts[d].slug /\ r.members = r.got /\ r.parent = depts[d].parent
      BY <1>0, <2>3, <3>3 DEF RowTyped, Columns
    <3> HIDE DEF r, d
    <3> QED BY <1>0, <2>1, <2>3, <3>1, <3>2, <3>4, RowOnly
  <2> QED BY <2>2, <2>3
<1>9. ASSUME NEW stored \in BOOLEAN, Card(h, stored) PROVE DeptInv'
  <2>1. JobsTyped'
    <3>1. writer' \in Handlers \cup {NoId} /\ Ends(h) /\ UNCHANGED belongs
      BY <1>0, <1>9 DEF Card
    <3> QED BY <1>0, <3>1, JobEnds
  <2>2. UNCHANGED depts
    BY <1>9 DEF Card
  <2>3. CardsInv'
    <3>1. CASE writer = h
      <4>1. WriteCard(job[h].row.slug, stored, TRUE)
        BY <1>9, <3>1 DEF Card
      <4> QED BY <2>2, <4>1, CardWritten DEF DeptInv
    <3>2. CASE writer # h /\ job[h].dept \in DOMAIN depts
      <4>1. WriteCard(depts[job[h].dept].slug, stored, FALSE)
        BY <1>9, <3>2 DEF Card
      <4> QED BY <2>2, <3>2, <4>1, CardWritten DEF DeptInv
    <3>3. CASE writer # h /\ job[h].dept \notin DOMAIN depts
      <4>1. UNCHANGED <<cards, unsynced>>
        BY <1>9, <3>3 DEF Card
      <4> QED BY <2>2, <4>1, CardsKept DEF DeptInv
    <3> QED BY <3>1, <3>2, <3>3
  <2> QED BY <2>1, <2>2, <2>3
       DEF DeptInv, RowsInv, RowsTyped, IdsBounded, MembersExact, ParentSound
<1> QED BY <1>1, <1>2, <1>3, <1>4, <1>5, <1>6, <1>7, <1>8, <1>9 DEF HandlerStep

----------------------------------------------------------------------------
(* The theorems *)

\* There is no department, no card and no handler at first.
LEMMA DeptInit == Init => DeptInv
<1> SUFFICES ASSUME Init PROVE DeptInv
  OBVIOUS
<1>1. DOMAIN depts = {} /\ cards = {} /\ unsynced = {}
  BY DEF Init
<1>2. RowsInv
  BY <1>1 DEF RowsInv, RowsTyped, IdsBounded, MembersExact, ParentSound
<1>3. CardsInv
  BY <1>1 DEF CardsInv, NoGhostCards
<1>4. JobsTyped
  BY IdleTyped DEF Init, JobsTyped
<1> QED BY <1>2, <1>3, <1>4 DEF DeptInv

\* Every step of a handler, the directory and the server keeps rows, cards and jobs
\* in order.
LEMMA DeptStep == DeptInv /\ [Next]_vars => DeptInv'
<1> SUFFICES ASSUME DeptInv, [Next]_vars PROVE DeptInv'
  OBVIOUS
<1> USE DEF adVars
<1>0. JobsTyped
  BY DEF DeptInv
<1>1. ASSUME NEW g \in Groups, NEW p \in Joiners, Enrol(g, p) PROVE DeptInv'
  <2>1. belongs' \in [Groups -> SUBSET People]
    BY <1>0, <1>1, DepartmentsAssumption DEF Enrol, JobsTyped
  <2>2. JobsTyped'
    BY <1>0, <1>1, <2>1 DEF Enrol, JobsTyped
  <2> QED BY <1>1, <2>2, RowsIdle DEF Enrol
<1>2. ASSUME NEW line \in Lines, Reports(line[1], line[2]) PROVE DeptInv'
  <2>1. JobsTyped'
    BY <1>0, <1>2 DEF Reports, JobsTyped
  <2> QED BY <1>2, <2>1, RowsIdle DEF Reports
<1>3. CASE Restart
  <2>1. writer' \in Handlers \cup {NoId} /\ UNCHANGED belongs
    BY <1>0, <1>3 DEF Restart, JobsTyped
  <2>2. DOMAIN job' = Handlers /\ \A h \in Handlers : job'[h] = Idle \/ job'[h] = job[h]
    BY <1>3 DEF Restart
  <2>3. JobsTyped'
    BY <1>0, <2>1, <2>2, IdleTyped DEF JobsTyped
  <2> QED BY <1>3, <2>3, RowsIdle DEF Restart
<1>4. ASSUME NEW h \in Handlers, HandlerStep(h) PROVE DeptInv'
  BY <1>4, HandlerKeeps
<1>5. CASE UNCHANGED vars
  <2>1. JobsTyped'
    BY <1>0, <1>5 DEF vars, JobsTyped
  <2> QED BY <1>5, <2>1, RowsIdle DEF vars
<1> QED BY <1>1, <1>2, <1>3, <1>4, <1>5, BeginStep DEF Next

\* Rows, cards and the handlers' copies of rows stay in order for ever.
THEOREM DeptInvariant == Spec => []DeptInv
BY DeptInit, DeptStep, PTL DEF Spec

\* The members of a department are those of one answer of the directory, however
\* many syncs overlap: sync_department removes against the rows it locked.
THEOREM MembersOfOneAnswer == Spec => []MembersExact
<1>1. DeptInv => MembersExact
  BY DEF DeptInv, RowsInv
<1> QED BY DeptInvariant, <1>1, PTL

\* The state keeps its shape, and a derived parent is another department that
\* exists, although _infer_parent_id works for a row loaded before the lock.
THEOREM ParentsExist == Spec => []DepartmentsSound
<1>1. DeptInv => DepartmentsSound
  <2> SUFFICES ASSUME DeptInv PROVE TypeOK /\ ParentSound
    BY DEF DepartmentsSound
  <2>1. ParentSound
    BY DEF DeptInv, RowsInv
  <2>2. TypeOK
    BY DEF DeptInv, RowsInv, CardsInv, RowsTyped, JobsTyped, RowTyped, JobTyped, TypeOK
  <2> QED BY <2>1, <2>2
<1> QED BY DeptInvariant, <1>1, PTL

\* No deletion is undone by a card that _sync_doc writes late, save the one a
\* creation without a directory source writes.
THEOREM CardsHaveDepartments == Spec => []NoGhostCards
<1>1. DeptInv => NoGhostCards
  BY DEF DeptInv, CardsInv
<1> QED BY DeptInvariant, <1>1, PTL
=============================================================================
