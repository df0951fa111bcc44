------------------------- MODULE ChatRepliesProofs -------------------------
(***************************************************************************)
(* For any number of tabs, messages, generations and restarts: the         *)
(* registry _reply_futures only names a generation in flight, and a        *)
(* message that has its reply is never generated for again.                *)
(***************************************************************************)
EXTENDS ChatReplies, FiniteSetTheorems, NaturalsInduction, WellFoundedInduction, TLAPS

Rows == [role : {"user", "assistant"}, ord : Nat, to : Nat]
Generations == [to : Nat \ {0}, ord : Nat, state : {"running", "ended", "lost"}]

Shapes ==
    /\ conv \in BOOLEAN
    /\ msgs \in Seq(Rows)
    /\ gens \in Seq(Generations)
    /\ reg \in [to : Nat, gen : Nat]
    /\ reg.gen <= Len(gens)
    /\ stream \in [Tabs -> 0 .. Len(gens)]
    /\ restarts \in Nat

\* A deleted conversation has no rows, and none comes back.
DeletedIsEmpty == ~ conv => msgs = <<>>

\* Every row that will be written has its place: a generation in flight holds one.
RoomKept ==
    /\ Len(msgs) + NumRunning <= MaxMsgs
    /\ Len(gens) <= MaxGens
    /\ \A g \in DOMAIN gens : gens[g].to <= MaxMsgs /\ gens[g].ord <= MaxMsgs

\* The `ord` of a row is below its position, so NextOrd is at most the number of
\* rows; a reply names a row written before it, and has a greater `ord`.
RowsOrdered ==
    \A i \in DOMAIN msgs :
        /\ msgs[i].ord < i
        /\ msgs[i].to < i
        /\ msgs[i].to # 0 => msgs[i].ord > msgs[msgs[i].to].ord

\* While the conversation lives, a generation answers a row of it, under an `ord`
\* that was past every row's when the generation started.
GensPlaced ==
    conv => \A g \in DOMAIN gens :
        /\ gens[g].to <= Len(msgs)
        /\ gens[g].ord <= Len(msgs)
        /\ gens[g].ord > msgs[gens[g].to].ord

\* The inductive invariant.
ReplyInv ==
    /\ Shapes
    /\ DeletedIsEmpty
    /\ RoomKept
    /\ RowsOrdered
    /\ GensPlaced
    /\ RegistryLive

-----------------------------------------------------------------------------
(* NextOrd *)

\* A bounded non-empty set of natural numbers has a greatest element.
LEMMA GreatestOrd ==
    ASSUME NEW S \in SUBSET Nat, S # {}, NEW b \in Nat, \A x \in S : x < b
    PROVE  \E n \in S : \A x \in S : x <= n
<1> DEFINE R == {ss \in Nat \X Nat : ss[1] < ss[2]}
           Bounds == {u \in Nat : \A x \in S : x <= u}
<1>1. IsWellFoundedOn(R, Nat)
    BY NatLessThanWellFounded DEF OpToRel
<1>2. Bounds \in SUBSET Nat /\ Bounds # {}
    OBVIOUS
<1>3. \A m, n \in Nat : n < m => <<n, m>> \in R
    OBVIOUS
<1>4. PICK n \in Bounds : \A u \in Bounds : ~ (<<u, n>> \in R)
    <2> HIDE DEF R, Bounds
    <2> QED BY <1>1, <1>2, WFMin
<1>5. n \in S
    <2> SUFFICES ASSUME n \notin S PROVE FALSE
        OBVIOUS
    <2>1. PICK x : x \in S
        OBVIOUS
    <2>2. \A y \in S : y \in Nat /\ y <= n /\ y # n
        BY <1>4
    <2>3. n \in Nat /\ n # 0
        BY <1>4, <2>1, <2>2
    <2>4. n - 1 \in Bounds
        BY <2>2, <2>3
    <2>5. <<n - 1, n>> \in R
        BY <2>3, <1>3
    <2> QED BY <1>4, <2>4, <2>5
<1> QED BY <1>4, <1>5

\* chat_post_message and chat_stream compute an `ord` past every row's, and at most
\* the number of rows.
LEMMA NextOrdPast ==
    ASSUME Shapes, RowsOrdered
    PROVE  /\ NextOrd \in Nat
           /\ NextOrd <= Len(msgs)
           /\ \A i \in DOMAIN msgs : msgs[i].ord < NextOrd
<1> DEFINE Ords == {msgs[i].ord : i \in DOMAIN msgs}
<1>0. /\ Len(msgs) \in Nat /\ DOMAIN msgs = 1 .. Len(msgs)
      /\ \A i \in DOMAIN msgs : msgs[i].ord \in Nat /\ msgs[i].ord < i
    <2>1. Len(msgs) \in Nat /\ DOMAIN msgs = 1 .. Len(msgs)
        BY DEF Shapes
    <2>2. \A i \in DOMAIN msgs : msgs[i] \in Rows
        BY DEF Shapes
    <2>3. \A i \in DOMAIN msgs : msgs[i].ord \in Nat
        BY <2>2 DEF Rows
    <2> QED BY <2>1, <2>3 DEF RowsOrdered
<1>1. CASE msgs = <<>>
    <2>1. NextOrd = 0 /\ Len(msgs) = 0 /\ DOMAIN msgs = {}
        BY <1>0, <1>1 DEF NextOrd
    <2> QED BY <2>1
<1>2. CASE msgs # <<>>
    <2>1. 1 \in DOMAIN msgs
        BY <1>0, <1>2 DEF Shapes
    <2>2. Ords \in SUBSET Nat /\ Ords # {} /\ \A x \in Ords : x < Len(msgs)
        BY <1>0, <2>1
    <2>3. \E n \in Ords : \A x \in Ords : x <= n
        BY <1>0, <2>2, GreatestOrd
    <2>4. \E n \in Ords : \A i \in DOMAIN msgs : msgs[i].ord <= n
        BY <2>3
    <2> DEFINE top == CHOOSE n \in Ords : \A i \in DOMAIN msgs : msgs[i].ord <= n
    <2>5. top \in Ords /\ \A i \in DOMAIN msgs : msgs[i].ord <= top
        BY <2>4
    <2>6. NextOrd = 1 + top
        BY <1>2 DEF NextOrd
    <2> HIDE DEF top
    <2>7. top \in Nat /\ top < Len(msgs)
        <3> HIDE DEF Ords
        <3> QED BY <2>2, <2>5
    <2> HIDE DEF Ords
    <2> QED BY <1>0, <2>5, <2>6, <2>7
<1> QED BY <1>1, <1>2

-----------------------------------------------------------------------------
(* The generations in flight *)

InFlight(gs) == {g \in DOMAIN gs : gs[g].state = "running"}

\* There are finitely many generations in flight.
LEMMA InFlightFinite ==
    ASSUME NEW gs \in Seq(Generations)
    PROVE  IsFiniteSet(InFlight(gs)) /\ Cardinality(InFlight(gs)) \in Nat
<1>1. IsFiniteSet(1 .. Len(gs))
    BY FS_Interval
<1>2. InFlight(gs) \subseteq 1 .. Len(gs)
    BY DEF InFlight
<1>3. IsFiniteSet(InFlight(gs))
    BY <1>1, <1>2, FS_Subset
<1> QED BY <1>3, FS_CardinalityType

\* chat_stream adds one.
LEMMA InFlightAppend ==
    ASSUME NEW gs \in Seq(Generations), NEW e \in Generations, e.state = "running"
    PROVE  Cardinality(InFlight(Append(gs, e))) = Cardinality(InFlight(gs)) + 1
<1>1. /\ DOMAIN Append(gs, e) = DOMAIN gs \cup {Len(gs) + 1}
      /\ Len(gs) + 1 \notin DOMAIN gs
      /\ \A g \in DOMAIN gs : Append(gs, e)[g] = gs[g]
      /\ Append(gs, e)[Len(gs) + 1] = e
    OBVIOUS
<1>2. InFlight(Append(gs, e)) = InFlight(gs) \cup {Len(gs) + 1}
    BY <1>1 DEF InFlight
<1>3. Len(gs) + 1 \notin InFlight(gs)
    BY <1>1 DEF InFlight
<1> QED BY <1>2, <1>3, InFlightFinite, FS_AddElement

\* The end of _generate_reply takes one away.
LEMMA InFlightEnd ==
    ASSUME NEW gs \in Seq(Generations), NEW g \in InFlight(gs)
    PROVE  Cardinality(InFlight([gs EXCEPT ![g].state = "ended"]))
              = Cardinality(InFlight(gs)) - 1
<1>1. \A h \in DOMAIN gs : gs[h] \in Generations
    OBVIOUS
<1>2. InFlight([gs EXCEPT ![g].state = "ended"]) = InFlight(gs) \ {g}
    BY <1>1 DEF InFlight, Generations
<1> QED BY <1>2, InFlightFinite, FS_RemoveElement

\* A restart ends all of them.
LEMMA InFlightLost ==
    ASSUME NEW gs \in Seq(Generations)
    PROVE  Cardinality(InFlight([g \in DOMAIN gs |->
              IF gs[g].state = "running" THEN [gs[g] EXCEPT !.state = "lost"]
                                         ELSE gs[g]])) = 0
<1>1. \A h \in DOMAIN gs : gs[h] \in Generations
    OBVIOUS
<1>2. InFlight([g \in DOMAIN gs |->
              IF gs[g].state = "running" THEN [gs[g] EXCEPT !.state = "lost"]
                                         ELSE gs[g]]) = {}
    BY <1>1 DEF InFlight, Generations
<1> QED BY <1>2, FS_EmptySet

-----------------------------------------------------------------------------
(* The invariant *)

\* The facts about sequences the steps below rest on.
LEMMA ShapeFacts ==
    ASSUME Shapes
    PROVE  /\ Len(msgs) \in Nat /\ DOMAIN msgs = 1 .. Len(msgs)
           /\ Len(gens) \in Nat /\ DOMAIN gens = 1 .. Len(gens)
           /\ \A i \in DOMAIN msgs : /\ msgs[i].ord \in Nat /\ msgs[i].to \in Nat
                                     /\ msgs[i].role \in {"user", "assistant"}
           /\ \A g \in DOMAIN gens : /\ gens[g].ord \in Nat /\ gens[g].to \in Nat \ {0}
                                     /\ gens[g].state \in {"running", "ended", "lost"}
           /\ reg.gen \in Nat /\ reg.to \in Nat
           /\ NumRunning = Cardinality(InFlight(gens)) /\ NumRunning \in Nat
<1>1. NumRunning = Cardinality(InFlight(gens))
    BY DEF NumRunning, InFlight, Running
<1>2. \A i \in DOMAIN msgs : msgs[i] \in Rows
    BY DEF Shapes
<1>3. \A g \in DOMAIN gens : gens[g] \in Generations
    BY DEF Shapes
<1> QED BY <1>1, <1>2, <1>3, InFlightFinite DEF Shapes, Rows, Generations

\* A row written under NextOrd, or a running generation's reply, keeps the rows in
\* order and the generations placed.
LEMMA AppendKeepsOrder ==
    ASSUME ReplyInv, conv, NEW r \in Rows,
           r.ord <= Len(msgs), r.to <= Len(msgs),
           r.to # 0 => r.ord > msgs[r.to].ord,
           msgs' = Append(msgs, r), conv' = conv,
           gens' \in Seq(Generations), DOMAIN gens' = DOMAIN gens,
           \A g \in DOMAIN gens : gens'[g].to = gens[g].to /\ gens'[g].ord = gens[g].ord
    PROVE  DeletedIsEmpty' /\ RowsOrdered' /\ GensPlaced'
<1>0. Shapes /\ RowsOrdered /\ GensPlaced
    BY DEF ReplyInv
<1>1. /\ Len(msgs) \in Nat /\ DOMAIN msgs = 1 .. Len(msgs)
      /\ \A i \in DOMAIN msgs : msgs[i].ord \in Nat /\ msgs[i].to \in Nat
      /\ \A g \in DOMAIN gens : gens[g].ord \in Nat /\ gens[g].to \in Nat \ {0}
    BY <1>0, ShapeFacts
<1>2. /\ Len(msgs') = Len(msgs) + 1
      /\ DOMAIN msgs' = 1 .. (Len(msgs) + 1)
      /\ msgs'[Len(msgs) + 1] = r
      /\ \A i \in 1 .. Len(msgs) : msgs'[i] = msgs[i]
    BY <1>0 DEF Shapes
<1>3. r.ord \in Nat /\ r.to \in Nat
    BY DEF Rows
<1>4. RowsOrdered'
    <2> SUFFICES ASSUME NEW i \in DOMAIN msgs'
                 PROVE  /\ msgs'[i].ord < i
                        /\ msgs'[i].to < i
                        /\ msgs'[i].to # 0 => msgs'[i].ord > msgs'[msgs'[i].to].ord
        BY DEF RowsOrdered
    <2>1. CASE i = Len(msgs) + 1
        BY <1>1, <1>2, <1>3, <2>1
    <2>2. CASE i \in 1 .. Len(msgs)
        <3>1. /\ msgs[i].ord < i /\ msgs[i].to < i
              /\ msgs[i].to # 0 => msgs[i].ord > msgs[msgs[i].to].ord
            BY <1>0, <1>1, <2>2 DEF RowsOrdered
        <3>2. msgs[i].to # 0 => msgs[i].to \in 1 .. Len(msgs)
            BY <1>1, <2>2, <3>1
        <3> QED BY <1>2, <2>2, <3>1, <3>2
    <2>3. i = Len(msgs) + 1 \/ i \in 1 .. Len(msgs)
        BY <1>1, <1>2
    <2> QED BY <2>1, <2>2, <2>3
<1>5. GensPlaced'
    <2> SUFFICES ASSUME NEW g \in DOMAIN gens'
                 PROVE  /\ gens'[g].to <= Len(msgs')
                        /\ gens'[g].ord <= Len(msgs')
                        /\ gens'[g].ord > msgs'[gens'[g].to].ord
        BY DEF GensPlaced
    <2>1. /\ gens[g].to <= Len(msgs) /\ gens[g].ord <= Len(msgs)
          /\ gens[g].ord > msgs[gens[g].to].ord
        BY <1>0 DEF GensPlaced
    <2>2. gens[g].to \in 1 .. Len(msgs)
        BY <1>1, <2>1
    <2> QED BY <1>1, <1>2, <2>1, <2>2
<1> QED BY <1>4, <1>5 DEF DeletedIsEmpty

\* An empty conversation: no rows, no generations.
LEMMA ReplyInit == Init => ReplyInv
<1> SUFFICES ASSUME Init PROVE ReplyInv
    OBVIOUS
<1>1. msgs = <<>> /\ gens = <<>> /\ conv = TRUE /\ reg = Absent
      /\ stream = [t \in Tabs |-> 0] /\ restarts = 0
    BY DEF Init
<1>2. msgs \in Seq(Rows) /\ gens \in Seq(Generations)
      /\ Len(msgs) = 0 /\ Len(gens) = 0 /\ DOMAIN msgs = {} /\ DOMAIN gens = {}
    BY <1>1
<1>3. Shapes
    BY <1>1, <1>2 DEF Shapes, Absent
<1>4. NumRunning = 0
    BY <1>2, FS_EmptySet DEF NumRunning
<1>5. RoomKept
    BY <1>2, <1>4, ChatAssumption DEF RoomKept
<1> QED BY <1>1, <1>2, <1>3, <1>5
        DEF ReplyInv, DeletedIsEmpty, RowsOrdered, GensPlaced, RegistryLive, Absent

\* Post and PlanResult: a row that answers nothing, under NextOrd.
LEMMA PostKeeps ==
    ASSUME ReplyInv, Post \/ PlanResult
    PROVE  ReplyInv'
<1>0. Shapes /\ RoomKept /\ RowsOrdered /\ RegistryLive
    BY DEF ReplyInv
<1>1. PICK who \in {"user", "assistant"} :
         msgs' = Append(msgs, [role |-> who, ord |-> NextOrd, to |-> 0])
    BY DEF Post, PlanResult
<1>2. conv /\ Room /\ UNCHANGED <<conv, reg, gens, stream, restarts>>
    BY DEF Post, PlanResult
<1>3. NextOrd \in Nat /\ NextOrd <= Len(msgs)
    BY <1>0, NextOrdPast
<1> DEFINE r == [role |-> who, ord |-> NextOrd, to |-> 0]
<1>4. r \in Rows /\ r.ord <= Len(msgs) /\ r.to = 0
    BY <1>3 DEF Rows
<1>5. msgs' = Append(msgs, r)
    BY <1>1
<1> HIDE DEF r
<1>6. gens' = gens /\ gens' \in Seq(Generations) /\ conv' = conv /\ Len(msgs) \in Nat
    BY <1>0, <1>2, ShapeFacts DEF Shapes
<1>7. r.to <= Len(msgs)
    BY <1>4, <1>6
<1>8. DeletedIsEmpty' /\ RowsOrdered' /\ GensPlaced'
    BY <1>2, <1>4, <1>5, <1>6, <1>7, AppendKeepsOrder
<1>9. msgs' \in Seq(Rows) /\ Len(msgs') = Len(msgs) + 1
    BY <1>0, <1>4, <1>5 DEF Shapes
<1>10. Shapes'
    BY <1>0, <1>2, <1>9 DEF Shapes
<1>11. NumRunning' = NumRunning /\ NumRunning \in Nat
    BY <1>0, <1>6, ShapeFacts DEF NumRunning, Running
<1>12. RoomKept'
    BY <1>0, <1>2, <1>6, <1>9, <1>11, ChatAssumption DEF RoomKept, Room
<1>13. RegistryLive'
    BY <1>0, <1>2 DEF RegistryLive, Running
<1> QED BY <1>8, <1>10, <1>12, <1>13 DEF ReplyInv

\* Reconnect, StreamEnds and TabLeaves only move a tab.
LEMMA TabKeeps ==
    ASSUME ReplyInv, NEW t \in Tabs,
           \/ StreamEnds(t) \/ TabLeaves(t)
           \/ \E m \in 1 .. MaxMsgs : Reconnect(t, m)
    PROVE  ReplyInv'
<1>1. UNCHANGED <<conv, msgs, reg, gens, restarts>>
    BY DEF StreamEnds, TabLeaves, Reconnect
<1>2. Shapes
    BY DEF ReplyInv
<1>3. Len(gens) \in Nat /\ reg.gen \in 0 .. Len(gens)
    BY <1>2, ShapeFacts DEF Shapes
<1>4. \E g \in 0 .. Len(gens) : stream' = [stream EXCEPT ![t] = g]
    BY <1>3 DEF StreamEnds, TabLeaves, Reconnect
<1>5. stream' \in [Tabs -> 0 .. Len(gens)]
    BY <1>2, <1>4 DEF Shapes
<1>6. Shapes'
    BY <1>1, <1>2, <1>5 DEF Shapes
<1> QED BY <1>1, <1>6 DEF ReplyInv, DeletedIsEmpty, RoomKept, NumRunning, Running,
                          RowsOrdered, GensPlaced, RegistryLive

\* The new generation holds a place, answers an existing row and has an `ord` past it.
LEMMA GenerateKeeps ==
    ASSUME ReplyInv, NEW t \in Tabs, NEW m \in 1 .. MaxMsgs, Generate(t, m)
    PROVE  ReplyInv'
<1>0. Shapes /\ RoomKept /\ RowsOrdered /\ GensPlaced /\ DeletedIsEmpty
    BY DEF ReplyInv
<1> DEFINE e == [to |-> m, ord |-> NextOrd, state |-> "running"]
<1>1. /\ conv /\ m \in DOMAIN msgs /\ Room /\ Len(gens) < MaxGens
      /\ gens' = Append(gens, e)
      /\ reg' = [to |-> m, gen |-> Len(gens) + 1]
      /\ stream' = [stream EXCEPT ![t] = Len(gens) + 1]
      /\ UNCHANGED <<conv, msgs, restarts>>
    BY DEF Generate
<1>2. /\ NextOrd \in Nat /\ NextOrd <= Len(msgs)
      /\ \A i \in DOMAIN msgs : msgs[i].ord < NextOrd
    BY <1>0, NextOrdPast
<1>3. /\ Len(msgs) \in Nat /\ DOMAIN msgs = 1 .. Len(msgs)
      /\ Len(gens) \in Nat /\ DOMAIN gens = 1 .. Len(gens)
      /\ \A i \in DOMAIN msgs : msgs[i].ord \in Nat
      /\ NumRunning = Cardinality(InFlight(gens)) /\ NumRunning \in Nat
    BY <1>0, ShapeFacts
<1>4. m \in Nat /\ m # 0 /\ m <= Len(msgs) /\ m <= MaxMsgs
    BY <1>1, <1>3, ChatAssumption
<1>5. /\ e \in Generations /\ e.to = m /\ e.ord = NextOrd /\ e.state = "running"
    BY <1>2, <1>4 DEF Generations
<1> HIDE DEF e
<1>6. /\ gens' \in Seq(Generations) /\ Len(gens') = Len(gens) + 1
      /\ DOMAIN gens' = 1 .. (Len(gens) + 1)
      /\ gens'[Len(gens) + 1] = e
      /\ \A g \in 1 .. Len(gens) : gens'[g] = gens[g]
    BY <1>0, <1>1, <1>5 DEF Shapes
<1>7. NumRunning' = NumRunning + 1
    <2>1. NumRunning' = Cardinality(InFlight(gens'))
        BY DEF NumRunning, InFlight, Running
    <2> QED BY <1>0, <1>1, <1>3, <1>5, <2>1, InFlightAppend DEF Shapes
<1>8. Shapes'
    <2>1. stream' \in [Tabs -> 0 .. (Len(gens) + 1)]
        BY <1>0, <1>1, <1>3 DEF Shapes
    <2>2. reg' \in [to : Nat, gen : Nat] /\ reg'.gen <= Len(gens')
        BY <1>1, <1>3, <1>4, <1>6
    <2> QED BY <1>0, <1>1, <1>6, <2>1, <2>2 DEF Shapes
<1>9. RoomKept'
    <2>1. Len(msgs') + NumRunning' <= MaxMsgs /\ Len(gens') <= MaxGens
        BY <1>1, <1>3, <1>6, <1>7, ChatAssumption DEF Room
    <2>2. NextOrd <= MaxMsgs
        BY <1>1, <1>2, <1>3, ChatAssumption DEF Room
    <2>3. ASSUME NEW g \in DOMAIN gens' PROVE gens'[g].to <= MaxMsgs /\ gens'[g].ord <= MaxMsgs
        <3>1. CASE g = Len(gens) + 1
            BY <1>4, <1>5, <1>6, <2>2, <3>1
        <3>2. CASE g \in 1 .. Len(gens)
            BY <1>0, <1>3, <1>6, <3>2 DEF RoomKept
        <3> QED BY <1>3, <1>6, <3>1, <3>2
    <2> QED BY <2>1, <2>3 DEF RoomKept
<1>10. GensPlaced'
    <2> SUFFICES ASSUME NEW g \in DOMAIN gens'
                 PROVE  /\ gens'[g].to <= Len(msgs)
                        /\ gens'[g].ord <= Len(msgs)
                        /\ gens'[g].ord > msgs[gens'[g].to].ord
        BY <1>1 DEF GensPlaced
    <2>1. CASE g = Len(gens) + 1
        BY <1>1, <1>2, <1>3, <1>4, <1>5, <1>6, <2>1
    <2>2. CASE g \in 1 .. Len(gens)
        BY <1>0, <1>1, <1>3, <1>6, <2>2 DEF GensPlaced
    <2> QED BY <1>3, <1>6, <2>1, <2>2
<1>11. RegistryLive'
    BY <1>1, <1>3, <1>5, <1>6 DEF RegistryLive, Running
<1> QED BY <1>0, <1>1, <1>8, <1>9, <1>10, <1>11
        DEF ReplyInv, DeletedIsEmpty, RowsOrdered

\* The reply takes the place its generation held, and goes after the row it answers.
LEMMA GenEndsKeeps ==
    ASSUME ReplyInv, NEW g \in DOMAIN gens, GenEnds(g)
    PROVE  ReplyInv'
<1>0. Shapes /\ RoomKept /\ RowsOrdered /\ GensPlaced /\ DeletedIsEmpty
    BY DEF ReplyInv
<1>1. /\ gens[g].state = "running"
      /\ gens' = [gens EXCEPT ![g].state = "ended"]
      /\ reg' = Absent
      /\ UNCHANGED <<conv, stream, restarts>>
    BY DEF GenEnds, Running
<1>2. /\ Len(msgs) \in Nat /\ DOMAIN msgs = 1 .. Len(msgs)
      /\ Len(gens) \in Nat /\ DOMAIN gens = 1 .. Len(gens)
      /\ NumRunning = Cardinality(InFlight(gens)) /\ NumRunning \in Nat
      /\ \A h \in DOMAIN gens : gens[h] \in Generations
    BY <1>0, ShapeFacts DEF Shapes
<1>3. /\ gens' \in Seq(Generations) /\ DOMAIN gens' = DOMAIN gens /\ Len(gens') = Len(gens)
      /\ \A h \in DOMAIN gens : gens'[h].to = gens[h].to /\ gens'[h].ord = gens[h].ord
    <2>1. [gens[g] EXCEPT !.state = "ended"] \in Generations
        BY <1>2 DEF Generations
    <2> QED BY <1>0, <1>1, <1>2, <2>1 DEF Shapes, Generations
<1>4. NumRunning' = NumRunning - 1
    <2>1. NumRunning' = Cardinality(InFlight(gens'))
        BY DEF NumRunning, InFlight, Running
    <2>2. g \in InFlight(gens)
        BY <1>1 DEF InFlight
    <2> QED BY <1>0, <1>1, <1>2, <2>1, <2>2, InFlightEnd DEF Shapes
<1>5. /\ msgs' \in Seq(Rows) /\ Len(msgs') <= Len(msgs) + 1 /\ Len(msgs') \in Nat
      /\ DeletedIsEmpty' /\ RowsOrdered' /\ GensPlaced'
    <2>1. CASE conv
        <3> DEFINE r == [role |-> "assistant", ord |-> gens[g].ord, to |-> gens[g].to]
        <3>1. msgs' = Append(msgs, r) /\ conv' = conv
            BY <1>1, <2>1 DEF GenEnds
        <3>2. /\ r \in Rows /\ r.ord <= Len(msgs) /\ r.to <= Len(msgs)
              /\ r.ord > msgs[r.to].ord
            BY <1>0, <1>2, <2>1 DEF Rows, Generations, GensPlaced
        <3> HIDE DEF r
        <3>3. DeletedIsEmpty' /\ RowsOrdered' /\ GensPlaced'
            BY <1>3, <2>1, <3>1, <3>2, AppendKeepsOrder
        <3> QED BY <1>0, <1>2, <3>1, <3>2, <3>3 DEF Shapes
    <2>2. CASE ~ conv
        <3>1. msgs' = msgs /\ ~ conv' /\ msgs = <<>>
            BY <1>0, <1>1, <2>2 DEF GenEnds, DeletedIsEmpty
        <3> QED BY <1>0, <1>2, <3>1 DEF Shapes, DeletedIsEmpty, RowsOrdered, GensPlaced
    <2> QED BY <2>1, <2>2
<1>6. Shapes'
    BY <1>0, <1>1, <1>2, <1>3, <1>5 DEF Shapes, Absent
<1>7. RoomKept'
    <2>1. Len(msgs') + NumRunning' <= MaxMsgs
        BY <1>0, <1>2, <1>4, <1>5, ChatAssumption DEF RoomKept
    <2> QED BY <1>0, <1>3, <2>1 DEF RoomKept
<1>8. RegistryLive'
    BY <1>1 DEF RegistryLive, Absent
<1> QED BY <1>5, <1>6, <1>7, <1>8 DEF ReplyInv

\* chat_delete leaves the running generations their places.
LEMMA DeleteKeeps ==
    ASSUME ReplyInv, Delete
    PROVE  ReplyInv'
<1>0. Shapes /\ RoomKept /\ RegistryLive
    BY DEF ReplyInv
<1>1. msgs' = <<>> /\ conv' = FALSE /\ UNCHANGED <<reg, gens, stream, restarts>>
    BY DEF Delete
<1>2. msgs' \in Seq(Rows) /\ Len(msgs') = 0 /\ DOMAIN msgs' = {}
    BY <1>1
<1>3. NumRunning' = NumRunning /\ NumRunning \in Nat /\ Len(msgs) \in Nat
    BY <1>0, <1>1, ShapeFacts DEF NumRunning, Running
<1>4. Shapes'
    BY <1>0, <1>1, <1>2 DEF Shapes
<1>5. RoomKept'
    BY <1>0, <1>1, <1>2, <1>3, ChatAssumption DEF RoomKept
<1>6. DeletedIsEmpty' /\ RowsOrdered' /\ GensPlaced' /\ RegistryLive'
    BY <1>0, <1>1, <1>2 DEF DeletedIsEmpty, RowsOrdered, GensPlaced, RegistryLive, Running
<1> QED BY <1>4, <1>5, <1>6 DEF ReplyInv

\* Tasks and registry go together: nobody is left in the registry, and the places
\* of the lost generations are free.
LEMMA RestartKeeps ==
    ASSUME ReplyInv, Restart
    PROVE  ReplyInv'
<1>0. Shapes /\ RoomKept /\ RowsOrdered /\ GensPlaced /\ DeletedIsEmpty
    BY DEF ReplyInv
<1> DEFINE lost == [g \in DOMAIN gens |->
                      IF gens[g].state = "running" THEN [gens[g] EXCEPT !.state = "lost"]
                                                   ELSE gens[g]]
<1>1. /\ restarts' = restarts + 1 /\ reg' = Absent /\ gens' = lost
      /\ stream' = [t \in Tabs |-> 0] /\ UNCHANGED <<conv, msgs>>
    BY DEF Restart, Running
<1>2. /\ Len(gens) \in Nat /\ DOMAIN gens = 1 .. Len(gens) /\ Len(msgs) \in Nat
      /\ NumRunning \in Nat
      /\ \A g \in DOMAIN gens : gens[g] \in Generations
    BY <1>0, ShapeFacts DEF Shapes
<1>3. \A g \in DOMAIN gens : /\ lost[g] \in Generations
                             /\ lost[g].to = gens[g].to /\ lost[g].ord = gens[g].ord
    BY <1>2 DEF Generations
<1>4. lost \in Seq(Generations) /\ DOMAIN lost = DOMAIN gens /\ Len(lost) = Len(gens)
    BY <1>2, <1>3
<1>5. NumRunning' = 0
    <2>1. NumRunning' = Cardinality(InFlight(gens'))
        BY DEF NumRunning, InFlight, Running
    <2>2. Cardinality(InFlight(lost)) = 0
        BY <1>0, InFlightLost DEF Shapes
    <2> QED BY <1>1, <2>1, <2>2
<1> HIDE DEF lost
<1>6. Shapes'
    BY <1>0, <1>1, <1>2, <1>4 DEF Shapes, Absent
<1>7. RoomKept'
    BY <1>0, <1>1, <1>2, <1>3, <1>4, <1>5, ChatAssumption DEF RoomKept
<1>8. GensPlaced'
    BY <1>0, <1>1, <1>3, <1>4 DEF GensPlaced
<1> QED BY <1>0, <1>1, <1>6, <1>7, <1>8
        DEF ReplyInv, DeletedIsEmpty, RowsOrdered, RegistryLive, Absent

\* Every handler and every stutter preserves the invariant.
LEMMA ReplyNext == ReplyInv /\ [Next]_vars => ReplyInv'
<1> SUFFICES ASSUME ReplyInv, [Next]_vars PROVE ReplyInv'
    OBVIOUS
<1>1. CASE Post \/ PlanResult
    BY <1>1, PostKeeps
<1>2. CASE Delete
    BY <1>2, DeleteKeeps
<1>3. CASE Restart
    BY <1>3, RestartKeeps
<1>4. ASSUME NEW t \in Tabs,
             \/ StreamEnds(t) \/ TabLeaves(t)
             \/ \E m \in 1 .. MaxMsgs : Reconnect(t, m)
      PROVE  ReplyInv'
    BY <1>4, TabKeeps
<1>5. ASSUME NEW t \in Tabs, NEW m \in 1 .. MaxMsgs, Generate(t, m)
      PROVE  ReplyInv'
    BY <1>5, GenerateKeeps
<1>6. ASSUME NEW g \in DOMAIN gens, GenEnds(g)
      PROVE  ReplyInv'
    BY <1>6, GenEndsKeeps
<1>7. CASE UNCHANGED vars
    BY <1>7 DEF vars, ReplyInv, Shapes, DeletedIsEmpty, RoomKept, NumRunning, Running,
                RowsOrdered, GensPlaced, RegistryLive
<1> QED BY <1>1, <1>2, <1>3, <1>4, <1>5, <1>6, <1>7 DEF Next

\* Every reachable state of the conversation satisfies the inductive invariant.
THEOREM ReplyInvariant == Spec => []ReplyInv
BY ReplyInit, ReplyNext, PTL DEF Spec

\* The rows of the database have their types and bounds.
LEMMA ReplyTyped == ReplyInv => RegistrySound
<1> SUFFICES ASSUME ReplyInv PROVE RegistrySound
    OBVIOUS
<1>0. Shapes /\ RoomKept /\ RowsOrdered /\ RegistryLive
    BY DEF ReplyInv
<1>1. /\ Len(msgs) \in Nat /\ DOMAIN msgs = 1 .. Len(msgs)
      /\ Len(gens) \in Nat /\ DOMAIN gens = 1 .. Len(gens)
      /\ \A i \in DOMAIN msgs : /\ msgs[i].ord \in Nat /\ msgs[i].to \in Nat
                                /\ msgs[i].role \in {"user", "assistant"}
      /\ \A g \in DOMAIN gens : gens[g].state \in {"running", "ended", "lost"}
      /\ reg.gen \in Nat
      /\ NumRunning \in Nat
    BY <1>0, ShapeFacts
<1>2. Len(msgs) <= MaxMsgs
    BY <1>0, <1>1, ChatAssumption DEF RoomKept
<1>3. \A i \in DOMAIN msgs : msgs[i].ord \in 0 .. MaxMsgs /\ msgs[i].to \in 0 .. MaxMsgs
    BY <1>0, <1>1, <1>2, ChatAssumption DEF RowsOrdered
<1>4. TypeOK
    BY <1>0, <1>1, <1>2, <1>3 DEF TypeOK, Shapes, RoomKept
<1> QED BY <1>0, <1>4 DEF RegistrySound

\* However streams, retries, deletions and restarts interleave, the registry and the
\* open streams name generations that exist, the registry one that is still in
\* flight and answers the message it is filed under (chat_stream, _generate_reply).
THEOREM RegistryNamesLive == Spec => []RegistrySound
BY ReplyInvariant, ReplyTyped, PTL

\* A message that has its reply is never generated for again: the reply's `ord` is
\* past the message's, so the 409 check of chat_stream sees it, also when rows of
\* other messages and plan-card results were written in between.
THEOREM RepliedOnce == Spec => NoneAfterReply
<1> DEFINE Again == \A m \in DOMAIN msgs :
          (\E i \in DOMAIN msgs : msgs[i].role = "assistant" /\ msgs[i].to = m)
             => ~ \E g \in DOMAIN gens' : g \notin DOMAIN gens /\ gens'[g].to = m
<1>1. ASSUME ReplyInv, [Next]_vars PROVE Again \/ UNCHANGED vars
    <2>0. Shapes /\ RowsOrdered
        BY <1>1 DEF ReplyInv
    <2>1. /\ Len(msgs) \in Nat /\ DOMAIN msgs = 1 .. Len(msgs)
          /\ Len(gens) \in Nat /\ DOMAIN gens = 1 .. Len(gens)
        BY <2>0, ShapeFacts
    <2>2. ASSUME NEW t \in Tabs, NEW n \in 1 .. MaxMsgs, Generate(t, n)
          PROVE  Again
        <3>1. ASSUME NEW m \in DOMAIN msgs, NEW i \in DOMAIN msgs,
                     msgs[i].role = "assistant", msgs[i].to = m,
                     NEW g \in DOMAIN gens', g \notin DOMAIN gens, gens'[g].to = m
              PROVE  FALSE
            <4>1. gens' = Append(gens, [to |-> n, ord |-> NextOrd, state |-> "running"])
                BY <2>2 DEF Generate
            <4>2. g = Len(gens) + 1 /\ gens'[g].to = n
                BY <2>0, <2>1, <3>1, <4>1 DEF Shapes
            <4>3. msgs[i].ord > msgs[n].ord
                BY <2>0, <2>1, <3>1, <4>2 DEF RowsOrdered
            <4>4. ~ Answered(n)
                BY <2>2 DEF Generate
            <4> QED BY <3>1, <4>3, <4>4 DEF Answered
        <3> QED BY <3>1
    <2>3. CASE DOMAIN gens' = DOMAIN gens
        BY <2>3
    <2>4. (\E t \in Tabs, n \in 1 .. MaxMsgs : Generate(t, n))
          \/ DOMAIN gens' = DOMAIN gens \/ UNCHANGED vars
        BY <1>1 DEF Next, Post, PlanResult, Delete, Restart, StreamEnds, TabLeaves,
                    Reconnect, GenEnds
    <2> HIDE DEF Again
    <2> QED BY <2>2, <2>3, <2>4
<1>2. Spec => [][Again]_vars
    <2>1. ReplyInv /\ [Next]_vars => [Again]_vars
        BY <1>1
    <2> HIDE DEF Again
    <2> QED BY ReplyInvariant, <2>1, PTL DEF Spec
<1> QED BY <1>2 DEF NoneAfterReply
=============================================================================
