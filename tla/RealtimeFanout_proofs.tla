------------------------- MODULE RealtimeFanout_proofs -------------------------
(***************************************************************************)
(* The fan-out of events, for any sockets, families and bounds: types, no  *)
(* routed event is lost, nobody who stays connected misses one, and each   *)
(* client sees them in order.                                              *)
(***************************************************************************)
EXTENDS RealtimeFanout, SequenceTheorems, FiniteSetTheorems, TLAPS

-----------------------------------------------------------------------------
(* Sequences of events and the sets of their elements *)

Ascending(q) == \A i, k \in DOMAIN q : i < k => q[i] < q[k]

Before(A, B) == \A a \in A, b \in B : a < b

LEMMA InEmpty == In(<<>>) = {}
BY DEF In

LEMMA InSeq ==
    ASSUME NEW S, NEW T, NEW q \in Seq(S)
    PROVE  /\ In(q) \subseteq S
           /\ In(q) \subseteq T => q \in Seq(T)
<1>1. q \in [1 .. Len(q) -> S] /\ Len(q) \in Nat /\ DOMAIN q = 1 .. Len(q)
  OBVIOUS
<1>2. In(q) \subseteq S  BY <1>1 DEF In
<1>3. ASSUME In(q) \subseteq T PROVE q \in Seq(T)
  <2>1. \A i \in 1 .. Len(q) : q[i] \in T  BY <1>1, <1>3 DEF In
  <2>2. q \in [1 .. Len(q) -> T]  BY <1>1, <2>1
  <2>  QED  BY <1>1, <2>2, SeqDef
<1>  QED  BY <1>2, <1>3

LEMMA InConcat ==
    ASSUME NEW S, NEW q \in Seq(S), NEW r \in Seq(S)
    PROVE  /\ q \o r \in Seq(S)
           /\ In(q \o r) = In(q) \cup In(r)
<1>1. /\ Len(q \o r) = Len(q) + Len(r) /\ q \o r \in Seq(S)
      /\ \A i \in 1 .. Len(q) + Len(r) :
            (q \o r)[i] = IF i <= Len(q) THEN q[i] ELSE r[i - Len(q)]
      /\ Len(q) \in Nat /\ Len(r) \in Nat
  BY ConcatProperties
<1>2. In(q \o r) \subseteq In(q) \cup In(r)  BY <1>1, SMTT(30) DEF In
<1>3. In(q) \subseteq In(q \o r)  BY <1>1 DEF In
<1>4. In(r) \subseteq In(q \o r)
  <2>  SUFFICES ASSUME NEW i \in 1 .. Len(r) PROVE r[i] \in In(q \o r)
    BY SMTT(30) DEF In
  <2>1. Len(q) + i \in 1 .. Len(q) + Len(r)  BY <1>1
  <2>2. (q \o r)[Len(q) + i] = r[i]  BY <1>1, <2>1, SMTT(30)
  <2>  QED  BY <1>1, <2>1, <2>2, SMTT(30) DEF In
<1>  QED  BY <1>1, <1>2, <1>3, <1>4

LEMMA InAppend ==
    ASSUME NEW S, NEW q \in Seq(S), NEW e \in S
    PROVE  /\ Append(q, e) \in Seq(S)
           /\ In(Append(q, e)) = In(q) \cup {e}
<1>1. /\ Append(q, e) \in Seq(S) /\ Len(Append(q, e)) = Len(q) + 1
      /\ \A i \in 1 .. Len(q) : Append(q, e)[i] = q[i]
      /\ Append(q, e)[Len(q) + 1] = e
      /\ Len(q) \in Nat
  BY AppendProperties
<1>2. In(Append(q, e)) \subseteq In(q) \cup {e}  BY <1>1 DEF In
<1>3. In(q) \subseteq In(Append(q, e))  BY <1>1 DEF In
<1>4. e \in In(Append(q, e))  BY <1>1 DEF In
<1>  QED  BY <1>1, <1>2, <1>3, <1>4

LEMMA InTail ==
    ASSUME NEW S, NEW q \in Seq(S), q # <<>>
    PROVE  /\ Tail(q) \in Seq(S) /\ Head(q) \in S
           /\ In(q) = {Head(q)} \cup In(Tail(q))
<1>1. /\ Tail(q) \in Seq(S) /\ Head(q) \in S /\ Len(Tail(q)) = Len(q) - 1
      /\ Len(q) \in Nat /\ Len(q) >= 1 /\ Head(q) = q[1]
      /\ \A i \in 1 .. Len(q) - 1 : Tail(q)[i] = q[i + 1]
  BY HeadTailProperties, EmptySeq
<1>2. In(Tail(q)) \subseteq In(q)  BY <1>1 DEF In
<1>3. Head(q) \in In(q)  BY <1>1 DEF In
<1>4. In(q) \subseteq {Head(q)} \cup In(Tail(q))
  <2>  SUFFICES ASSUME NEW i \in 1 .. Len(q), i # 1 PROVE q[i] \in In(Tail(q))
    BY <1>1 DEF In
  <2>1. i - 1 \in 1 .. Len(q) - 1  BY <1>1
  <2>2. Tail(q)[i - 1] = q[i]
    <3>1. Tail(q)[i - 1] = q[(i - 1) + 1]  BY <1>1, <2>1
    <3>  QED  BY <3>1, <1>1
  <2>3. DOMAIN Tail(q) = 1 .. Len(q) - 1  BY <1>1
  <2>  QED  BY <2>1, <2>2, <2>3 DEF In
<1>  QED  BY <1>1, <1>2, <1>3, <1>4

LEMMA AscendingTail ==
    ASSUME NEW q \in Seq(Nat), q # <<>>, Ascending(q)
    PROVE  Ascending(Tail(q)) /\ Before({Head(q)}, In(Tail(q)))
<1>1. /\ Len(Tail(q)) = Len(q) - 1 /\ Tail(q) \in Seq(Nat)
      /\ Len(q) \in Nat /\ Len(q) >= 1 /\ Head(q) = q[1]
      /\ \A i \in 1 .. Len(q) - 1 : Tail(q)[i] = q[i + 1]
  BY HeadTailProperties, EmptySeq
<1>2. ASSUME NEW i \in 1 .. Len(q) - 1, NEW k \in 1 .. Len(q) - 1, i < k
      PROVE  Tail(q)[i] < Tail(q)[k]
  <2>1. i + 1 \in 1 .. Len(q) /\ k + 1 \in 1 .. Len(q) /\ i + 1 < k + 1  BY <1>1, <1>2
  <2>  QED  BY <1>1, <2>1 DEF Ascending
<1>3. ASSUME NEW i \in 1 .. Len(q) - 1 PROVE Head(q) < Tail(q)[i]
  <2>1. 1 \in 1 .. Len(q) /\ i + 1 \in 1 .. Len(q) /\ 1 < i + 1  BY <1>1
  <2>  QED  BY <1>1, <2>1 DEF Ascending
<1>4. DOMAIN Tail(q) = 1 .. Len(q) - 1  BY <1>1
<1>5. Ascending(Tail(q))  BY <1>2, <1>4 DEF Ascending
<1>6. Before({Head(q)}, In(Tail(q)))  BY <1>3, <1>4 DEF Before, In
<1>  QED  BY <1>5, <1>6

LEMMA AscendingAppend ==
    ASSUME NEW q \in Seq(Nat), NEW e \in Nat, Ascending(q), Before(In(q), {e})
    PROVE  Ascending(Append(q, e))
<1>1. /\ Len(Append(q, e)) = Len(q) + 1 /\ Append(q, e) \in Seq(Nat)
      /\ \A i \in 1 .. Len(q) : Append(q, e)[i] = q[i]
      /\ Append(q, e)[Len(q) + 1] = e
      /\ Len(q) \in Nat
  BY AppendProperties
<1>  SUFFICES ASSUME NEW i \in 1 .. Len(q) + 1, NEW k \in 1 .. Len(q) + 1, i < k
              PROVE  Append(q, e)[i] < Append(q, e)[k]
  BY <1>1 DEF Ascending
<1>2. CASE k <= Len(q)  BY <1>1, <1>2 DEF Ascending
<1>3. CASE k = Len(q) + 1
  <2>1. i \in 1 .. Len(q) /\ q[i] \in In(q)  BY <1>1, <1>3 DEF In
  <2>  QED  BY <1>1, <1>3, <2>1 DEF Before
<1>  QED  BY <1>1, <1>2, <1>3

LEMMA AscendingConcat ==
    ASSUME NEW q \in Seq(Nat), NEW r \in Seq(Nat),
           Ascending(q), Ascending(r), Before(In(q), In(r))
    PROVE  Ascending(q \o r)
<1>1. /\ Len(q \o r) = Len(q) + Len(r) /\ q \o r \in Seq(Nat)
      /\ \A i \in 1 .. Len(q) + Len(r) :
            (q \o r)[i] = IF i <= Len(q) THEN q[i] ELSE r[i - Len(q)]
      /\ Len(q) \in Nat /\ Len(r) \in Nat
  BY ConcatProperties
<1>  SUFFICES ASSUME NEW i \in 1 .. Len(q) + Len(r), NEW k \in 1 .. Len(q) + Len(r), i < k
              PROVE  (q \o r)[i] < (q \o r)[k]
  BY <1>1 DEF Ascending
<1>2. CASE k <= Len(q)  BY <1>1, <1>2 DEF Ascending
<1>3. CASE i <= Len(q) /\ k > Len(q)
  <2>1. k - Len(q) \in 1 .. Len(r)  BY <1>1, <1>3
  <2>2. q[i] \in In(q) /\ r[k - Len(q)] \in In(r)  BY <1>1, <1>3, <2>1 DEF In
  <2>  QED  BY <1>1, <1>3, <2>2 DEF Before
<1>4. CASE i > Len(q)
  <2>1. i - Len(q) \in 1 .. Len(r) /\ k - Len(q) \in 1 .. Len(r)  BY <1>1, <1>4
  <2>2. r[i - Len(q)] < r[k - Len(q)]  BY <2>1 DEF Ascending
  <2>  QED  BY <1>1, <1>4, <2>2
<1>  QED  BY <1>1, <1>2, <1>3, <1>4

-----------------------------------------------------------------------------
(* What a broadcast sends to one socket *)

LEMMA FewTargets ==
    ASSUME NEW s, NEW e, NEW rooms,
           rooms = {room \in Targets(published[e]) : <<s, room>> \in members}
    PROVE  /\ IsFiniteSet(rooms) /\ Cardinality(rooms) \in 0 .. 2
           /\ rooms = {} <=> Cardinality(rooms) = 0
<1>1. PICK a, b : Targets(published[e]) = {a} \cup {b}
  <2>1. CASE published[e] \in DOMAIN RoomOf
    <3>1. Targets(published[e]) = {"operators"} \cup {RoomOf[published[e]]}
      BY <2>1 DEF Targets
    <3>  QED  BY <3>1
  <2>2. CASE published[e] \notin DOMAIN RoomOf
    <3>1. Targets(published[e]) = {"operators"} \cup {"operators"}
      BY <2>2 DEF Targets
    <3>  QED  BY <3>1
  <2>  QED  BY <2>1, <2>2
<1>2. rooms = {} \/ rooms = {a} \/ rooms = {b} \/ rooms = {a} \cup {b}
  BY <1>1
<1>3. /\ IsFiniteSet({}) /\ Cardinality({}) = 0
      /\ IsFiniteSet({a}) /\ Cardinality({a}) = 1
      /\ IsFiniteSet({b}) /\ Cardinality({b}) = 1
  BY FS_EmptySet, FS_Singleton
<1>4. IsFiniteSet({a} \cup {b}) /\ Cardinality({a} \cup {b}) \in 1 .. 2
  <2>1. {a} \cup {b} = {b} \cup {a}  OBVIOUS
  <2>2. IsFiniteSet({b} \cup {a})
        /\ Cardinality({b} \cup {a}) = IF a \in {b} THEN Cardinality({b})
                                                    ELSE Cardinality({b}) + 1
    BY <1>3, FS_AddElement
  <2>  QED  BY <1>3, <2>1, <2>2
<1>5. CASE rooms = {}
  <2>1. IsFiniteSet(rooms) /\ Cardinality(rooms) = Cardinality({})  BY <1>3, <1>5, Zenon
  <2>2. Cardinality({}) \in 0 .. 0  BY <1>3
  <2>3. rooms = {}  BY <1>5
  <2>  QED  BY <2>1, <2>2, <2>3
<1>6. CASE rooms = {a}
  <2>1. IsFiniteSet(rooms) /\ Cardinality(rooms) = Cardinality({a})  BY <1>3, <1>6, Zenon
  <2>2. Cardinality({a}) \in 1 .. 2  BY <1>3
  <2>3. rooms # {}  BY <1>6
  <2>4. Cardinality(rooms) \in 1 .. 2  BY <2>1, <2>2, Zenon
  <2>5. Cardinality(rooms) \in 0 .. 2  BY <2>4
  <2>6. Cardinality(rooms) # 0  BY <2>4
  <2>  QED  BY <2>1, <2>3, <2>5, <2>6, Zenon
<1>7. CASE rooms = {b}
  <2>1. IsFiniteSet(rooms) /\ Cardinality(rooms) = Cardinality({b})  BY <1>3, <1>7, Zenon
  <2>2. Cardinality({b}) \in 1 .. 2  BY <1>3
  <2>3. rooms # {}  BY <1>7
  <2>4. Cardinality(rooms) \in 1 .. 2  BY <2>1, <2>2, Zenon
  <2>5. Cardinality(rooms) \in 0 .. 2  BY <2>4
  <2>6. Cardinality(rooms) # 0  BY <2>4
  <2>  QED  BY <2>1, <2>3, <2>5, <2>6, Zenon
<1>8. CASE rooms = {a} \cup {b}
  <2>1. IsFiniteSet(rooms) /\ Cardinality(rooms) = Cardinality({a} \cup {b})  BY <1>4, <1>8, Zenon
  <2>2. Cardinality({a} \cup {b}) \in 1 .. 2  BY <1>4
  <2>3. rooms # {}  BY <1>8
  <2>4. Cardinality(rooms) \in 1 .. 2  BY <2>1, <2>2, Zenon
  <2>5. Cardinality(rooms) \in 0 .. 2  BY <2>4
  <2>6. Cardinality(rooms) # 0  BY <2>4
  <2>  QED  BY <2>1, <2>3, <2>5, <2>6, Zenon
<1>  QED  BY <1>2, <1>5, <1>6, <1>7, <1>8

\* Up to two frames of the one event, and at least one to who is connected.
LEMMA FramesOfEvent ==
    ASSUME NEW s, NEW e
    PROVE  /\ Frames(s, e) \in Seq({e}) /\ Len(Frames(s, e)) \in 0 .. 2
           /\ Connected(s) => In(Frames(s, e)) = {e}
           /\ (\A room : <<s, room>> \notin members) => Frames(s, e) = <<>>
<1>  DEFINE rooms == {room \in Targets(published[e]) : <<s, room>> \in members}
<1>1. /\ Cardinality(rooms) \in 0 .. 2
      /\ rooms = {} <=> Cardinality(rooms) = 0
  BY FewTargets
<1>2. Frames(s, e) = [i \in 1 .. Cardinality(rooms) |-> e]  BY DEF Frames
<1>  HIDE DEF rooms
<1>3. /\ Frames(s, e) \in Seq({e}) /\ Len(Frames(s, e)) = Cardinality(rooms)
  <2>  DEFINE n == Cardinality(rooms)
  <2>  HIDE DEF n
  <2>1. n \in Nat /\ Frames(s, e) = [i \in 1 .. n |-> e]  BY <1>1, <1>2 DEF n
  <2>2. Frames(s, e) \in [1 .. n -> {e}]  BY <2>1
  <2>3. Frames(s, e) \in Seq({e})  BY <2>1, <2>2, SeqDef
  <2>4. DOMAIN Frames(s, e) = 1 .. n  BY <2>2
  <2>5. Len(Frames(s, e)) = n  BY <2>1, <2>3, <2>4, LenProperties
  <2>  QED  BY <2>3, <2>5 DEF n
<1>4. ASSUME Connected(s) PROVE In(Frames(s, e)) = {e}
  <2>1. "operators" \in rooms  BY <1>4 DEF rooms, Connected, Targets
  <2>2. 1 \in 1 .. Cardinality(rooms)  BY <1>1, <2>1
  <2>  QED  BY <1>2, <2>2 DEF In
<1>5. ASSUME \A room : <<s, room>> \notin members PROVE Frames(s, e) = <<>>
  <2>1. rooms = {}  BY <1>5 DEF rooms
  <2>2. Len(Frames(s, e)) = 0  BY <1>1, <1>3, <2>1
  <2>  QED  BY <1>3, <2>2, EmptySeq
<1>  QED  BY <1>1, <1>3, <1>4, <1>5

-----------------------------------------------------------------------------
(* Types *)

LEMMA TypeInit == Init => TypeOK
<1>  SUFFICES ASSUME Init PROVE TypeOK
  OBVIOUS
<1>1. <<>> \in Seq(Families) /\ <<>> \in Seq(EventIds) /\ Len(<<>>) = 0
  OBVIOUS
<1>2. published = <<>> /\ Len(published) = 0  BY <1>1 DEF Init
<1>3. members = {} /\ routed = {} /\ shown = {}  BY DEF Init
<1>4. since \in [Sockets -> 0 .. Len(published)]  BY <1>2 DEF Init
<1>5. inbox \in [Sockets -> Seq(EventIds)]  BY <1>1 DEF Init
<1>6. MaxEvents \in Nat /\ MaxFaults \in Nat  BY BoundsAssumption
<1>7. faults \in 0 .. MaxFaults /\ Len(published) <= MaxEvents  BY <1>2, <1>6 DEF Init
<1>  QED  BY <1>1, <1>2, <1>3, <1>4, <1>5, <1>7 DEF Init, TypeOK

\* The events there are only become more.
LEMMA MoreEvents ==
    ASSUME TypeOK, NEW prefix \in Families, PublishEvent(prefix)
    PROVE  /\ published' \in Seq(Families)
           /\ Len(published') = Len(published) + 1 /\ Len(published') <= MaxEvents
           /\ EventIds \subseteq EventIds' /\ Len(published') \in EventIds'
           /\ Before(EventIds, {Len(published')})
           /\ \A q \in Seq(EventIds) : q \in Seq(EventIds')
<1>1. published \in Seq(Families) /\ published' = Append(published, prefix)
  BY DEF TypeOK, PublishEvent
<1>2. published' \in Seq(Families) /\ Len(published') = Len(published) + 1
      /\ Len(published) \in Nat
  BY <1>1, AppendProperties
<1>3. Len(published) < MaxEvents  BY DEF PublishEvent
<1>4. MaxEvents \in Nat  BY BoundsAssumption
<1>5. EventIds = 1 .. Len(published) /\ EventIds' = 1 .. Len(published) + 1
  BY <1>2 DEF EventIds
<1>6. EventIds \subseteq EventIds' /\ Len(published') \in EventIds'  BY <1>2, <1>5
<1>7. Before(EventIds, {Len(published')})  BY <1>2, <1>5 DEF Before
<1>8. Len(published') <= MaxEvents  BY <1>2, <1>3, <1>4
<1>9. ASSUME NEW q \in Seq(EventIds) PROVE q \in Seq(EventIds')
  BY <1>6, SeqMonotonic
<1>  QED  BY <1>2, <1>6, <1>7, <1>8, <1>9

LEMMA TypePublish ==
    ASSUME TypeOK, NEW prefix \in Families, PublishEvent(prefix)
    PROVE  TypeOK'
<1>1. /\ published' \in Seq(Families)
      /\ Len(published') = Len(published) + 1 /\ Len(published') <= MaxEvents
      /\ EventIds \subseteq EventIds' /\ Len(published') \in EventIds'
      /\ \A q \in Seq(EventIds) : q \in Seq(EventIds')
  BY MoreEvents
<1>2. /\ UNCHANGED <<bound, pushed, handled, up, listening, members, since, inbox, shown, faults>>
      /\ \/ queue' = queue /\ routed' = routed
         \/ queue' = Append(queue, Len(published')) /\ routed' = routed \cup {Len(published')}
  BY DEF PublishEvent, gatewayVars, socketVars
<1>3. queue' \in Seq(EventIds')
  <2>1. queue \in Seq(EventIds')  BY <1>1 DEF TypeOK
  <2>2. Append(queue, Len(published')) \in Seq(EventIds')  BY <1>1, <2>1, InAppend
  <2>  QED  BY <1>2, <2>1, <2>2
<1>4. routed' \subseteq EventIds' /\ shown' \subseteq EventIds'  BY <1>1, <1>2 DEF TypeOK
<1>5. since' \in [Sockets -> 0 .. Len(published')]
  <2>1. since \in [Sockets -> 0 .. Len(published)] /\ published \in Seq(Families)
    BY DEF TypeOK
  <2>2. Len(published) \in Nat  BY <2>1, LenProperties
  <2>3. 0 .. Len(published) \subseteq 0 .. Len(published')  BY <1>1, <2>2
  <2>4. since \in [Sockets -> 0 .. Len(published')]  BY <2>1, <2>3
  <2>  QED  BY <1>2, <2>4
<1>6. inbox' \in [Sockets -> Seq(EventIds')]
  <2>1. inbox \in [Sockets -> Seq(EventIds)]  BY DEF TypeOK
  <2>2. inbox \in [Sockets -> Seq(EventIds')]  BY <1>1, <2>1
  <2>  QED  BY <1>2, <2>2
<1>7. pushed' \in Seq(EventIds') /\ handled' \in Seq(EventIds')  BY <1>1, <1>2 DEF TypeOK
<1>8. \A m \in members' : Connected(m[1])'  BY <1>2 DEF TypeOK, Connected
<1>  QED  BY <1>1, <1>2, <1>3, <1>4, <1>5, <1>6, <1>7, <1>8 DEF TypeOK

\* Steps that publish nothing.
LEMMA SameEvents ==
    ASSUME published' = published
    PROVE  EventIds' = EventIds /\ Len(published') = Len(published)
BY DEF EventIds

LEMMA TypeBroker ==
    ASSUME TypeOK, CreateEventConsumer \/ Deliver \/ Ack
    PROVE  TypeOK'
<1>1. published' = published /\ EventIds' = EventIds
  BY SameEvents DEF CreateEventConsumer, Deliver, Ack, brokerVars
<1>2. CASE CreateEventConsumer
  <2>1. \A m \in members' : Connected(m[1])'
    BY <1>2 DEF TypeOK, Connected, CreateEventConsumer, socketVars
  <2>  QED  BY <1>1, <1>2, <2>1 DEF TypeOK, CreateEventConsumer, socketVars
<1>3. CASE Deliver
  <2>1. queue' \in Seq(EventIds) /\ Head(queue) \in EventIds
    BY <1>3, InTail DEF TypeOK, Deliver
  <2>2. pushed' \in Seq(EventIds)  BY <1>3, <2>1, InAppend DEF TypeOK, Deliver
  <2>3. \A m \in members' : Connected(m[1])'
    BY <1>3 DEF TypeOK, Connected, Deliver, socketVars
  <2>4. up' = up /\ listening' = listening /\ listening /\ handled' = handled
    BY <1>3 DEF Deliver, gatewayVars
  <2>5. ~up' => pushed' = <<>>  BY <2>4 DEF TypeOK
  <2>  QED  BY <1>1, <1>3, <2>1, <2>2, <2>3, <2>4, <2>5 DEF TypeOK, Deliver, socketVars
<1>4. CASE Ack
  <2>1. handled' \in Seq(EventIds)  BY <1>4, InTail DEF TypeOK, Ack
  <2>2. \A m \in members' : Connected(m[1])'
    BY <1>4 DEF TypeOK, Connected, Ack, socketVars
  <2>3. ~listening' => handled' = <<>>  BY <1>4 DEF TypeOK, Ack, gatewayVars
  <2>  QED  BY <1>1, <1>4, <2>1, <2>2, <2>3 DEF TypeOK, Ack, brokerVars, gatewayVars, socketVars
<1>  QED  BY <1>2, <1>3, <1>4

LEMMA TypeBroadcast ==
    ASSUME TypeOK, Broadcast
    PROVE  TypeOK'
<1>  DEFINE e == Head(pushed)
<1>1. /\ published' = published /\ EventIds' = EventIds
      /\ UNCHANGED <<bound, routed, queue, up, listening, members, since, faults>>
      /\ pushed # <<>> /\ pushed' = Tail(pushed) /\ shown' = shown \cup {e}
      /\ handled' = IF listening THEN Append(handled, e) ELSE handled
      /\ inbox' = [s \in Sockets |-> inbox[s] \o Frames(s, e)]
  BY SameEvents DEF Broadcast, brokerVars, gatewayVars
<1>2. e \in EventIds /\ pushed' \in Seq(EventIds)  BY <1>1, InTail DEF TypeOK
<1>  HIDE DEF e
<1>3. handled' \in Seq(EventIds)  BY <1>1, <1>2, InAppend DEF TypeOK
<1>4. shown' \subseteq EventIds  BY <1>1, <1>2 DEF TypeOK
<1>5. inbox' \in [Sockets -> Seq(EventIds)]
  <2>1. ASSUME NEW s \in Sockets PROVE inbox[s] \o Frames(s, e) \in Seq(EventIds)
    <3>1. Frames(s, e) \in Seq(EventIds)
      <4>1. Frames(s, e) \in Seq({e})  BY FramesOfEvent
      <4>2. {e} \subseteq EventIds  BY <1>2
      <4>  QED  BY <4>1, <4>2, SeqMonotonic
    <3>2. inbox[s] \in Seq(EventIds)  BY DEF TypeOK
    <3>  QED  BY <3>1, <3>2, InConcat
  <2>  QED  BY <1>1, <2>1
<1>6. \A m \in members' : Connected(m[1])'  BY <1>1 DEF TypeOK, Connected
<1>7. up /\ (~listening' => handled' = <<>>)  BY <1>1 DEF TypeOK
<1>  QED  BY <1>1, <1>2, <1>3, <1>4, <1>5, <1>6, <1>7 DEF TypeOK

LEMMA TypeSocket ==
    ASSUME TypeOK, NEW s \in Sockets,
           \/ HandleConnection(s) \/ Disconnect(s)
           \/ \E name \in Names : Subscribe(s, {name}) \/ Unsubscribe(s, {name})
    PROVE  TypeOK'
<1>1. /\ published' = published /\ EventIds' = EventIds
      /\ UNCHANGED <<bound, routed, queue, pushed, handled, up, listening, shown, faults>>
  BY SameEvents DEF HandleConnection, Disconnect, Subscribe, Unsubscribe, brokerVars, gatewayVars
<1>  DEFINE Shared(rooms) == /\ rooms \subseteq Sockets \X Rooms
                             /\ \A m \in rooms : <<m[1], "operators">> \in rooms
                             /\ rooms # {} => up
<1>2. Shared(members')
  <2>1. /\ members \subseteq Sockets \X Rooms
        /\ \A m \in members : <<m[1], "operators">> \in members
        /\ members # {} => up
    BY DEF TypeOK, Connected
  <2>2. CASE HandleConnection(s)
    <3>1. members' = members \cup {<<s, "operators">>} /\ up
      BY <2>2 DEF HandleConnection
    <3>2. <<s, "operators">> \in Sockets \X Rooms  BY DEF Rooms
    <3>  QED  BY <2>1, <3>1, <3>2
  <2>3. CASE Disconnect(s)
    <3>1. members' = {m \in members : m[1] # s}  BY <2>3 DEF Disconnect
    <3>  QED  BY <2>1, <3>1
  <2>4. ASSUME NEW name \in Names, Subscribe(s, {name}) PROVE Shared(members')
    <3>1. /\ members' = members \cup ({s} \X Supported({name}))
          /\ <<s, "operators">> \in members
      BY <2>4 DEF Subscribe, Connected
    <3>2. {s} \X Supported({name}) \subseteq Sockets \X Rooms
      BY DEF Supported, Rooms, Channels, Inherited
    <3>3. \A m \in {s} \X Supported({name}) : m[1] = s  OBVIOUS
    <3>  QED  BY <2>1, <3>1, <3>2, <3>3
  <2>5. ASSUME NEW name \in Names, Unsubscribe(s, {name}) PROVE Shared(members')
    <3>1. members' = members \ ({s} \X Supported({name}))
      BY <2>5 DEF Unsubscribe
    <3>2. "operators" \notin Supported({name})  BY DEF Supported, Channels, Inherited
    <3>3. \A t \in Sockets : <<t, "operators">> \in members => <<t, "operators">> \in members'
      BY <3>1, <3>2
    <3>  QED  BY <2>1, <3>1, <3>3
  <2>  QED  BY <2>2, <2>3, <2>4, <2>5
<1>3. since' \in [Sockets -> 0 .. Len(published)] /\ inbox' \in [Sockets -> Seq(EventIds)]
  <2>1. since \in [Sockets -> 0 .. Len(published)] /\ inbox \in [Sockets -> Seq(EventIds)]
    BY DEF TypeOK
  <2>2. CASE HandleConnection(s)
    <3>1. Len(published) \in 0 .. Len(published) /\ <<>> \in Seq(EventIds)
      BY LenProperties DEF TypeOK
    <3>  QED  BY <2>1, <2>2, <3>1 DEF HandleConnection
  <2>3. CASE UNCHANGED <<since, inbox>>  BY <2>1, <2>3
  <2>  QED  BY <2>2, <2>3 DEF Disconnect, Subscribe, Unsubscribe
<1>  QED  BY <1>1, <1>2, <1>3 DEF TypeOK, Connected

LEMMA TypeFault ==
    ASSUME TypeOK, Crash \/ BrokerShutsDown
    PROVE  TypeOK'
<1>1. /\ published' = published /\ EventIds' = EventIds
      /\ UNCHANGED <<bound, routed, since, inbox, shown>>
      /\ faults' = faults + 1 /\ faults < MaxFaults /\ up
      /\ queue' = Unacknowledged \o queue /\ handled' = <<>> /\ listening' = FALSE
  BY SameEvents DEF Crash, BrokerShutsDown, Fault, socketVars
<1>2. faults' \in 0 .. MaxFaults  BY <1>1, BoundsAssumption DEF TypeOK
<1>3. handled \o pushed \in Seq(EventIds) /\ <<>> \in Seq(EventIds)  BY InConcat DEF TypeOK
<1>4. Unacknowledged \in Seq(EventIds)  BY <1>3 DEF Unacknowledged
<1>5. queue' \in Seq(EventIds)  BY <1>1, <1>4, InConcat DEF TypeOK
<1>6. CASE Crash
  <2>1. members' = {} /\ up' = FALSE /\ pushed' = <<>>  BY <1>6 DEF Crash
  <2>  QED  BY <1>1, <1>2, <1>3, <1>5, <2>1 DEF TypeOK
<1>7. CASE BrokerShutsDown
  <2>1. members' = members /\ up' = up /\ pushed' = pushed
    BY <1>7 DEF BrokerShutsDown, socketVars
  <2>2. \A m \in members' : Connected(m[1])'  BY <2>1 DEF TypeOK, Connected
  <2>  QED  BY <1>1, <1>2, <1>3, <1>5, <2>1, <2>2 DEF TypeOK
<1>  QED  BY <1>6, <1>7

LEMMA TypeStep == TypeOK /\ [Next]_vars => TypeOK'
<1>  SUFFICES ASSUME TypeOK, [Next]_vars PROVE TypeOK'
  OBVIOUS
<1>1. CASE UNCHANGED vars
  <2>1. \A m \in members' : Connected(m[1])'
    BY <1>1 DEF vars, socketVars, TypeOK, Connected
  <2>  QED
    BY <1>1, <2>1, SameEvents DEF vars, brokerVars, gatewayVars, socketVars, TypeOK
<1>2. CASE Next
  BY <1>2, TypePublish, TypeBroker, TypeBroadcast, TypeFault, TypeSocket DEF Next
<1>  QED  BY <1>1, <1>2

\* The queue and what the gateway has of it, the rooms, the inboxes and the
\* counters stay in their domains under any interleaving and fault
\* (rabbitmq.service.ts:44-118, realtime-events.gateway.ts:47-144).
THEOREM TypeCorrect == Spec => []TypeOK
BY TypeInit, TypeStep, PTL DEF Spec

-----------------------------------------------------------------------------
(* Nothing that was routed is lost, and who stays connected misses nothing. *)

\* What the gateway still handles after the broker has closed the connection is
\* back in the queue as well, and what it handled was shown.
Kept ==
    /\ EventsKept
    /\ ConnectedMissNothing
    /\ ~listening => In(pushed) \subseteq In(queue)
    /\ In(handled) \subseteq shown

LEMMA KeptInit == Init => Kept
BY InEmpty DEF Init, Kept, EventsKept, ConnectedMissNothing

LEMMA KeptPublish ==
    ASSUME TypeOK, Kept, NEW prefix \in Families, PublishEvent(prefix)
    PROVE  Kept'
<1>1. /\ UNCHANGED <<pushed, handled, listening, members, since, inbox, shown>>
      /\ \/ queue' = queue /\ routed' = routed
         \/ queue' = Append(queue, Len(published')) /\ routed' = routed \cup {Len(published')}
  BY DEF PublishEvent, gatewayVars, socketVars
<1>2. queue \in Seq(EventIds') /\ Len(published') \in EventIds'  BY MoreEvents DEF TypeOK
<1>3. \/ In(queue') = In(queue) /\ routed' = routed
      \/ /\ In(queue') = In(queue) \cup {Len(published')}
         /\ routed' = routed \cup {Len(published')}
  <2>1. In(Append(queue, Len(published'))) = In(queue) \cup {Len(published')}
    BY <1>2, InAppend
  <2>  QED  BY <1>1, <2>1
<1>4. EventsKept'  BY <1>1, <1>3 DEF Kept, EventsKept
<1>5. ConnectedMissNothing'
  BY <1>1, <1>3 DEF Kept, ConnectedMissNothing, Connected
<1>6. ~listening' => In(pushed') \subseteq In(queue')  BY <1>1, <1>3 DEF Kept
<1>  QED  BY <1>1, <1>4, <1>5, <1>6 DEF Kept

LEMMA KeptBroker ==
    ASSUME TypeOK, Kept, CreateEventConsumer \/ Deliver \/ Ack
    PROVE  Kept'
<1>1. UNCHANGED <<published, routed, members, since, inbox, shown>>
  BY DEF CreateEventConsumer, Deliver, Ack, brokerVars, socketVars
<1>2. CASE CreateEventConsumer
  <2>1. UNCHANGED <<queue, pushed, handled>> /\ listening' = TRUE
    BY <1>2 DEF CreateEventConsumer
  <2>  QED  BY <1>1, <2>1 DEF Kept, EventsKept, ConnectedMissNothing, Connected
<1>3. CASE Deliver
  <2>1. In(queue) = {Head(queue)} \cup In(queue') /\ Head(queue) \in EventIds
    BY <1>3, InTail DEF TypeOK, Deliver
  <2>2. In(pushed') = In(pushed) \cup {Head(queue)}
    BY <1>3, <2>1, InAppend DEF TypeOK, Deliver
  <2>3. listening' /\ handled' = handled  BY <1>3 DEF Deliver, gatewayVars
  <2>4. EventsKept'  BY <1>1, <2>1, <2>2, <2>3 DEF Kept, EventsKept
  <2>5. ConnectedMissNothing'
    BY <1>1, <2>1, <2>2 DEF Kept, ConnectedMissNothing, Connected
  <2>  QED  BY <1>1, <2>3, <2>4, <2>5 DEF Kept
<1>4. CASE Ack
  <2>1. In(handled') \subseteq In(handled)  BY <1>4, InTail DEF TypeOK, Ack
  <2>2. In(handled) \subseteq shown' /\ UNCHANGED <<queue, pushed, listening>>
    BY <1>1, <1>4 DEF Kept, Ack, brokerVars, gatewayVars
  <2>3. EventsKept'  BY <1>1, <2>1, <2>2 DEF Kept, EventsKept
  <2>4. ConnectedMissNothing'
    BY <1>1, <2>2 DEF Kept, ConnectedMissNothing, Connected
  <2>  QED  BY <2>1, <2>2, <2>3, <2>4 DEF Kept
<1>  QED  BY <1>2, <1>3, <1>4

\* What a broadcast of e changes for one socket.
LEMMA InboxAfter ==
    ASSUME TypeOK, Broadcast, NEW s \in Sockets
    PROVE  /\ inbox'[s] = inbox[s] \o Frames(s, Head(pushed))
           /\ In(inbox'[s]) = In(inbox[s]) \cup In(Frames(s, Head(pushed)))
           /\ Connected(s) => In(inbox'[s]) = In(inbox[s]) \cup {Head(pushed)}
           /\ ~Connected(s) => inbox'[s] = inbox[s]
<1>1. inbox'[s] = inbox[s] \o Frames(s, Head(pushed))  BY DEF Broadcast
<1>2. Head(pushed) \in EventIds  BY InTail DEF TypeOK, Broadcast
<1>3. Frames(s, Head(pushed)) \in Seq(EventIds) /\ inbox[s] \in Seq(EventIds)
  <2>1. Frames(s, Head(pushed)) \in Seq({Head(pushed)})  BY FramesOfEvent
  <2>2. {Head(pushed)} \subseteq EventIds  BY <1>2
  <2>  QED  BY <2>1, <2>2, SeqMonotonic DEF TypeOK
<1>4. In(inbox'[s]) = In(inbox[s]) \cup In(Frames(s, Head(pushed)))
  BY <1>1, <1>3, InConcat
<1>5. Connected(s) => In(Frames(s, Head(pushed))) = {Head(pushed)}  BY FramesOfEvent
<1>6. ASSUME ~Connected(s) PROVE inbox'[s] = inbox[s]
  <2>1. \A room : <<s, room>> \notin members  BY <1>6 DEF TypeOK
  <2>2. Frames(s, Head(pushed)) = <<>>  BY <2>1, FramesOfEvent
  <2>  QED  BY <1>1, <1>3, <2>2, ConcatEmptySeq
<1>  QED  BY <1>1, <1>4, <1>5, <1>6

LEMMA KeptBroadcast ==
    ASSUME TypeOK, Kept, Broadcast
    PROVE  Kept'
<1>  DEFINE e == Head(pushed)
<1>1. /\ UNCHANGED <<published, routed, queue, listening, members, since>>
      /\ pushed # <<>> /\ pushed' = Tail(pushed) /\ shown' = shown \cup {e}
      /\ handled' = IF listening THEN Append(handled, e) ELSE handled
  BY DEF Broadcast, brokerVars, gatewayVars
<1>2. e \in EventIds /\ In(pushed) = {e} \cup In(pushed')  BY <1>1, InTail DEF TypeOK
<1>3. \A s \in Sockets : Connected(s) => In(inbox'[s]) = In(inbox[s]) \cup {e}
  BY InboxAfter
<1>  HIDE DEF e
<1>4. In(handled) \subseteq In(handled') /\ In(handled') \subseteq In(handled) \cup {e}
  BY <1>1, <1>2, InAppend DEF TypeOK
<1>5. EventsKept'  BY <1>1, <1>2, <1>4 DEF Kept, EventsKept
<1>6. ConnectedMissNothing'
  <2>  SUFFICES ASSUME NEW s \in Sockets, Connected(s), NEW i \in routed, i > since[s]
                PROVE  i \in In(inbox'[s]) \cup In(queue) \cup In(pushed')
    BY <1>1 DEF ConnectedMissNothing, Connected
  <2>1. i \in In(inbox[s]) \cup In(queue) \cup In(pushed)
    BY DEF Kept, ConnectedMissNothing
  <2>  QED  BY <1>2, <1>3, <2>1
<1>7. ~listening' => In(pushed') \subseteq In(queue')  BY <1>1, <1>2 DEF Kept
<1>8. In(handled') \subseteq shown'  BY <1>1, <1>4 DEF Kept
<1>  QED  BY <1>5, <1>6, <1>7, <1>8 DEF Kept

LEMMA KeptSocket ==
    ASSUME TypeOK, Kept, NEW s \in Sockets,
           \/ HandleConnection(s) \/ Disconnect(s)
           \/ \E name \in Names : Subscribe(s, {name}) \/ Unsubscribe(s, {name})
    PROVE  Kept'
<1>1. UNCHANGED <<published, routed, queue, pushed, handled, listening, shown>>
  BY DEF HandleConnection, Disconnect, Subscribe, Unsubscribe, brokerVars, gatewayVars
<1>2. EventsKept' /\ (~listening' => In(pushed') \subseteq In(queue'))
      /\ In(handled') \subseteq shown'
  BY <1>1 DEF Kept, EventsKept
<1>3. ConnectedMissNothing'
  <2>  SUFFICES ASSUME NEW t \in Sockets, Connected(t)', NEW e \in routed, e > since'[t]
                PROVE  e \in In(inbox'[t]) \cup In(queue) \cup In(pushed)
    BY <1>1 DEF ConnectedMissNothing
  <2>1. CASE Connected(t) /\ since'[t] = since[t] /\ inbox'[t] = inbox[t]
    BY <2>1 DEF Kept, ConnectedMissNothing
  <2>2. CASE HandleConnection(s)
    <3>1. CASE t = s
      <4>1. since'[t] = Len(published)  BY <2>2, <3>1 DEF HandleConnection, TypeOK
      <4>2. e \in 1 .. Len(published) /\ Len(published) \in Nat
        BY LenProperties DEF TypeOK, EventIds
      <4>  QED  BY <4>1, <4>2
    <3>2. CASE t # s
      <4>1. since'[t] = since[t] /\ inbox'[t] = inbox[t]
        BY <2>2, <3>2 DEF HandleConnection, TypeOK
      <4>2. Connected(t)  BY <2>2, <3>2 DEF HandleConnection, Connected
      <4>  QED  BY <2>1, <4>1, <4>2
    <3>  QED  BY <3>1, <3>2
  <2>3. CASE Disconnect(s)
    BY <2>1, <2>3 DEF Disconnect, Connected
  <2>4. ASSUME NEW name \in Names, Subscribe(s, {name}) PROVE Connected(t)
    BY <2>4 DEF Subscribe, Supported, Connected, Channels, Inherited
  <2>5. ASSUME NEW name \in Names, Unsubscribe(s, {name}) PROVE Connected(t)
    BY <2>5 DEF Unsubscribe, Connected
  <2>  QED  BY <2>1, <2>2, <2>3, <2>4, <2>5 DEF Subscribe, Unsubscribe
<1>  QED  BY <1>2, <1>3 DEF Kept

LEMMA KeptFault ==
    ASSUME TypeOK, Kept, Crash \/ BrokerShutsDown
    PROVE  Kept'
<1>1. /\ UNCHANGED <<routed, since, inbox, shown>>
      /\ queue' = Unacknowledged \o queue /\ handled' = <<>> /\ listening' = FALSE
  BY DEF Crash, BrokerShutsDown, socketVars
<1>2. /\ handled \o pushed \in Seq(EventIds) /\ <<>> \in Seq(EventIds)
      /\ In(handled \o pushed) = In(handled) \cup In(pushed)
  BY InConcat DEF TypeOK
<1>3. /\ Unacknowledged \in Seq(EventIds)
      /\ listening => In(Unacknowledged) = In(handled) \cup In(pushed)
  BY <1>2 DEF Unacknowledged
<1>4. In(queue') = In(Unacknowledged) \cup In(queue)  BY <1>1, <1>3, InConcat DEF TypeOK
<1>5. In(pushed) \subseteq In(queue')  BY <1>3, <1>4 DEF Kept
<1>6. EventsKept'
  <2>1. In(handled) \subseteq shown  BY DEF Kept
  <2>  QED  BY <1>1, <1>4, <1>5, <2>1 DEF Kept, EventsKept
<1>7. CASE Crash
  <2>1. members' = {} /\ pushed' = <<>>  BY <1>7 DEF Crash
  <2>2. ConnectedMissNothing'  BY <2>1 DEF ConnectedMissNothing, Connected
  <2>  QED  BY <1>1, <1>6, <2>1, <2>2, InEmpty DEF Kept
<1>8. CASE BrokerShutsDown
  <2>1. members' = members /\ pushed' = pushed  BY <1>8 DEF BrokerShutsDown, socketVars
  <2>2. ConnectedMissNothing'
    BY <1>1, <1>4, <2>1 DEF Kept, ConnectedMissNothing, Connected
  <2>  QED  BY <1>1, <1>5, <1>6, <2>1, <2>2, InEmpty DEF Kept
<1>  QED  BY <1>7, <1>8

LEMMA KeptStep == TypeOK /\ Kept /\ [Next]_vars => Kept'
<1>  SUFFICES ASSUME TypeOK, Kept, [Next]_vars PROVE Kept'
  OBVIOUS
<1>1. CASE UNCHANGED vars
  BY <1>1 DEF vars, brokerVars, gatewayVars, socketVars, Kept, EventsKept,
              ConnectedMissNothing, Connected
<1>2. CASE Next
  BY <1>2, KeptPublish, KeptBroker, KeptBroadcast, KeptFault, KeptSocket DEF Next
<1>  QED  BY <1>1, <1>2

LEMMA KeptAlways == Spec => []Kept
BY TypeInit, TypeStep, KeptInit, KeptStep, PTL DEF Spec

\* No crash of the gateway and no shutdown of the broker loses an event the
\* exchange has put into the queue (rabbitmq.service.ts:92-113).
THEOREM EventsAreKept == Spec => []EventsKept
<1>1. Kept => EventsKept  BY DEF Kept
<1>  QED  BY <1>1, KeptAlways, PTL

\* A client that stays connected misses no event routed since it connected,
\* whatever channels it joins and leaves (realtime-events.gateway.ts:67, 97-124).
THEOREM NothingMissed == Spec => []ConnectedMissNothing
<1>1. Kept => ConnectedMissNothing  BY DEF Kept
<1>  QED  BY <1>1, KeptAlways, PTL

-----------------------------------------------------------------------------
(* Clients see the events in order. *)

\* The inbox of one client: in order, no event more than twice.
Spread(q) ==
    \A i, k \in DOMAIN q : /\ i < k => q[i] <= q[k]
                           /\ i + 1 < k => q[i] < q[k]

LEMMA SpreadConcat ==
    ASSUME NEW q \in Seq(Nat), NEW e \in Nat, NEW r \in Seq({e}), Len(r) \in 0 .. 2,
           Spread(q), Before(In(q), {e})
    PROVE  Spread(q \o r)
<1>1. r \in Seq(Nat)
  <2>1. {e} \subseteq Nat  OBVIOUS
  <2>  QED  BY <2>1, SeqMonotonic
<1>2. /\ Len(q \o r) = Len(q) + Len(r) /\ q \o r \in Seq(Nat)
      /\ \A i \in 1 .. Len(q) + Len(r) :
            (q \o r)[i] = IF i <= Len(q) THEN q[i] ELSE r[i - Len(q)]
      /\ Len(q) \in Nat /\ Len(r) \in Nat
      /\ DOMAIN q = 1 .. Len(q) /\ DOMAIN (q \o r) = 1 .. Len(q) + Len(r)
  BY <1>1, ConcatProperties
<1>3. \A i \in 1 .. Len(q) : (q \o r)[i] = q[i] /\ q[i] < e /\ q[i] \in Nat
  BY <1>2, SMTT(30) DEF Before, In
<1>4. ASSUME NEW i \in 1 .. Len(q) + Len(r), i > Len(q) PROVE (q \o r)[i] = e
  <2>1. i - Len(q) \in 1 .. Len(r)  BY <1>2, <1>4
  <2>2. r[i - Len(q)] = e  BY <2>1
  <2>  QED  BY <1>2, <1>4, <2>2
<1>  SUFFICES ASSUME NEW i \in 1 .. Len(q) + Len(r), NEW k \in 1 .. Len(q) + Len(r), i < k
              PROVE  /\ (q \o r)[i] <= (q \o r)[k]
                     /\ i + 1 < k => (q \o r)[i] < (q \o r)[k]
  BY <1>2, SMTT(30) DEF Spread
<1>5. CASE k <= Len(q)
  <2>1. i \in DOMAIN q /\ k \in DOMAIN q  BY <1>2, <1>5
  <2>2. q[i] <= q[k] /\ (i + 1 < k => q[i] < q[k])  BY <2>1 DEF Spread
  <2>  QED  BY <1>2, <1>3, <2>1, <2>2
<1>6. CASE i <= Len(q) /\ k > Len(q)
  <2>1. i \in 1 .. Len(q)  BY <1>2, <1>6
  <2>  QED  BY <1>3, <1>4, <1>6, <2>1
<1>7. CASE i > Len(q)
  <2>  DEFINE m == Len(q)
              n == Len(r)
  <2>1. m \in Nat /\ n \in 0 .. 2 /\ i \in 1 .. m + n /\ k \in 1 .. m + n /\ i > m
    BY <1>2, <1>7
  <2>  HIDE DEF m, n
  <2>2. k > m /\ ~(i + 1 < k)  BY <2>1
  <2>3. k > Len(q) /\ ~(i + 1 < k)  BY <2>2 DEF m
  <2>  QED  BY <1>4, <1>7, <2>1
<1>  QED  BY <1>2, <1>5, <1>6, <1>7

\* What a client has comes before what the gateway still has, and that before
\* what is in the queue -- until the broker has taken it back.
Order ==
    /\ Ascending(queue) /\ Ascending(pushed) /\ Ascending(handled)
    /\ Before(In(handled), In(pushed))
    /\ listening => Before(In(handled), In(queue)) /\ Before(In(pushed), In(queue))
    /\ \A s \in Sockets :
          /\ Spread(inbox[s])
          /\ Connected(s) => Before(In(inbox[s]), In(pushed))
          /\ Connected(s) /\ listening => Before(In(inbox[s]), In(queue))

LEMMA Numbers ==
    ASSUME TypeOK
    PROVE  /\ EventIds \subseteq Nat /\ EventIds' \subseteq Nat
           /\ \A q \in Seq(EventIds) : q \in Seq(Nat) /\ In(q) \subseteq EventIds
           /\ queue \in Seq(Nat) /\ pushed \in Seq(Nat) /\ handled \in Seq(Nat)
           /\ \A s \in Sockets : inbox[s] \in Seq(Nat)
<1>1. EventIds \subseteq Nat  BY DEF EventIds
<1>2. EventIds' \subseteq Nat  BY DEF EventIds
<1>3. \A q \in Seq(EventIds) : q \in Seq(Nat)  BY <1>1, SeqMonotonic
<1>4. \A q \in Seq(EventIds) : In(q) \subseteq EventIds  BY InSeq
<1>  QED  BY <1>1, <1>2, <1>3, <1>4 DEF TypeOK

LEMMA OrderInit == Init => Order
<1>  SUFFICES ASSUME Init PROVE Order
  OBVIOUS
<1>1. /\ queue = <<>> /\ pushed = <<>> /\ handled = <<>> /\ members = {}
      /\ \A s \in Sockets : inbox[s] = <<>>
  BY DEF Init
<1>2. Ascending(<<>>) /\ Spread(<<>>)  BY DEF Ascending, Spread
<1>3. \A A : Before(In(<<>>), A)  BY InEmpty DEF Before
<1>  QED  BY <1>1, <1>2, <1>3 DEF Order, Connected

LEMMA OrderPublish ==
    ASSUME TypeOK, Order, NEW prefix \in Families, PublishEvent(prefix)
    PROVE  Order'
<1>  DEFINE new == Len(published')
<1>1. /\ UNCHANGED <<pushed, handled, listening, members, inbox>>
      /\ queue' = queue \/ queue' = Append(queue, new)
  BY DEF PublishEvent, gatewayVars, socketVars
<1>2. /\ new \in EventIds' /\ Before(EventIds, {new}) /\ queue \in Seq(EventIds)
  BY MoreEvents DEF TypeOK
<1>  HIDE DEF new
<1>3. /\ new \in Nat /\ queue \in Seq(Nat)
      /\ In(queue) \subseteq EventIds /\ In(pushed) \subseteq EventIds
      /\ In(handled) \subseteq EventIds
      /\ \A s \in Sockets : In(inbox[s]) \subseteq EventIds
  BY <1>2, Numbers DEF TypeOK
<1>4. CASE queue' = queue
  BY <1>1, <1>4 DEF Order, Connected
<1>5. CASE queue' = Append(queue, new)
  <2>1. Ascending(queue')
    BY <1>2, <1>3, <1>5, AscendingAppend DEF Order, Before
  <2>2. In(queue') = In(queue) \cup {new}  BY <1>3, <1>5, InAppend
  <2>3. \A A : A \subseteq EventIds /\ Before(A, In(queue)) => Before(A, In(queue'))
    BY <1>2, <2>2 DEF Before
  <2>4. listening' => Before(In(handled'), In(queue')) /\ Before(In(pushed'), In(queue'))
    BY <1>1, <1>3, <2>3 DEF Order
  <2>5. ASSUME NEW s \in Sockets, Connected(s), listening
        PROVE  Before(In(inbox[s]), In(queue'))
    BY <1>3, <2>3, <2>5 DEF Order
  <2>  QED  BY <1>1, <2>1, <2>4, <2>5 DEF Order, Connected
<1>  QED  BY <1>1, <1>4, <1>5

LEMMA OrderBroker ==
    ASSUME TypeOK, Order, CreateEventConsumer \/ Deliver \/ Ack
    PROVE  Order'
<1>1. UNCHANGED <<members, inbox>>
  BY DEF CreateEventConsumer, Deliver, Ack, socketVars
<1>2. CASE CreateEventConsumer
  <2>1. UNCHANGED <<queue, pushed, handled>> /\ ~up
    BY <1>2 DEF CreateEventConsumer
  <2>2. pushed = <<>> /\ handled = <<>> /\ members = {}  BY <2>1 DEF TypeOK
  <2>3. \A A : Before(In(<<>>), A)  BY InEmpty DEF Before
  <2>  QED  BY <1>1, <2>1, <2>2, <2>3 DEF Order, Connected
<1>3. CASE Deliver
  <2>  DEFINE e == Head(queue)
  <2>1. /\ queue # <<>> /\ queue' = Tail(queue) /\ pushed' = Append(pushed, e)
        /\ handled' = handled /\ listening' = listening /\ listening
    BY <1>3 DEF Deliver, gatewayVars
  <2>2. queue \in Seq(Nat) /\ pushed \in Seq(Nat)  BY Numbers
  <2>3. e \in Nat /\ In(queue) = {e} \cup In(queue')  BY <2>1, <2>2, InTail
  <2>4. Ascending(queue') /\ Before({e}, In(queue'))
    BY <2>1, <2>2, AscendingTail DEF Order
  <2>  HIDE DEF e
  <2>5. In(pushed') = In(pushed) \cup {e}  BY <2>1, <2>2, <2>3, InAppend
  <2>6. /\ Before(In(handled), {e}) /\ Before(In(handled), In(queue'))
        /\ Before(In(pushed), {e}) /\ Before(In(pushed), In(queue'))
        /\ Before(In(handled), In(pushed))
    BY <2>1, <2>3 DEF Order, Before
  <2>7. Ascending(pushed')  BY <2>1, <2>2, <2>3, <2>6, AscendingAppend DEF Order
  <2>8. Before(In(handled'), In(pushed')) /\ Before(In(handled'), In(queue'))
        /\ Before(In(pushed'), In(queue'))
    BY <2>1, <2>4, <2>5, <2>6 DEF Before
  <2>9. ASSUME NEW s \in Sockets, Connected(s)
        PROVE  Before(In(inbox[s]), In(pushed')) /\ Before(In(inbox[s]), In(queue'))
    <3>1. Before(In(inbox[s]), In(pushed)) /\ Before(In(inbox[s]), In(queue))
      BY <2>1, <2>9 DEF Order
    <3>  QED  BY <2>3, <2>5, <3>1 DEF Before
  <2>  QED  BY <1>1, <2>1, <2>4, <2>7, <2>8, <2>9 DEF Order, Connected
<1>4. CASE Ack
  <2>1. /\ handled # <<>> /\ handled' = Tail(handled)
        /\ UNCHANGED <<queue, pushed, listening>>
    BY <1>4 DEF Ack, brokerVars, gatewayVars
  <2>2. handled \in Seq(Nat)  BY Numbers
  <2>3. Ascending(handled')  BY <2>1, <2>2, AscendingTail DEF Order
  <2>4. In(handled') \subseteq In(handled)  BY <2>1, <2>2, InTail
  <2>5. /\ Before(In(handled'), In(pushed))
        /\ listening => Before(In(handled'), In(queue))
    BY <2>4 DEF Order, Before
  <2>  QED  BY <1>1, <2>1, <2>3, <2>5 DEF Order, Connected
<1>  QED  BY <1>2, <1>3, <1>4

LEMMA OrderBroadcast ==
    ASSUME TypeOK, Order, Broadcast
    PROVE  Order'
<1>  DEFINE e == Head(pushed)
<1>1. /\ UNCHANGED <<queue, listening, members>>
      /\ pushed # <<>> /\ pushed' = Tail(pushed)
      /\ handled' = IF listening THEN Append(handled, e) ELSE handled
  BY DEF Broadcast, brokerVars, gatewayVars
<1>2. pushed \in Seq(Nat) /\ handled \in Seq(Nat)  BY Numbers
<1>3. e \in Nat /\ In(pushed) = {e} \cup In(pushed')  BY <1>1, <1>2, InTail
<1>4. Ascending(pushed') /\ Before({e}, In(pushed'))
  BY <1>1, <1>2, AscendingTail DEF Order
<1>5. \A s \in Sockets :
        /\ inbox'[s] = inbox[s] \o Frames(s, e)
        /\ Connected(s) => In(inbox'[s]) = In(inbox[s]) \cup {e}
        /\ ~Connected(s) => inbox'[s] = inbox[s]
  BY InboxAfter
<1>  HIDE DEF e
<1>6. Ascending(handled') /\ In(handled') \subseteq In(handled) \cup {e}
      /\ (~listening => handled' = handled)
  <2>1. Before(In(handled), {e})  BY <1>3 DEF Order, Before
  <2>2. Ascending(Append(handled, e))  BY <1>2, <1>3, <2>1, AscendingAppend DEF Order
  <2>3. In(Append(handled, e)) = In(handled) \cup {e}  BY <1>2, <1>3, InAppend
  <2>  QED  BY <1>1, <2>2, <2>3 DEF Order
<1>7. Before(In(handled'), In(pushed'))
  BY <1>3, <1>4, <1>6 DEF Order, Before
<1>8. listening' => Before(In(handled'), In(queue')) /\ Before(In(pushed'), In(queue'))
  BY <1>1, <1>3, <1>6 DEF Order, Before
<1>9. ASSUME NEW s \in Sockets
      PROVE  /\ Spread(inbox'[s])
             /\ Connected(s)' => Before(In(inbox'[s]), In(pushed'))
             /\ Connected(s)' /\ listening' => Before(In(inbox'[s]), In(queue'))
  <2>1. Connected(s)' <=> Connected(s)  BY <1>1 DEF Connected
  <2>2. CASE ~Connected(s)  BY <1>5, <2>1, <2>2 DEF Order
  <2>3. CASE Connected(s)
    <3>1. Before(In(inbox[s]), {e}) /\ Before(In(inbox[s]), In(pushed'))
      BY <1>3, <2>3 DEF Order, Before
    <3>2. In(inbox'[s]) = In(inbox[s]) \cup {e}  BY <1>5, <2>3
    <3>3. Before(In(inbox'[s]), In(pushed'))  BY <1>4, <3>1, <3>2 DEF Before
    <3>4. listening' => Before(In(inbox'[s]), In(queue'))
      BY <1>1, <1>3, <2>3, <3>2 DEF Order, Before
    <3>5. Spread(inbox'[s])
      <4>1. Frames(s, e) \in Seq({e}) /\ Len(Frames(s, e)) \in 0 .. 2  BY FramesOfEvent
      <4>2. inbox[s] \in Seq(Nat) /\ Spread(inbox[s])  BY Numbers DEF Order
      <4>3. Spread(inbox[s] \o Frames(s, e))  BY <1>3, <3>1, <4>1, <4>2, SpreadConcat
      <4>  QED  BY <1>5, <4>3
    <3>  QED  BY <3>3, <3>4, <3>5
  <2>  QED  BY <2>2, <2>3
<1>  QED  BY <1>1, <1>4, <1>6, <1>7, <1>8, <1>9 DEF Order

LEMMA OrderSocket ==
    ASSUME TypeOK, Order, NEW s \in Sockets,
           \/ HandleConnection(s) \/ Disconnect(s)
           \/ \E name \in Names : Subscribe(s, {name}) \/ Unsubscribe(s, {name})
    PROVE  Order'
<1>1. UNCHANGED <<queue, pushed, handled, listening>>
  BY DEF HandleConnection, Disconnect, Subscribe, Unsubscribe, brokerVars, gatewayVars
<1>2. ASSUME NEW t \in Sockets
      PROVE  /\ Spread(inbox'[t])
             /\ Connected(t)' => Before(In(inbox'[t]), In(pushed'))
             /\ Connected(t)' /\ listening' => Before(In(inbox'[t]), In(queue'))
  <2>1. CASE inbox'[t] = inbox[t] /\ (Connected(t)' => Connected(t))
    BY <1>1, <2>1 DEF Order
  <2>2. CASE HandleConnection(s)
    <3>1. CASE t = s
      <4>1. inbox'[t] = <<>>  BY <2>2, <3>1 DEF HandleConnection, TypeOK
      <4>2. Spread(<<>>)  BY DEF Spread
      <4>3. \A A : Before(In(<<>>), A)  BY InEmpty DEF Before
      <4>  QED  BY <4>1, <4>2, <4>3
    <3>2. CASE t # s
      <4>1. inbox'[t] = inbox[t]  BY <2>2, <3>2 DEF HandleConnection, TypeOK
      <4>2. Connected(t)' => Connected(t)  BY <2>2, <3>2 DEF HandleConnection, Connected
      <4>  QED  BY <2>1, <4>1, <4>2
    <3>  QED  BY <3>1, <3>2
  <2>3. CASE Disconnect(s)
    BY <2>1, <2>3 DEF Disconnect, Connected
  <2>4. ASSUME NEW name \in Names, Subscribe(s, {name}) PROVE Connected(t)' => Connected(t)
    BY <2>4 DEF Subscribe, Supported, Connected, Channels, Inherited
  <2>5. ASSUME NEW name \in Names, Unsubscribe(s, {name}) PROVE Connected(t)' => Connected(t)
    BY <2>5 DEF Unsubscribe, Connected
  <2>  QED  BY <2>1, <2>2, <2>3, <2>4, <2>5 DEF Subscribe, Unsubscribe
<1>  QED  BY <1>1, <1>2 DEF Order

LEMMA OrderFault ==
    ASSUME TypeOK, Order, Crash \/ BrokerShutsDown
    PROVE  Order'
<1>1. /\ inbox' = inbox
      /\ queue' = Unacknowledged \o queue /\ handled' = <<>> /\ listening' = FALSE
  BY DEF Crash, BrokerShutsDown, socketVars
<1>2. queue \in Seq(Nat) /\ pushed \in Seq(Nat) /\ handled \in Seq(Nat)  BY Numbers
<1>3. Ascending(queue')
  <2>1. CASE listening
    <3>1. /\ Ascending(handled \o pushed) /\ handled \o pushed \in Seq(Nat)
          /\ In(handled \o pushed) = In(handled) \cup In(pushed)
      BY <1>2, AscendingConcat, InConcat DEF Order
    <3>2. Before(In(handled \o pushed), In(queue))  BY <2>1, <3>1 DEF Order, Before
    <3>3. Ascending((handled \o pushed) \o queue)
      BY <1>2, <3>1, <3>2, AscendingConcat DEF Order
    <3>  QED  BY <1>1, <2>1, <3>3 DEF Unacknowledged
  <2>2. CASE ~listening
    <3>1. queue' = queue  BY <1>1, <1>2, <2>2, ConcatEmptySeq DEF Unacknowledged
    <3>  QED  BY <3>1 DEF Order
  <2>  QED  BY <2>1, <2>2
<1>4. Ascending(<<>>) /\ \A A : Before(In(<<>>), A) /\ Before(A, In(<<>>))
  BY InEmpty DEF Ascending, Before
<1>5. CASE Crash
  <2>1. members' = {} /\ pushed' = <<>>  BY <1>5 DEF Crash
  <2>  QED  BY <1>1, <1>3, <1>4, <2>1 DEF Order, Connected
<1>6. CASE BrokerShutsDown
  <2>1. members' = members /\ pushed' = pushed  BY <1>6 DEF BrokerShutsDown, socketVars
  <2>  QED  BY <1>1, <1>3, <1>4, <2>1 DEF Order, Connected
<1>  QED  BY <1>5, <1>6

LEMMA OrderStep == TypeOK /\ Order /\ [Next]_vars => Order'
<1>  SUFFICES ASSUME TypeOK, Order, [Next]_vars PROVE Order'
  OBVIOUS
<1>1. CASE UNCHANGED vars
  BY <1>1 DEF vars, brokerVars, gatewayVars, socketVars, Order, Connected
<1>2. CASE Next
  BY <1>2, OrderPublish, OrderBroker, OrderBroadcast, OrderFault, OrderSocket DEF Next
<1>  QED  BY <1>1, <1>2

\* On one connection a client sees every event after the ones published before
\* it and at most twice, whatever the broker delivers again
\* (realtime-events.gateway.ts:117-144).
THEOREM SeenInOrder == Spec => []InOrder
<1>1. Order => InOrder  BY DEF Order, InOrder, Spread
<1>  QED  BY <1>1, TypeInit, TypeStep, OrderInit, OrderStep, PTL DEF Spec

-----------------------------------------------------------------------------
(* What clients see was put into the queue, and once. *)

\* The gateway makes nothing up: what waits, what it handled and what a client
\* has received is an event the exchange had put into the queue
\* (realtime-event.consumer.ts:17-28, realtime-events.gateway.ts:117-124).
NothingInvented ==
    /\ In(queue) \cup In(pushed) \cup In(handled) \cup shown \subseteq routed
    /\ \A s \in Sockets : In(inbox[s]) \subseteq shown

\* An event that was broadcast does not wait to be broadcast again: only a
\* gateway that died or a connection that was closed makes the broker deliver it
\* a second time, since every message is acknowledged once
\* (rabbitmq.service.ts:96-113).
OnlyFaultsRepeat == faults = 0 => shown \cap (In(queue) \cup In(pushed)) = {}

\* Before any fault a running gateway has its connection, so that what it was
\* sent comes before what is in the queue.
Source ==
    /\ NothingInvented
    /\ OnlyFaultsRepeat
    /\ faults = 0 /\ up => listening

LEMMA SourceInit == Init => Source
BY InEmpty DEF Init, Source, NothingInvented, OnlyFaultsRepeat

LEMMA SourcePublish ==
    ASSUME TypeOK, Source, NEW prefix \in Families, PublishEvent(prefix)
    PROVE  Source'
<1>  DEFINE new == Len(published')
<1>1. /\ UNCHANGED <<pushed, handled, up, listening, inbox, shown, faults>>
      /\ \/ queue' = queue /\ routed' = routed
         \/ queue' = Append(queue, new) /\ routed' = routed \cup {new}
  BY DEF PublishEvent, gatewayVars, socketVars
<1>2. /\ new \in EventIds' /\ queue \in Seq(EventIds') /\ Before(EventIds, {new})
      /\ EventIds \subseteq Nat /\ shown \subseteq EventIds
  BY MoreEvents, Numbers DEF TypeOK
<1>3. new \notin shown
  <2>1. new \in EventIds' /\ EventIds' \subseteq Nat  BY <1>2, Numbers
  <2>2. new \in Nat  BY <2>1
  <2>  HIDE DEF new
  <2>3. \A e \in shown : e < new  BY <1>2 DEF Before
  <2>4. ~(new < new)  BY <2>2
  <2>  QED  BY <2>3, <2>4
<1>  HIDE DEF new
<1>4. \/ In(queue') = In(queue) /\ routed' = routed
      \/ In(queue') = In(queue) \cup {new} /\ routed' = routed \cup {new}
  <2>1. In(Append(queue, new)) = In(queue) \cup {new}  BY <1>2, InAppend
  <2>  QED  BY <1>1, <2>1
<1>5. NothingInvented'  BY <1>1, <1>4 DEF Source, NothingInvented
<1>6. OnlyFaultsRepeat'  BY <1>1, <1>3, <1>4 DEF Source, OnlyFaultsRepeat
<1>  QED  BY <1>1, <1>5, <1>6 DEF Source

LEMMA SourceBroker ==
    ASSUME TypeOK, Source, CreateEventConsumer \/ Deliver \/ Ack
    PROVE  Source'
<1>1. UNCHANGED <<routed, inbox, shown, faults>>
  BY DEF CreateEventConsumer, Deliver, Ack, brokerVars, socketVars
<1>2. CASE CreateEventConsumer
  <2>1. UNCHANGED <<queue, pushed, handled>> /\ listening' = TRUE
    BY <1>2 DEF CreateEventConsumer
  <2>  QED  BY <1>1, <2>1 DEF Source, NothingInvented, OnlyFaultsRepeat
<1>3. CASE Deliver
  <2>1. In(queue) = {Head(queue)} \cup In(queue') /\ Head(queue) \in EventIds
    BY <1>3, InTail DEF TypeOK, Deliver
  <2>2. In(pushed') = In(pushed) \cup {Head(queue)}
    BY <1>3, <2>1, InAppend DEF TypeOK, Deliver
  <2>3. UNCHANGED <<up, listening, handled>>  BY <1>3 DEF Deliver, gatewayVars
  <2>  QED  BY <1>1, <2>1, <2>2, <2>3 DEF Source, NothingInvented, OnlyFaultsRepeat
<1>4. CASE Ack
  <2>1. In(handled') \subseteq In(handled)  BY <1>4, InTail DEF TypeOK, Ack
  <2>2. UNCHANGED <<queue, pushed, up, listening>>
    BY <1>4 DEF Ack, brokerVars, gatewayVars
  <2>  QED  BY <1>1, <2>1, <2>2 DEF Source, NothingInvented, OnlyFaultsRepeat
<1>  QED  BY <1>2, <1>3, <1>4

\* The order of what waits makes the event of a broadcast a new one.
LEMMA SourceBroadcast ==
    ASSUME TypeOK, Order, Source, Broadcast
    PROVE  Source'
<1>  DEFINE e == Head(pushed)
<1>1. /\ UNCHANGED <<routed, queue, up, listening, faults>>
      /\ pushed # <<>> /\ pushed' = Tail(pushed) /\ shown' = shown \cup {e}
      /\ handled' = IF listening THEN Append(handled, e) ELSE handled
  BY DEF Broadcast, brokerVars, gatewayVars
<1>2. /\ e \in EventIds /\ e \in Nat /\ In(pushed) = {e} \cup In(pushed')
      /\ Before({e}, In(pushed'))
  BY <1>1, InTail, AscendingTail, Numbers DEF TypeOK, Order
<1>3. \A s \in Sockets : In(inbox'[s]) \subseteq In(inbox[s]) \cup {e}
  BY InboxAfter
<1>  HIDE DEF e
<1>4. In(handled') \subseteq In(handled) \cup {e}  BY <1>1, <1>2, InAppend DEF TypeOK
<1>5. NothingInvented'
  BY <1>1, <1>2, <1>3, <1>4 DEF Source, NothingInvented
<1>6. OnlyFaultsRepeat'
  <2>  SUFFICES ASSUME faults = 0
                PROVE  shown' \cap (In(queue) \cup In(pushed')) = {}
    BY <1>1 DEF OnlyFaultsRepeat
  <2>1. up  BY <1>1 DEF TypeOK
  <2>2. Before(In(pushed), In(queue))  BY <2>1 DEF Source, Order
  <2>3. e \notin In(queue)  BY <1>2, <2>2 DEF Before
  <2>4. e \notin In(pushed')  BY <1>2 DEF Before
  <2>  QED  BY <1>1, <1>2, <2>3, <2>4 DEF Source, OnlyFaultsRepeat
<1>  QED  BY <1>1, <1>5, <1>6 DEF Source

LEMMA SourceSocket ==
    ASSUME TypeOK, Source, NEW s \in Sockets,
           \/ HandleConnection(s) \/ Disconnect(s)
           \/ \E name \in Names : Subscribe(s, {name}) \/ Unsubscribe(s, {name})
    PROVE  Source'
<1>1. UNCHANGED <<routed, queue, pushed, handled, up, listening, shown, faults>>
  BY DEF HandleConnection, Disconnect, Subscribe, Unsubscribe, brokerVars, gatewayVars
<1>2. \/ inbox' = inbox
      \/ inbox' = [inbox EXCEPT ![s] = <<>>]
  BY DEF HandleConnection, Disconnect, Subscribe, Unsubscribe
<1>3. \A t \in Sockets : inbox'[t] = inbox[t] \/ inbox'[t] = <<>>  BY <1>2 DEF TypeOK
<1>4. \A t \in Sockets : In(inbox'[t]) \subseteq In(inbox[t])  BY <1>3, InEmpty
<1>  QED  BY <1>1, <1>4 DEF Source, NothingInvented, OnlyFaultsRepeat

LEMMA SourceFault ==
    ASSUME TypeOK, Source, Crash \/ BrokerShutsDown
    PROVE  Source'
<1>1. /\ UNCHANGED <<routed, inbox, shown>>
      /\ queue' = Unacknowledged \o queue /\ handled' = <<>>
      /\ pushed' = <<>> \/ pushed' = pushed
      /\ faults' # 0
  BY DEF Crash, BrokerShutsDown, Fault, socketVars, TypeOK
<1>2. /\ handled \o pushed \in Seq(EventIds) /\ <<>> \in Seq(EventIds)
      /\ In(handled \o pushed) = In(handled) \cup In(pushed)
  BY InConcat DEF TypeOK
<1>3. /\ Unacknowledged \in Seq(EventIds)
      /\ In(Unacknowledged) \subseteq In(handled) \cup In(pushed)
  BY <1>2, InEmpty DEF Unacknowledged
<1>4. In(queue') = In(Unacknowledged) \cup In(queue)  BY <1>1, <1>3, InConcat DEF TypeOK
<1>5. In(handled') = {} /\ In(pushed') \subseteq In(pushed)  BY <1>1, InEmpty
<1>6. NothingInvented'  BY <1>1, <1>3, <1>4, <1>5 DEF Source, NothingInvented
<1>  QED  BY <1>1, <1>6 DEF Source, OnlyFaultsRepeat

LEMMA SourceStep == TypeOK /\ Order /\ Source /\ [Next]_vars => Source'
<1>  SUFFICES ASSUME TypeOK, Order, Source, [Next]_vars PROVE Source'
  OBVIOUS
<1>1. CASE UNCHANGED vars
  BY <1>1 DEF vars, brokerVars, gatewayVars, socketVars, Source, NothingInvented,
              OnlyFaultsRepeat
<1>2. CASE Next
  BY <1>2, SourcePublish, SourceBroker, SourceBroadcast, SourceFault, SourceSocket DEF Next
<1>  QED  BY <1>1, <1>2

\* Clients see nothing that was not routed, and the gateway broadcasts an event
\* a second time only after a fault.
THEOREM FramesAreGenuine == Spec => [](NothingInvented /\ OnlyFaultsRepeat)
<1>1. Source => NothingInvented /\ OnlyFaultsRepeat  BY DEF Source
<1>  QED
  BY <1>1, TypeInit, TypeStep, OrderInit, OrderStep, SourceInit, SourceStep, PTL DEF Spec

-----------------------------------------------------------------------------
(* Who sees an event twice *)

\* On one connection an event comes twice only by the room of its topic: one
\* whose prefix has no channel is seen once by everybody, even if the gateway
\* died before and the broker delivers again (realtime-events.gateway.ts:126-144,
\* docs/websocket-flow.md:100-102).
TwiceByRoom ==
    \A s \in Sockets : \A i, k \in DOMAIN inbox[s] :
        i < k /\ inbox[s][i] = inbox[s][k] => published[inbox[s][i]] \in DOMAIN RoomOf

\* An event without a channel is one frame to a client.
LEMMA OneFrame ==
    ASSUME NEW s, NEW e, published[e] \notin DOMAIN RoomOf
    PROVE  Len(Frames(s, e)) \in 0 .. 1
<1>  DEFINE rooms == {room \in Targets(published[e]) : <<s, room>> \in members}
<1>1. Targets(published[e]) = {"operators"}  BY DEF Targets
<1>2. rooms = {} \/ rooms = {"operators"}  BY <1>1
<1>3. Cardinality({}) = 0 /\ Cardinality({"operators"}) = 1  BY FS_EmptySet, FS_Singleton
<1>4. Cardinality(rooms) = 0 \/ Cardinality(rooms) = 1
  <2>1. CASE rooms = {}  BY <1>3, <2>1, Zenon
  <2>2. CASE rooms = {"operators"}  BY <1>3, <2>2, Zenon
  <2>  QED  BY <1>2, <2>1, <2>2
<1>5. Frames(s, e) = [i \in 1 .. Cardinality(rooms) |-> e]  BY DEF Frames
<1>  DEFINE n == Cardinality(rooms)
<1>6. n \in 0 .. 1 /\ Frames(s, e) = [i \in 1 .. n |-> e]  BY <1>4, <1>5
<1>  HIDE DEF rooms, n
<1>7. DOMAIN Frames(s, e) = 1 .. n /\ Frames(s, e) \in Seq({e})
  BY <1>6, FramesOfEvent
<1>8. Len(Frames(s, e)) = n  BY <1>6, <1>7, LenProperties
<1>  QED  BY <1>6, <1>8

LEMMA TwiceStep == TypeOK /\ Order /\ TwiceByRoom /\ [Next]_vars => TwiceByRoom'
<1>  SUFFICES ASSUME TypeOK, Order, TwiceByRoom, [Next]_vars, NEW s \in Sockets,
                     NEW i \in DOMAIN inbox'[s], NEW k \in DOMAIN inbox'[s],
                     i < k, inbox'[s][i] = inbox'[s][k]
              PROVE  published'[inbox'[s][i]] \in DOMAIN RoomOf
  BY DEF TwiceByRoom
<1>1. ASSUME published' = published, inbox'[s] = inbox[s]
      PROVE  published'[inbox'[s][i]] \in DOMAIN RoomOf
  BY <1>1 DEF TwiceByRoom
<1>2. ASSUME NEW prefix \in Families, PublishEvent(prefix)
      PROVE  published'[inbox'[s][i]] \in DOMAIN RoomOf
  <2>1. inbox' = inbox /\ published' = Append(published, prefix)
    BY <1>2 DEF PublishEvent, socketVars
  <2>2. published[inbox[s][i]] \in DOMAIN RoomOf  BY <2>1 DEF TwiceByRoom
  <2>3. inbox[s][i] \in 1 .. Len(published)
    BY <2>1, SMTT(30) DEF TypeOK, EventIds
  <2>4. published \in Seq(Families)  BY DEF TypeOK
  <2>5. published'[inbox[s][i]] = published[inbox[s][i]]
    BY <2>1, <2>3, <2>4, AppendProperties
  <2>  QED  BY <2>1, <2>2, <2>5
<1>3. ASSUME Broadcast PROVE published'[inbox'[s][i]] \in DOMAIN RoomOf
  <2>  DEFINE e == Head(pushed)
              f == Frames(s, e)
  <2>1. published' = published  BY <1>3 DEF Broadcast, brokerVars
  <2>2. CASE ~Connected(s)
    <3>1. inbox'[s] = inbox[s]  BY <1>3, <2>2, InboxAfter
    <3>  QED  BY <1>1, <2>1, <3>1
  <2>3. CASE Connected(s)
    <3>1. inbox'[s] = inbox[s] \o f  BY <1>3, InboxAfter
    <3>2. f \in Seq({e}) /\ Len(f) \in 0 .. 2  BY FramesOfEvent
    <3>3. e \in In(pushed) /\ e \in Nat
      BY <1>3, InTail, Numbers DEF Broadcast
    <3>4. Before(In(inbox[s]), {e})  BY <2>3, <3>3 DEF Order, Before
    <3>5. inbox[s] \in Seq(Nat)  BY Numbers
    <3>6. f \in Seq(Nat)
      <4>  HIDE DEF e, f
      <4>1. {e} \subseteq Nat  BY <3>3
      <4>  QED  BY <3>2, <4>1, SeqMonotonic
    <3>7. published[e] \notin DOMAIN RoomOf => Len(f) \in 0 .. 1  BY OneFrame
    <3>  HIDE DEF e, f
    <3>  DEFINE m == Len(inbox[s])
                n == Len(f)
    <3>8. /\ m \in Nat /\ n \in Nat /\ DOMAIN inbox'[s] = 1 .. m + n
          /\ DOMAIN inbox[s] = 1 .. m /\ DOMAIN f = 1 .. n
          /\ \A x \in 1 .. m + n : inbox'[s][x] = IF x <= m THEN inbox[s][x] ELSE f[x - m]
      BY <3>1, <3>5, <3>6, ConcatProperties
    <3>9. \A x \in 1 .. m : inbox[s][x] < e  BY <3>4, <3>8 DEF Before, In
    <3>10. \A x \in 1 .. n : f[x] = e  BY <3>2
    <3>  HIDE DEF m, n
    <3>11. CASE k <= m
      <4>1. i \in 1 .. m /\ k \in 1 .. m  BY <3>8, <3>11
      <4>2. inbox'[s][i] = inbox[s][i] /\ inbox'[s][k] = inbox[s][k]  BY <3>8, <4>1
      <4>  QED  BY <2>1, <3>8, <4>1, <4>2 DEF TwiceByRoom
    <3>12. CASE k > m
      <4>1. k - m \in 1 .. n /\ k \in 1 .. m + n  BY <3>8, <3>12
      <4>2. inbox'[s][k] = e  BY <3>8, <3>10, <3>12, <4>1
      <4>3. CASE i <= m
        <5>1. i \in 1 .. m  BY <3>8, <4>3
        <5>2. inbox'[s][i] = inbox[s][i] /\ inbox[s][i] < e  BY <3>8, <3>9, <5>1
        <5>3. e < e  BY <4>2, <5>2
        <5>  QED  BY <3>3, <5>3
      <4>4. CASE i > m
        <5>1. ~(n \in 0 .. 1)  BY <3>8, <3>12, <4>4
        <5>2. published[e] \in DOMAIN RoomOf  BY <3>7, <5>1 DEF n
        <5>  QED  BY <2>1, <4>2, <5>2
      <4>  QED  BY <3>8, <4>3, <4>4
    <3>  QED  BY <3>8, <3>11, <3>12
  <2>  QED  BY <2>2, <2>3
<1>4. ASSUME NEW t \in Sockets, HandleConnection(t)
      PROVE  published'[inbox'[s][i]] \in DOMAIN RoomOf
  <2>1. published' = published /\ inbox' = [inbox EXCEPT ![t] = <<>>]
    BY <1>4 DEF HandleConnection, brokerVars
  <2>2. inbox'[s] = <<>> \/ inbox'[s] = inbox[s]  BY <2>1 DEF TypeOK
  <2>3. inbox'[s] # <<>>  OBVIOUS
  <2>  QED  BY <1>1, <2>1, <2>2, <2>3
<1>5. ASSUME \/ CreateEventConsumer \/ Deliver \/ Ack \/ Crash \/ BrokerShutsDown
             \/ \E t \in Sockets :
                  Disconnect(t) \/ \E name \in Names : Subscribe(t, {name}) \/ Unsubscribe(t, {name})
             \/ UNCHANGED vars
      PROVE  published' = published /\ inbox' = inbox
  BY <1>5 DEF CreateEventConsumer, Deliver, Ack, Crash, BrokerShutsDown, Disconnect, Subscribe,
              Unsubscribe, vars, brokerVars, socketVars
<1>  QED  BY <1>1, <1>2, <1>3, <1>4, <1>5 DEF Next

\* Only the room of its topic brings a client an event twice.
THEOREM TwiceIsByRoom == Spec => []TwiceByRoom
<1>1. Init => TwiceByRoom  BY DEF Init, TwiceByRoom
<1>  QED  BY <1>1, TypeInit, TypeStep, OrderInit, OrderStep, TwiceStep, PTL DEF Spec
=============================================================================
