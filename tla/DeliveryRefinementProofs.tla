---------------------- MODULE DeliveryRefinementProofs ----------------------
(* WorkerPipeline implements MessageDelivery, for every instance: each step   *)
(* of a thread, a pod, the producer or the cleanup is one of MessageDelivery  *)
(* or changes nothing it sees.                                                *)
EXTENDS PipelineSafetyProofs, FiniteSetTheorems

\* A message the store refused to hand over has been accepted, and no stage
\* owes it again.
RefusedGone == \A m \in refused : m \in Messages /\ Position[m] > 0 /\ m \notin Owed

-----------------------------------------------------------------------------
(* The position of a message tells the stages it has entered. *)

\* A set of stages that has every stage before one of its own is known by its
\* size.
LEMMA InitialStages ==
  ASSUME NEW E \in SUBSET Stages,
         \A s1, s2 \in Stages : s1 < s2 /\ s2 \in E => s1 \in E
  PROVE  /\ Cardinality(E) \in 0 .. LastStage + 1
         /\ \A s \in Stages : s \in E <=> s < Cardinality(E)
<1>0. LastStage \in Nat /\ Stages = 0 .. LastStage
  BY PipelineAssumption DEF Stages
<1>1. IsFiniteSet(Stages) /\ Cardinality(Stages) = LastStage + 1
  BY <1>0, FS_Interval
<1>2. IsFiniteSet(E) /\ Cardinality(E) \in Nat /\ Cardinality(E) <= LastStage + 1
  BY <1>1, FS_Subset, FS_CardinalityType
<1>3. ASSUME NEW s \in Stages, s \in E PROVE s < Cardinality(E)
  <2>1. 0 .. s \in SUBSET E
    BY <1>0, <1>3
  <2>2. Cardinality(0 .. s) = s + 1
    BY <1>0, FS_Interval
  <2>3. Cardinality(0 .. s) <= Cardinality(E)
    BY <1>2, <2>1, FS_Subset
  <2>4. QED
    BY <1>0, <1>2, <2>2, <2>3
<1>4. ASSUME NEW s \in Stages, s \notin E PROVE ~(s < Cardinality(E))
  <2>1. E \in SUBSET (0 .. s - 1)
    BY <1>0, <1>4
  <2>2. IsFiniteSet(0 .. s - 1) /\ Cardinality(0 .. s - 1) = s
    <3>1. s \in Nat /\ 0 \in Int /\ s - 1 \in Int
      BY <1>0
    <3>2. /\ IsFiniteSet(0 .. s - 1)
          /\ Cardinality(0 .. s - 1) = IF 0 > s - 1 THEN 0 ELSE s - 1 - 0 + 1
      BY <3>1, FS_Interval
    <3>3. QED
      BY <3>1, <3>2
  <2>3. Cardinality(E) <= s
    BY <2>1, <2>2, FS_Subset
  <2>4. QED
    BY <1>0, <1>2, <2>3
<1>5. QED
  BY <1>0, <1>2, <1>3, <1>4

\* A message has entered the stages before its position, and no other.
LEMMA PositionStages ==
  ASSUME Prefixes, NEW m \in Messages
  PROVE  /\ Position[m] \in 0 .. LastStage + 1
         /\ \A s \in Stages : m \in Entered(s) <=> s < Position[m]
<1> DEFINE E == {s \in Stages : m \in Entered(s)}
<1>1. \A s1, s2 \in Stages : s1 < s2 /\ s2 \in E => s1 \in E
  BY DEF Prefixes
<1>2. Position[m] = Cardinality(E)
  BY DEF Position
<1>3. \A s \in Stages : m \in Entered(s) <=> s \in E
  OBVIOUS
<1>4. E \in SUBSET Stages
  OBVIOUS
<1> HIDE DEF E
<1>5. QED
  BY <1>1, <1>2, <1>3, <1>4, InitialStages

\* The same after a step.
LEMMA PositionStagesNext ==
  ASSUME Prefixes', NEW m \in Messages
  PROVE  /\ Position'[m] \in 0 .. LastStage + 1
         /\ \A s \in Stages : m \in Entered(s)' <=> s < Position'[m]
<1> DEFINE E == {s \in Stages : m \in Entered(s)'}
<1>1. \A s1, s2 \in Stages : s1 < s2 /\ s2 \in E => s1 \in E
  BY DEF Prefixes
<1>2. Position'[m] = Cardinality(E)
  BY DEF Position
<1>3. \A s \in Stages : m \in Entered(s)' <=> s \in E
  OBVIOUS
<1>4. E \in SUBSET Stages
  OBVIOUS
<1> HIDE DEF E
<1>5. QED
  BY <1>1, <1>2, <1>3, <1>4, InitialStages

\* The stage that owes a message is the last one it has entered.
LEMMA OwedWhere ==
  ASSUME HandInv, NEW m \in Messages, NEW s \in Stages, m \in MessagesInHand(s)
  PROVE  Position[m] = s + 1 /\ m \in Owed
<1>1. PICK i \in InHand(s) : log[s][i] = m
  BY DEF MessagesInHand
<1>2. m \in Entered(s)
  BY <1>1 DEF InHand, Entered
<1>3. LastStage \in Nat /\ Stages = 0 .. LastStage
  BY PipelineAssumption DEF Stages
<1>4. /\ Position[m] \in 0 .. LastStage + 1
      /\ \A q \in Stages : m \in Entered(q) <=> q < Position[m]
  BY PositionStages DEF HandInv
<1>5. s # LastStage => m \notin Entered(s + 1)
  BY <1>1 DEF HandInv, LetGo, InHand
<1>6. s < Position[m]
  BY <1>2, <1>4
<1>7. s # LastStage => ~(s + 1 < Position[m])
  BY <1>3, <1>4, <1>5
<1>8. QED
  BY <1>3, <1>4, <1>6, <1>7 DEF Owed

\* Without a new entry the positions stay.
LEMMA PositionsStay ==
  ASSUME UNCHANGED log
  PROVE  UNCHANGED Position
<1>1. \A s : Entered(s)' = Entered(s)
  BY DEF Entered
<1>2. QED
  BY <1>1 DEF Position

\* A message enters the stage its position names, and moves on by one.
LEMMA PositionMoves ==
  ASSUME TypeInv, Prefixes, Prefixes', NEW r \in Stages, NEW m \in Messages,
         log' = [log EXCEPT ![r] = Append(@, m)], m \notin Entered(r)
  PROVE  Position[m] = r /\ Position' = [Position EXCEPT ![m] = r + 1]
<1>1. /\ Entered(r)' = Entered(r) \cup {m}
      /\ \A s \in Stages \ {r} : Entered(s)' = Entered(s)
  BY AppendedLog
<1>2. LastStage \in Nat /\ Stages = 0 .. LastStage
  BY PipelineAssumption DEF Stages
<1>3. /\ Position[m] \in 0 .. LastStage + 1
      /\ \A s \in Stages : m \in Entered(s) <=> s < Position[m]
  BY PositionStages
<1>4. /\ Position'[m] \in 0 .. LastStage + 1
      /\ \A s \in Stages : m \in Entered(s)' <=> s < Position'[m]
  BY PositionStagesNext
<1>5. Position[m] = r
  <2>1. ~(r < Position[m])
    BY <1>3
  <2>2. \A s \in Stages : s < r => s < Position[m]
    <3>1. r < Position'[m]
      BY <1>1, <1>4
    <3>2. \A s \in Stages : s < r => m \in Entered(s)'
      BY <1>2, <1>4, <3>1
    <3>3. QED
      BY <1>1, <1>2, <1>3, <3>2
  <2>3. QED
    BY <1>2, <1>3, <2>1, <2>2
<1>6. Position'[m] = r + 1
  <2>1. r < Position'[m]
    BY <1>1, <1>4
  <2>2. \A s \in Stages : r < s => ~(s < Position'[m])
    BY <1>1, <1>2, <1>3, <1>4, <1>5
  <2>3. QED
    BY <1>2, <1>4, <2>1, <2>2
<1>7. \A x \in Messages \ {m} : Position'[x] = Position[x]
  <2> SUFFICES ASSUME NEW x \in Messages \ {m} PROVE Position'[x] = Position[x]
    OBVIOUS
  <2>1. {s \in Stages : x \in Entered(s)'} = {s \in Stages : x \in Entered(s)}
    BY <1>1
  <2>2. QED
    BY <2>1 DEF Position
<1>8. Position = [x \in Messages |-> Position[x]] /\ Position' = [x \in Messages |-> Position'[x]]
  BY DEF Position
<1> HIDE DEF Position
<1>9. QED
  BY <1>5, <1>6, <1>7, <1>8

-----------------------------------------------------------------------------
(* What the steps do to the messages owed. *)

\* Without a new entry and with the same entries in hand, the same is owed.
LEMMA OwedStays ==
  ASSUME UNCHANGED log, \A s \in Stages : InHand(s)' = InHand(s)
  PROVE  UNCHANGED <<Position, Owed>>
<1>1. \A s \in Stages : MessagesInHand(s)' = MessagesInHand(s)
  BY DEF MessagesInHand
<1>2. UNCHANGED Owed
  BY <1>1 DEF Owed
<1>3. QED
  BY <1>2, PositionsStay

\* An acknowledged entry: its message is owed no longer, and nothing else
\* changes.
LEMMA Acknowledged ==
  ASSUME TypeInv, HandInv, UNCHANGED <<log, delivered>>,
         NEW r \in Stages, NEW k \in pel[r], NEW m, m = log[r][k],
         pel' = [pel EXCEPT ![r] = @ \ {k}]
  PROVE  /\ m \in Messages /\ m \in Owed
         /\ Position[m] = r + 1
         /\ Owed' = Owed \ {m}
         /\ UNCHANGED Position
<1>1. /\ delivered[r] \in Nat /\ Len(log[r]) \in Nat /\ delivered[r] <= Len(log[r])
      /\ k \in 1 .. delivered[r]
      /\ pel \in [Stages -> SUBSET Nat]
  BY LogEntries DEF TypeInv, TypeOK, StreamsOK
<1>2. k \in InHand(r) /\ m \in MessagesInHand(r)
  <2>1. k \in InHand(r)
    BY <1>1 DEF InHand
  <2>2. QED
    BY <2>1 DEF MessagesInHand
<1>3. m \in Messages
  BY <1>1, LogEntries DEF TypeInv
<1>4. Position[m] = r + 1 /\ m \in Owed
  BY <1>2, <1>3, OwedWhere
<1>5. InHand(r)' = InHand(r) \ {k}
  BY <1>1 DEF InHand
<1>6. \A s \in Stages \ {r} : InHand(s)' = InHand(s)
  BY <1>1 DEF InHand
<1>7. m \notin MessagesInHand(r)'
  <2> SUFFICES ASSUME NEW j \in InHand(r)', log'[r][j] = m PROVE FALSE
    BY DEF MessagesInHand
  <2>1. j \in InHand(r) /\ j # k /\ log[r][j] = log[r][k]
    BY <1>5
  <2>2. QED
    BY <1>2, <2>1 DEF HandInv, HandedOverOnce, InHand
<1>8. \A s \in Stages \ {r} : MessagesInHand(s)' = MessagesInHand(s) /\ m \notin MessagesInHand(s)
  <2> TAKE s \in Stages \ {r}
  <2>1. MessagesInHand(s)' = MessagesInHand(s)
    BY <1>6 DEF MessagesInHand
  <2>2. m \in MessagesInHand(s) => Position[m] = s + 1
    BY <1>3, OwedWhere
  <2>3. QED
    BY <1>4, <2>1, <2>2 DEF Stages
<1>9. MessagesInHand(r) = MessagesInHand(r)' \cup {m}
  BY <1>2, <1>5 DEF MessagesInHand
<1>10. Owed' = Owed \ {m}
  BY <1>7, <1>8, <1>9 DEF Owed
<1>11. QED
  BY <1>3, <1>4, <1>10, PositionsStay

\* What a new entry brings: its message is in hand, and so is what was and is
\* not acknowledged.
LEMMA NewInHand ==
  ASSUME TypeInv, UNCHANGED delivered, NEW q \in Stages, NEW m \in Messages,
         log' = [log EXCEPT ![q] = Append(@, m)],
         \A s \in Stages : pel'[s] \subseteq pel[s]
  PROVE  /\ m \in MessagesInHand(q)'
         /\ \A s \in Stages : MessagesInHand(s)' \subseteq MessagesInHand(s) \cup {m}
         /\ \A s \in Stages : s # q => MessagesInHand(s)' \subseteq MessagesInHand(s)
         /\ \A s \in Stages : \A i \in InHand(s) :
              (i \in pel[s] => i \in pel'[s]) => log[s][i] \in MessagesInHand(s)'
<1>1. \A s \in Stages : /\ Len(log[s]) \in Nat /\ delivered[s] \in Nat
                        /\ delivered[s] <= Len(log[s])
  BY LogEntries DEF TypeInv, TypeOK, StreamsOK
<1>2. /\ Len(log'[q]) = Len(log[q]) + 1
      /\ log'[q][Len(log[q]) + 1] = m
      /\ \A i \in 1 .. Len(log[q]) : log'[q][i] = log[q][i]
      /\ \A s \in Stages \ {q} : log'[s] = log[s]
  BY AppendedLog
<1>3. m \in MessagesInHand(q)'
  <2>1. Len(log[q]) + 1 \in InHand(q)'
    BY <1>1, <1>2 DEF InHand
  <2>2. QED
    BY <1>2, <2>1 DEF MessagesInHand
<1>4. ASSUME NEW s \in Stages, NEW i \in InHand(s)', i \in 1 .. Len(log[s])
      PROVE  i \in InHand(s) /\ log'[s][i] = log[s][i]
  BY <1>1, <1>2, <1>4 DEF InHand
<1>5. ASSUME NEW s \in Stages, NEW i \in InHand(s)', i \notin 1 .. Len(log[s])
      PROVE  s = q /\ log'[s][i] = m
  <2>1. i \in 1 .. Len(log'[s])
    BY DEF InHand
  <2>2. s = q
    BY <1>2, <1>5, <2>1
  <2>3. i = Len(log[q]) + 1
    BY <1>1, <1>2, <1>5, <2>1, <2>2
  <2>4. QED
    BY <1>2, <2>2, <2>3
<1>6. ASSUME NEW s \in Stages, NEW i \in InHand(s), i \in pel[s] => i \in pel'[s]
      PROVE  log[s][i] \in MessagesInHand(s)'
  <2>1. i \in InHand(s)' /\ log'[s][i] = log[s][i]
    BY <1>1, <1>2, <1>6 DEF InHand
  <2>2. QED
    BY <2>1 DEF MessagesInHand
<1>7. \A s \in Stages : /\ MessagesInHand(s)' \subseteq MessagesInHand(s) \cup {m}
                        /\ s # q => MessagesInHand(s)' \subseteq MessagesInHand(s)
  <2> SUFFICES ASSUME NEW s \in Stages, NEW i \in InHand(s)'
               PROVE  log'[s][i] \in MessagesInHand(s) \/ (s = q /\ log'[s][i] = m)
    BY DEF MessagesInHand
  <2>1. i \in InHand(s) => log[s][i] \in MessagesInHand(s)
    BY DEF MessagesInHand
  <2>2. QED
    BY <1>4, <1>5, <2>1
<1>8. QED
  BY <1>3, <1>6, <1>7

\* A hand-over to the next stage: its message is owed as before.
LEMMA HandedOn ==
  ASSUME TypeInv, HandInv, HandInv', UNCHANGED delivered,
         NEW r \in Stages, r # LastStage, NEW k \in Nat, HandOver(r, k),
         NEW m, m = log[r][k]
  PROVE  /\ m \in Messages /\ m \in Owed
         /\ Position[m] = r + 1 /\ r + 1 \in Stages
         /\ UNCHANGED Owed
         /\ Position' = [Position EXCEPT ![m] = @ + 1]
<1>1. /\ r + 1 \in Stages
      /\ k \in pel[r] /\ k \in 1 .. Len(log[r])
      /\ m \in Messages /\ m \in Entered(r)
      /\ log' = [log EXCEPT ![r + 1] = Append(@, m)]
      /\ pel' = [pel EXCEPT ![r] = @ \ {k}]
  BY HandOverFacts
<1>2. /\ \A s \in Stages : Len(log[s]) \in Nat /\ delivered[s] \in Nat
      /\ pel \in [Stages -> SUBSET Nat]
      /\ \A s \in Stages : delivered[s] <= Len(log[s])
  BY LogEntries DEF TypeInv, TypeOK, StreamsOK
<1>3. m \in MessagesInHand(r)
  BY <1>1 DEF MessagesInHand, InHand
<1>4. Position[m] = r + 1 /\ m \in Owed
  BY <1>1, <1>3, OwedWhere
<1>5. m \notin Entered(r + 1)
  BY <1>1, <1>2 DEF HandInv, LetGo, InHand
<1> DEFINE q == r + 1
<1>6. q \in Stages /\ log' = [log EXCEPT ![q] = Append(@, m)] /\ m \notin Entered(q)
  BY <1>1, <1>5
<1>7. Position[m] = q /\ q \in Int
  BY <1>4 DEF Stages
<1> HIDE DEF q
<1>8. Position' = [Position EXCEPT ![m] = q + 1]
  BY <1>1, <1>6, PositionMoves DEF HandInv
<1>9. /\ Len(log'[q]) = Len(log[q]) + 1
      /\ log'[q][Len(log[q]) + 1] = m
      /\ \A i \in 1 .. Len(log[q]) : log'[q][i] = log[q][i]
      /\ \A s \in Stages \ {q} : log'[s] = log[s]
  BY <1>1, <1>6, AppendedLog
<1>10. \A s \in Stages : pel'[s] \subseteq pel[s]
  BY <1>1, <1>2
<1>11. Owed' \subseteq Owed
  <2>1. \A s \in Stages : MessagesInHand(s)' \subseteq MessagesInHand(s) \cup {m}
    BY <1>1, <1>6, <1>10, NewInHand
  <2>2. QED
    BY <1>4, <2>1 DEF Owed
<1>12. ASSUME NEW x \in Owed PROVE x \in Owed'
  <2>1. CASE x = m
    BY <1>1, <1>6, <1>10, <2>1, NewInHand DEF Owed
  <2>2. CASE x # m
    <3>1. PICK s \in Stages : x \in MessagesInHand(s)
      BY DEF Owed
    <3>2. PICK i \in InHand(s) : x = log[s][i]
      BY <3>1 DEF MessagesInHand
    <3>3. i \in pel[s] => i \in pel'[s]
      BY <1>1, <1>2, <2>2, <3>2
    <3>4. x \in MessagesInHand(s)'
      BY <1>1, <1>6, <1>10, <3>2, <3>3, NewInHand
    <3>5. QED
      BY <3>4 DEF Owed
  <2>3. QED
    BY <2>1, <2>2
<1>13. Position' = [Position EXCEPT ![m] = @ + 1]
  BY <1>7, <1>8
<1>14. QED
  BY <1>1, <1>4, <1>11, <1>12, <1>13

-----------------------------------------------------------------------------
(* The steps, one after the other. *)

\* The entry a thread acknowledges in ackAndPublishLua was carried out.
LEMMA AtAckFacts ==
  ASSUME SafetyInv, NEW t \in Threads, AtAck(t)
  PROVE  /\ StageOf[t] \in Stages /\ cur[t] \in Nat
         /\ MessageOf(t) \in done[StageOf[t]]
<1>1. StageOf[t] \in Stages /\ cur[t] \in Nat
  BY PipelineAssumption DEF SafetyInv, TypeInv, TypeOK
<1>2. QED
  BY <1>1 DEF SafetyInv, OrderInv, HandedOverDone

\* ackAndPublishLua forwards a message, or lets it leave the last stage.
LEMMA HandOverMaps ==
  ASSUME SafetyInv, [Next]_vars, NEW t \in Threads, AtAck(t),
         HandOver(StageOf[t], cur[t]),
         UNCHANGED <<delivered, alive, done, notified, refused, unreported>>
  PROVE  Delivery!Next
<1> DEFINE s == StageOf[t]
           m == MessageOf(t)
<1>1. s \in Stages /\ cur[t] \in Nat /\ m \in done[s] /\ m = log[s][cur[t]]
  BY AtAckFacts DEF MessageOf
<1>2. TypeInv /\ HandInv /\ HandInv'
  BY HandStep DEF SafetyInv
<1>3. UNCHANGED Closed
  BY DEF Closed, ChatAlive
<1>4. LastStage \in Nat /\ Stages = 0 .. LastStage
  BY PipelineAssumption DEF Stages
<1>5. CASE s # LastStage
  <2>1. /\ m \in Messages /\ m \in Owed
        /\ Position[m] = s + 1 /\ s + 1 \in Stages
        /\ UNCHANGED Owed
        /\ Position' = [Position EXCEPT ![m] = @ + 1]
    BY <1>1, <1>2, <1>5, HandedOn
  <2> HIDE DEF m, s
  <2>2. Position[m] \in 1 .. LastStage /\ Position[m] - 1 = s
    BY <1>1, <1>4, <2>1
  <2>3. Delivery!Forward(m)
    BY <1>1, <1>3, <2>1, <2>2 DEF Delivery!Forward
  <2>4. QED
    BY <2>1, <2>3 DEF Delivery!Next
<1>6. CASE s = LastStage
  <2>1. /\ cur[t] \in pel[s]
        /\ pel' = [pel EXCEPT ![s] = @ \ {cur[t]}]
        /\ UNCHANGED log
    BY <1>6 DEF HandOver, Acknowledge
  <2>2. /\ m \in Messages /\ m \in Owed
        /\ Position[m] = s + 1
        /\ Owed' = Owed \ {m}
        /\ UNCHANGED Position
    BY <1>1, <1>2, <2>1, Acknowledged
  <2> HIDE DEF m, s
  <2>3. Delivery!Leave(m)
    BY <1>1, <1>3, <1>6, <2>2 DEF Delivery!Leave
  <2>4. QED
    BY <2>2, <2>3 DEF Delivery!Next
<1>7. QED
  BY <1>5, <1>6

\* The hand-over the store refuses.
LEMMA PublishRefusedMaps ==
  ASSUME SafetyInv, NEW t \in Threads, PublishRefused(t)
  PROVE  Delivery!Next
<1> DEFINE s == StageOf[t]
           m == MessageOf(t)
<1>1. s \in Stages /\ cur[t] \in Nat /\ m \in done[s] /\ m = log[s][cur[t]]
  BY AtAckFacts DEF MessageOf, PublishRefused
<1>2. TypeInv /\ HandInv
  BY DEF SafetyInv
<1>3. LastStage \in Nat /\ Stages = 0 .. LastStage
  BY PipelineAssumption DEF Stages
<1>4. /\ s # LastStage
      /\ cur[t] \in pel[s]
      /\ pel' = [pel EXCEPT ![s] = @ \ {cur[t]}]
      /\ refused' = refused \cup {m}
      /\ UNCHANGED <<log, delivered, done, notified, unreported, alive>>
  BY DEF PublishRefused, Acknowledge
<1>5. /\ m \in Messages /\ m \in Owed
      /\ Position[m] = s + 1
      /\ Owed' = Owed \ {m}
      /\ UNCHANGED Position
  BY <1>1, <1>2, <1>4, Acknowledged
<1>6. UNCHANGED Closed
  BY <1>4 DEF Closed, ChatAlive
<1> HIDE DEF m, s
<1>7. Position[m] \in 1 .. LastStage /\ Position[m] - 1 = s
  BY <1>1, <1>3, <1>4, <1>5
<1>8. Delivery!Refuse(m)
  BY <1>1, <1>4, <1>5, <1>6, <1>7 DEF Delivery!Refuse
<1>9. QED
  BY <1>5, <1>8 DEF Delivery!Next

\* A pending entry that is dropped without a hand-over has an outcome.
LEMMA DroppedMaps ==
  ASSUME SafetyInv, RefusedGone, [Next]_vars,
         UNCHANGED <<log, delivered, alive, done, notified, refused, unreported>>,
         NEW r \in Stages, NEW k \in Nat, pel' = [pel EXCEPT ![r] = @ \ {k}]
  PROVE  [Delivery!Next]_Delivery!vars
<1> DEFINE m == log[r][k]
<1>1. TypeInv /\ HandInv /\ pel \in [Stages -> SUBSET Nat]
  BY DEF SafetyInv, TypeInv, TypeOK
<1>2. UNCHANGED Closed
  BY DEF Closed, ChatAlive
<1>3. CASE k \in pel[r]
  <2>1. /\ m \in Messages /\ m \in Owed
        /\ Position[m] = r + 1
        /\ Owed' = Owed \ {m}
        /\ UNCHANGED Position
    BY <1>1, <1>3, Acknowledged
  <2>2. k \in 1 .. Len(log[r]) /\ k \in InHand(r) /\ k \notin InHand(r)'
    <3>1. /\ delivered[r] \in Nat /\ Len(log[r]) \in Nat /\ delivered[r] <= Len(log[r])
          /\ k \in 1 .. delivered[r]
      BY <1>1, <1>3, LogEntries DEF TypeInv, TypeOK, StreamsOK
    <3>2. k \notin pel'[r] /\ delivered'[r] = delivered[r]
      BY <1>1
    <3>3. QED
      BY <1>3, <3>1, <3>2 DEF InHand
  <2>3. Settled(r, m)'
    BY <2>1, <2>2, DropsAreSettled DEF SafetyInv, DropsSettled, Drops
  <2>4. r # LastStage => m \notin Entered(r + 1)'
    BY <1>1, <2>2 DEF HandInv, LetGo, Entered
  <2>5. m \notin refused
    BY <2>1 DEF RefusedGone
  <2>6. m \in notified \cup unreported \cup Closed \/ (r = LastStage /\ m \in done[LastStage])
    BY <2>1, <2>3, <2>4, <2>5 DEF Settled, Outcome, Closed, ChatAlive
  <2> HIDE DEF m
  <2>7. Delivery!Leave(m)
    BY <1>2, <2>1, <2>6 DEF Delivery!Leave
  <2>8. QED
    BY <2>1, <2>7 DEF Delivery!Next
<1>4. CASE k \notin pel[r]
  <2>1. UNCHANGED pel
    BY <1>1, <1>4
  <2>2. \A s \in Stages : InHand(s)' = InHand(s)
    BY <2>1 DEF InHand
  <2>3. QED
    BY <1>2, <2>2, OwedStays DEF Delivery!vars
<1>5. QED
  BY <1>3, <1>4

\* The producer and the session cleanup.
LEMMA AcceptMaps ==
  ASSUME SafetyInv, [Next]_vars, NEW m \in Messages, Accept(m)
  PROVE  Delivery!Next
<1>1. TypeInv /\ HandInv /\ HandInv'
  BY HandStep DEF SafetyInv
<1>2. /\ 0 \in Stages
      /\ m \notin Entered(0)
      /\ log' = [log EXCEPT ![0] = Append(@, m)]
      /\ UNCHANGED <<delivered, pel, alive, done, notified, refused, unreported>>
  BY PipelineAssumption DEF Accept, Stages, historyVars
<1>3. Position[m] = 0 /\ Position' = [Position EXCEPT ![m] = 1]
  <2>1. Position[m] = 0 /\ Position' = [Position EXCEPT ![m] = 0 + 1]
    BY <1>1, <1>2, PositionMoves DEF HandInv
  <2>2. QED
    BY <2>1
<1>4. m \in MessagesInHand(0)' /\ \A s \in Stages : MessagesInHand(s)' \subseteq MessagesInHand(s) \cup {m}
  BY <1>1, <1>2, NewInHand
<1>5. \A s \in Stages : MessagesInHand(s) \subseteq MessagesInHand(s)'
  <2>1. \A s \in Stages : \A i \in InHand(s) : log[s][i] \in MessagesInHand(s)'
    BY <1>1, <1>2, NewInHand
  <2>2. QED
    BY <2>1 DEF MessagesInHand
<1>6. Owed' = Owed \cup {m}
  BY <1>2, <1>4, <1>5 DEF Owed
<1>7. m \notin Closed /\ UNCHANGED Closed
  BY <1>2 DEF Accept, Closed, ChatAlive
<1>8. Delivery!Submit(m)
  BY <1>2, <1>3, <1>6, <1>7 DEF Delivery!Submit
<1>9. QED
  BY <1>8 DEF Delivery!Next

\* The cleanup of a chat ends the promise for every message of it.
LEMMA EndSessionMaps ==
  ASSUME NEW c \in Chats, EndSession(c)
  PROVE  Delivery!Next
<1> DEFINE M == {m \in Messages : ChatOf[m] = c}
<1>1. UNCHANGED <<log, delivered, pel, done, notified, refused, unreported>>
  BY DEF EndSession, streamVars, historyVars
<1>2. UNCHANGED <<Position, Owed>>
  BY <1>1, OwedStays DEF InHand
<1>3. Closed' = Closed \cup M
  BY DEF EndSession, Closed, ChatAlive
<1>4. M \in SUBSET Messages
  OBVIOUS
<1> HIDE DEF M
<1>5. Delivery!CloseChat(M)
  BY <1>1, <1>2, <1>3 DEF Delivery!CloseChat
<1>6. QED
  BY <1>4, <1>5 DEF Delivery!Next

\* A step that leaves the streams, the outcomes and the chats alone.
LEMMA NothingSeen ==
  ASSUME UNCHANGED <<log, delivered, pel, alive, done, notified, refused, unreported>>
  PROVE  UNCHANGED Delivery!vars
<1>1. UNCHANGED <<Position, Owed>>
  BY OwedStays DEF InHand
<1>2. UNCHANGED Closed
  BY DEF Closed, ChatAlive
<1>3. QED
  BY <1>1, <1>2 DEF Delivery!vars

\* The service of a stage carries out a message that is there.
LEMMA WorkMaps ==
  ASSUME SafetyInv, NEW t \in Threads, WorkSucceeds(t) \/ WorkFails(t)
  PROVE  [Delivery!Next]_Delivery!vars
<1> DEFINE s == StageOf[t]
           m == MessageOf(t)
<1>1. /\ s \in Stages /\ m \in Messages
      /\ cur[t] \in 1 .. Len(log[s])
  BY HeldMessage DEF SafetyInv, WorkSucceeds, WorkFails, AtWork, Holding
<1>2. m \in Entered(s)
  BY <1>1 DEF Entered, MessageOf
<1>3. s < Position[m]
  BY <1>1, <1>2, PositionStages DEF SafetyInv, HandInv
<1>4. UNCHANGED <<log, delivered, pel, alive, notified, refused, unreported>>
  BY DEF WorkSucceeds, WorkFails, streamVars
<1>5. done' = [done EXCEPT ![s] = @ \cup {m}] \/ UNCHANGED done
  BY DEF WorkSucceeds, WorkFails, CarryOut
<1>6. UNCHANGED <<Position, Owed, Closed>>
  BY <1>4, OwedStays DEF InHand, Closed, ChatAlive
<1>7. CASE UNCHANGED done
  BY <1>4, <1>7, NothingSeen
<1>8. CASE done' = [done EXCEPT ![s] = @ \cup {m}]
  <2> HIDE DEF m, s
  <2>1. Delivery!Carry(m, s)
    BY <1>3, <1>4, <1>6, <1>8 DEF Delivery!Carry
  <2>2. QED
    BY <1>1, <2>1 DEF Delivery!Next, Stages
<1>9. QED
  BY <1>5, <1>7, <1>8

\* DelOldNAckFromStream tells the adapter of a live chat.
LEMMA NotifyMaps ==
  ASSUME SafetyInv, NEW t \in Threads, NotifyAdapter(t)
  PROVE  [Delivery!Next]_Delivery!vars
<1> DEFINE m == MessageOf(t)
<1>1. m \in Messages /\ StageOf[t] \in Stages /\ cur[t] \in 1 .. Len(log[StageOf[t]])
  BY HeldMessage DEF SafetyInv, NotifyAdapter, Holding
<1>2. m \in Entered(StageOf[t])
  BY <1>1 DEF Entered, MessageOf
<1>3. Position[m] > 0
  <2>1. Position[m] \in 0 .. LastStage + 1 /\ StageOf[t] < Position[m]
    BY <1>1, <1>2, PositionStages DEF SafetyInv, HandInv
  <2>2. QED
    BY <1>1, <2>1 DEF Stages
<1>4. UNCHANGED <<log, delivered, pel, alive, done, refused, unreported>>
  BY DEF NotifyAdapter, streamVars
<1>5. CASE ~ChatAlive(m)
  BY <1>4, <1>5, NothingSeen DEF NotifyAdapter
<1>6. CASE ChatAlive(m)
  <2>1. notified' = notified \cup {m} /\ m \notin Closed
    BY <1>6 DEF NotifyAdapter, Closed
  <2>2. UNCHANGED <<Position, Owed, Closed>>
    BY <1>4, OwedStays DEF InHand, Closed, ChatAlive
  <2> HIDE DEF m
  <2>3. Delivery!Notify(m)
    BY <1>3, <1>4, <2>1, <2>2 DEF Delivery!Notify
  <2>4. QED
    BY <1>1, <2>3 DEF Delivery!Next
<1>7. QED
  BY <1>5, <1>6

\* The report on a message that is there fails.
LEMMA NotifyRefusedMaps ==
  ASSUME SafetyInv, NEW t \in Threads, NotifyRefused(t)
  PROVE  Delivery!Next
<1> DEFINE m == MessageOf(t)
<1>1. m \in Messages /\ StageOf[t] \in Stages /\ cur[t] \in 1 .. Len(log[StageOf[t]])
  BY HeldMessage DEF SafetyInv, NotifyRefused, Holding
<1>2. m \in Entered(StageOf[t])
  BY <1>1 DEF Entered, MessageOf
<1>3. Position[m] > 0
  <2>1. Position[m] \in 0 .. LastStage + 1 /\ StageOf[t] < Position[m]
    BY <1>1, <1>2, PositionStages DEF SafetyInv, HandInv
  <2>2. QED
    BY <1>1, <2>1 DEF Stages
<1>4. /\ unreported' = unreported \cup {m} /\ m \notin Closed
      /\ UNCHANGED <<log, delivered, pel, alive, done, notified, refused>>
  BY DEF NotifyRefused, streamVars, Closed
<1>5. UNCHANGED <<Position, Owed, Closed>>
  BY <1>4, OwedStays DEF InHand, Closed, ChatAlive
<1> HIDE DEF m
<1>6. Delivery!FailToNotify(m)
  BY <1>3, <1>4, <1>5 DEF Delivery!FailToNotify
<1>7. QED
  BY <1>1, <1>6 DEF Delivery!Next

\* A fetched entry goes from waiting to pending.
LEMMA FetchMaps ==
  ASSUME SafetyInv, NEW t \in Threads, Fetch(t)
  PROVE  UNCHANGED Delivery!vars
<1>1. /\ StageOf[t] \in Stages
      /\ delivered \in [Stages -> Nat] /\ pel \in [Stages -> SUBSET Nat]
      /\ Len(log[StageOf[t]]) \in Nat
  BY PipelineAssumption, LogEntries DEF SafetyInv, TypeInv, TypeOK
<1>2. UNCHANGED <<log, alive, done, notified, refused, unreported>>
  BY DEF Fetch, historyVars
<1>3. \A s \in Stages : InHand(s)' = InHand(s)
  <2> SUFFICES ASSUME NEW s \in Stages, NEW i \in 1 .. Len(log[s])
               PROVE  (i > delivered'[s] \/ i \in pel'[s]) <=> (i > delivered[s] \/ i \in pel[s])
    BY <1>2 DEF InHand
  <2>1. i \in Int /\ delivered[s] \in Nat
    BY <1>1
  <2>2. CASE delivered'[s] = delivered[s] /\ pel'[s] = pel[s]
    BY <2>2
  <2>3. CASE delivered'[s] = delivered[s] + 1 /\ pel'[s] = pel[s] \cup {delivered[s] + 1}
    BY <2>1, <2>3
  <2>4. QED
    BY <1>1, <2>2, <2>3 DEF Fetch
<1>4. UNCHANGED <<Position, Owed>>
  BY <1>2, <1>3, OwedStays
<1>5. UNCHANGED Closed
  BY <1>2 DEF Closed, ChatAlive
<1>6. QED
  BY <1>2, <1>4, <1>5 DEF Delivery!vars

\* Every step of the pipeline is one of MessageDelivery, or is not seen there.
LEMMA StepMaps ==
  ASSUME SafetyInv, RefusedGone, [Next]_vars
  PROVE  [Delivery!Next]_Delivery!vars
<1>0. \A t \in Threads : StageOf[t] \in Stages /\ cur[t] \in Nat
  BY PipelineAssumption DEF SafetyInv, TypeInv, TypeOK
<1>1. ASSUME NEW m \in Messages, Accept(m) PROVE Delivery!Next
  BY <1>1, AcceptMaps
<1>2. ASSUME NEW c \in Chats, EndSession(c) PROVE Delivery!Next
  BY <1>2, EndSessionMaps
<1>3. CASE Tick \/ UNCHANGED vars \/ \E p \in Pods : Crash(p) \/ Restart(p)
  BY <1>3, NothingSeen DEF Tick, Crash, Restart, vars, streamVars, historyVars
<1>4. ASSUME NEW t \in Threads, ThreadStep(t) PROVE [Delivery!Next]_Delivery!vars
  <2>1. CASE Fetch(t)
    BY <2>1, FetchMaps
  <2>2. CASE Claim(t)
    <3>1. UNCHANGED <<log, delivered, alive, done, notified, refused, unreported>>
      BY <2>2 DEF Claim, historyVars
    <3>2. CASE UNCHANGED pel
      BY <3>1, <3>2, NothingSeen
    <3>3. ASSUME NEW i \in Claimable(StageOf[t]),
                 pel' = [pel EXCEPT ![StageOf[t]] = @ \ {i}]
          PROVE  [Delivery!Next]_Delivery!vars
      <4>1. i \in Nat
        BY <1>0 DEF Claimable, SafetyInv, TypeInv, TypeOK
      <4>2. QED
        BY <1>0, <3>1, <3>3, <4>1, DroppedMaps
    <3>4. QED
      BY <2>2, <3>2, <3>3 DEF Claim
  <2>3. CASE WorkSucceeds(t) \/ WorkFails(t)
    BY <2>3, WorkMaps
  <2>4. CASE AckAndPublish(t) \/ ReplyLost(t)
    <3>1. /\ AtAck(t) /\ HandOver(StageOf[t], cur[t])
          /\ UNCHANGED <<delivered, alive, done, notified, refused, unreported>>
      BY <2>4 DEF AckAndPublish, ReplyLost, historyVars
    <3>2. QED
      BY <3>1, HandOverMaps
  <2>5. CASE PublishRefused(t)
    BY <2>5, PublishRefusedMaps
  <2>6. CASE \/ AckFindsNothing(t) \/ ScanPending(t) \/ ReadOld(t) \/ DeleteOld(t)
             \/ ScriptUnreached(t) \/ CommandFails(t)
    BY <2>6, NothingSeen DEF AckFindsNothing, ScanPending, ReadOld, DeleteOld,
      ScriptUnreached, CommandFails, streamVars, historyVars
  <2>7. CASE NotifyAdapter(t)
    BY <2>7, NotifyMaps
  <2>10. CASE NotifyRefused(t)
    BY <2>10, NotifyRefusedMaps
  <2>8. CASE AckOld(t)
    <3>1. /\ UNCHANGED <<log, delivered, alive, done, notified, refused, unreported>>
          /\ pel' = [pel EXCEPT ![StageOf[t]] = @ \ {cur[t]}]
      BY <2>8 DEF AckOld, historyVars
    <3>2. QED
      BY <1>0, <3>1, DroppedMaps
  <2>9. QED
    BY <1>4, <2>1, <2>2, <2>3, <2>4, <2>5, <2>6, <2>7, <2>8, <2>10 DEF ThreadStep
<1>5. QED
  BY <1>1, <1>2, <1>3, <1>4 DEF Next

\* MessageDelivery itself keeps RefusedGone: only a new message becomes owed.
LEMMA RefusedStaysGone ==
  ASSUME RefusedGone, [Delivery!Next]_Delivery!vars
  PROVE  RefusedGone'
<1>1. Position = [x \in Messages |-> Position[x]] /\ Owed \subseteq Messages
  BY DEF Position, Owed
<1>2. ASSUME NEW m \in Messages, Delivery!Submit(m) PROVE RefusedGone'
  BY <1>1, <1>2 DEF RefusedGone, Delivery!Submit
<1>3. ASSUME NEW m \in Messages, Delivery!Forward(m) PROVE RefusedGone'
  BY <1>1, <1>3 DEF RefusedGone, Delivery!Forward
<1>4. ASSUME NEW m \in Messages, Delivery!Leave(m) PROVE RefusedGone'
  BY <1>4 DEF RefusedGone, Delivery!Leave
<1>5. ASSUME NEW m \in Messages, Delivery!Refuse(m) PROVE RefusedGone'
  BY <1>5 DEF RefusedGone, Delivery!Refuse
<1>6. ASSUME NEW m \in Messages, Delivery!Notify(m) PROVE RefusedGone'
  BY <1>6 DEF RefusedGone, Delivery!Notify
<1>11. ASSUME NEW m \in Messages, Delivery!FailToNotify(m) PROVE RefusedGone'
  BY <1>11 DEF RefusedGone, Delivery!FailToNotify
<1>7. ASSUME NEW m \in Messages, NEW s \in 0 .. LastStage, Delivery!Carry(m, s)
      PROVE  RefusedGone'
  BY <1>7 DEF RefusedGone, Delivery!Carry
<1>8. ASSUME NEW M \in SUBSET Messages, Delivery!CloseChat(M) PROVE RefusedGone'
  BY <1>8 DEF RefusedGone, Delivery!CloseChat
<1>9. CASE UNCHANGED Delivery!vars
  BY <1>9 DEF RefusedGone, Delivery!vars
<1>10. QED
  BY <1>2, <1>3, <1>4, <1>5, <1>6, <1>7, <1>8, <1>9, <1>11 DEF Delivery!Next

-----------------------------------------------------------------------------
(* The theorem. *)

(* What Worker.Start and its scripts do to a message, over all pods, threads  *)
(* and crashes, is what MessageDelivery promises: one stage after the other,  *)
(* never back, only finished work handed on, and nothing let go without an    *)
(* outcome, unless Redis fails to take the message or the report about it.    *)
THEOREM DeliveryImplemented == Spec => ImplementsDelivery
<1>1. Init => Delivery!Init /\ RefusedGone
  <2> SUFFICES ASSUME Init PROVE Delivery!Init /\ RefusedGone
    OBVIOUS
  <2>1. \A s \in Stages : Entered(s) = {} /\ InHand(s) = {}
    BY EmptySeq DEF Init, Entered, InHand
  <2>2. Position = [m \in Messages |-> 0]
    <3>1. \A m \in Messages : {s \in Stages : m \in Entered(s)} = {}
      BY <2>1
    <3>2. QED
      BY <3>1, FS_EmptySet DEF Position
  <2>3. Owed = {}
    BY <2>1 DEF Owed, MessagesInHand
  <2>4. Closed = {}
    BY PipelineAssumption DEF Init, Closed, ChatAlive
  <2>5. done = [s \in 0 .. LastStage |-> {}] /\ notified = {} /\ refused = {}
      /\ unreported = {}
    BY DEF Init, Stages
  <2>6. QED
    BY <2>2, <2>3, <2>4, <2>5 DEF Delivery!Init, RefusedGone
<1>2. SafetyInv /\ RefusedGone /\ [Next]_vars => [Delivery!Next]_Delivery!vars
  BY StepMaps
<1>3. RefusedGone /\ [Delivery!Next]_Delivery!vars => RefusedGone'
  BY RefusedStaysGone
<1>4. QED
  BY <1>1, <1>2, <1>3, SafetyInvariance, PTL DEF Spec, ImplementsDelivery, Delivery!Spec

=============================================================================
