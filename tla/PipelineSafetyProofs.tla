------------------------ MODULE PipelineSafetyProofs ------------------------
(* The safety of WorkerPipeline, proved for every instance: a message is      *)
(* handed over once, is owed by one stage at a time, is carried out by the    *)
(* stages in their order, and is never forgotten without an outcome.          *)
EXTENDS WorkerPipelineProofs

(* The inductive invariant. *)

\* A message that entered a stage has entered every stage before it.
Prefixes ==
  \A s1, s2 \in Stages : s1 < s2 => Entered(s2) \subseteq Entered(s1)

\* A stage does not owe anything for a message it has handed over.
LetGo ==
  \A s \in Stages \ {LastStage} : \A i \in 1 .. Len(log[s]) :
    log[s][i] \in Entered(s + 1) => i \notin InHand(s)

HandInv == HandedOverOnce /\ Prefixes /\ LetGo

\* Only work that was carried out is handed over.
HandedOverDone ==
  /\ \A s \in Stages \ {LastStage} : Entered(s + 1) \subseteq done[s]
  /\ \A t \in Threads : AtAck(t) => MessageOf(t) \in done[StageOf[t]]

OrderInv == HandedOverDone /\ StagesInOrder

\* An entry is deleted, or about to be, only when its message is settled.
DeletedSettled ==
  /\ \A s \in Stages : \A i \in 1 .. Len(log[s]) :
       i \notin live[s] => Settled(s, log[s][i])
  /\ \A t \in Threads : pc[t] \in {"xdel", "xack"} => Settled(StageOf[t], MessageOf(t))

LossInv == DeletedSettled /\ NoSilentLoss

SafetyInv == TypeInv /\ HandInv /\ OrderInv /\ LossInv

-----------------------------------------------------------------------------
(* How the logs, the entries in hand and the outcomes may change. *)

\* Only the producer and the hand-over script add to a log.
LEMMA LogUnchanged ==
  ASSUME TypeInv, [Next]_vars,
         \A m \in Messages : ~Accept(m),
         \A s \in Stages \ {LastStage}, i \in Nat : ~HandOver(s, i)
  PROVE  UNCHANGED log
<1> USE DEF streamVars
<1>1. ASSUME NEW t \in Threads, ThreadStep(t) PROVE UNCHANGED log
  <2>1. StageOf[t] \in Stages /\ cur[t] \in Nat
    BY PipelineAssumption DEF TypeInv, TypeOK
  <2>2. HandOver(StageOf[t], cur[t]) => UNCHANGED log
    BY <2>1 DEF HandOver
  <2>3. QED
    BY <1>1, <2>2 DEF ThreadStep, Fetch, Claim, WorkSucceeds, WorkFails, AckAndPublish,
      ReplyLost, ScriptUnreached, AckFindsNothing, PublishRefused, ScanPending,
      ReadOld, NotifyAdapter, NotifyRefused, DeleteOld, AckOld, CommandFails
<1>2. QED
  BY <1>1 DEF Next, Tick, EndSession, Crash, Restart, vars

\* What an appended message does to the log, as a set and as a sequence.
LEMMA AppendedLog ==
  ASSUME TypeInv, NEW r \in Stages, NEW m \in Messages,
         log' = [log EXCEPT ![r] = Append(@, m)]
  PROVE  /\ Len(log'[r]) = Len(log[r]) + 1
         /\ log'[r][Len(log[r]) + 1] = m
         /\ \A i \in 1 .. Len(log[r]) : log'[r][i] = log[r][i]
         /\ Entered(r)' = Entered(r) \cup {m}
         /\ \A s \in Stages \ {r} : log'[s] = log[s] /\ Entered(s)' = Entered(s)
<1>1. log \in [Stages -> Seq(Messages)]
  BY DEF TypeInv, TypeOK
<1>2. log'[r] = Append(log[r], m) /\ log[r] \in Seq(Messages)
  BY <1>1
<1>3. /\ Len(log[r]) \in Nat
      /\ Len(log'[r]) = Len(log[r]) + 1
      /\ log'[r][Len(log[r]) + 1] = m
      /\ \A i \in 1 .. Len(log[r]) : log'[r][i] = log[r][i]
  BY <1>2, Appending
<1>4. \A s \in Stages \ {r} : log'[s] = log[s] /\ Entered(s)' = Entered(s)
  BY <1>1 DEF Entered
<1>5. Entered(r)' = Entered(r) \cup {m}
  <2>1. ASSUME NEW x \in Entered(r)' PROVE x \in Entered(r) \cup {m}
    <3>1. PICK i \in 1 .. Len(log'[r]) : x = log'[r][i]
      BY <2>1 DEF Entered
    <3>2. CASE i \in 1 .. Len(log[r])
      BY <1>3, <3>1, <3>2 DEF Entered
    <3>3. CASE i \notin 1 .. Len(log[r])
      <4>1. i = Len(log[r]) + 1
        BY <1>3, <3>1, <3>3
      <4>2. QED
        BY <1>3, <3>1, <4>1
    <3>4. QED
      BY <3>2, <3>3
  <2>2. ASSUME NEW x \in Entered(r) PROVE x \in Entered(r)'
    <3>1. PICK i \in 1 .. Len(log[r]) : x = log[r][i]
      BY <2>2 DEF Entered
    <3>2. i \in 1 .. Len(log'[r]) /\ x = log'[r][i]
      BY <1>3, <3>1
    <3>3. QED
      BY <3>2 DEF Entered
  <2>3. m \in Entered(r)'
    <3>1. Len(log[r]) + 1 \in 1 .. Len(log'[r])
      BY <1>3
    <3>2. QED
      BY <1>3, <3>1 DEF Entered
  <2>4. QED
    BY <2>1, <2>2, <2>3
<1>6. QED
  BY <1>3, <1>4, <1>5

\* The entry a hand-over concerns.
LEMMA HandOverFacts ==
  ASSUME TypeInv, NEW s \in Stages, s # LastStage, NEW i \in Nat, HandOver(s, i)
  PROVE  /\ s + 1 \in Stages
         /\ i \in pel[s] /\ i \in 1 .. Len(log[s])
         /\ log[s][i] \in Messages /\ log[s][i] \in Entered(s)
         /\ log' = [log EXCEPT ![s + 1] = Append(@, log[s][i])]
         /\ pel' = [pel EXCEPT ![s] = @ \ {i}]
<1>1. s + 1 \in Stages
  BY PipelineAssumption DEF Stages
<1>2. /\ i \in pel[s]
      /\ log' = [log EXCEPT ![s + 1] = Append(@, log[s][i])]
      /\ pel' = [pel EXCEPT ![s] = @ \ {i}]
  BY DEF HandOver, Acknowledge
<1>3. i \in 1 .. Len(log[s])
  <2>1. delivered[s] \in Nat /\ Len(log[s]) \in Nat /\ delivered[s] <= Len(log[s])
    BY LogEntries DEF TypeInv, TypeOK, StreamsOK
  <2>2. i \in 1 .. delivered[s]
    BY <1>2 DEF TypeInv, StreamsOK
  <2>3. QED
    BY <2>1, <2>2
<1>4. log[s][i] \in Messages
  BY <1>3, LogEntries DEF TypeInv
<1>5. log[s][i] \in Entered(s)
  BY <1>3 DEF Entered
<1>6. QED
  BY <1>1, <1>2, <1>3, <1>4, <1>5

\* Logs only grow at their end.
LEMMA LogsGrow ==
  ASSUME TypeInv, [Next]_vars, NEW s \in Stages
  PROVE  /\ Len(log[s]) <= Len(log'[s])
         /\ \A i \in 1 .. Len(log[s]) : log'[s][i] = log[s][i]
         /\ Entered(s) \subseteq Entered(s)'
<1>0. \A r \in Stages : Len(log[r]) \in Nat
  BY LogEntries DEF TypeInv
<1>1. ASSUME NEW m \in Messages, Accept(m)
      PROVE  /\ Len(log[s]) <= Len(log'[s])
             /\ \A i \in 1 .. Len(log[s]) : log'[s][i] = log[s][i]
             /\ Entered(s) \subseteq Entered(s)'
  <2>1. 0 \in Stages
    BY PipelineAssumption DEF Stages
  <2>2. log' = [log EXCEPT ![0] = Append(@, m)]
    BY <1>1 DEF Accept
  <2>3. CASE s = 0
    <3>1. log' = [log EXCEPT ![s] = Append(@, m)]
      BY <2>1, <2>2, <2>3
    <3>2. /\ Len(log'[s]) = Len(log[s]) + 1
          /\ \A i \in 1 .. Len(log[s]) : log'[s][i] = log[s][i]
          /\ Entered(s)' = Entered(s) \cup {m}
      BY <2>1, <3>1, AppendedLog
    <3>3. QED
      BY <1>0, <3>2
  <2>4. CASE s # 0
    <3>1. log'[s] = log[s] /\ Entered(s)' = Entered(s)
      BY <2>1, <2>2, <2>4, AppendedLog
    <3>2. QED
      BY <1>0, <3>1
  <2>5. QED
    BY <2>3, <2>4
<1>2. ASSUME NEW r \in Stages \ {LastStage}, NEW j \in Nat, HandOver(r, j)
      PROVE  /\ Len(log[s]) <= Len(log'[s])
             /\ \A i \in 1 .. Len(log[s]) : log'[s][i] = log[s][i]
             /\ Entered(s) \subseteq Entered(s)'
  <2> DEFINE m == log[r][j]
  <2>1. r + 1 \in Stages /\ m \in Messages /\ log' = [log EXCEPT ![r + 1] = Append(@, m)]
    BY <1>2, HandOverFacts
  <2> HIDE DEF m
  <2>2. CASE s = r + 1
    <3>1. log' = [log EXCEPT ![s] = Append(@, m)]
      BY <2>1, <2>2
    <3>2. /\ Len(log'[s]) = Len(log[s]) + 1
          /\ \A i \in 1 .. Len(log[s]) : log'[s][i] = log[s][i]
          /\ Entered(s)' = Entered(s) \cup {m}
      BY <2>1, <3>1, AppendedLog
    <3>3. QED
      BY <1>0, <3>2
  <2>3. CASE s # r + 1
    <3>1. log'[s] = log[s] /\ Entered(s)' = Entered(s)
      BY <2>1, <2>3, AppendedLog
    <3>2. QED
      BY <1>0, <3>1
  <2>4. QED
    BY <2>2, <2>3
<1>3. CASE UNCHANGED log
  BY <1>0, <1>3 DEF Entered
<1>4. QED
  BY <1>1, <1>2, <1>3, LogUnchanged

-----------------------------------------------------------------------------
(* One hand-over per stage, one stage at a time. *)

\* Without a new entry, a step that takes nothing new in hand is harmless.
LEMMA NothingNewInHand ==
  ASSUME HandInv, UNCHANGED log, \A s \in Stages : InHand(s)' \subseteq InHand(s)
  PROVE  HandInv'
<1>1. \A s : Entered(s)' = Entered(s)
  BY DEF Entered
<1>2. HandedOverOnce' /\ Prefixes'
  BY <1>1 DEF HandInv, HandedOverOnce, Prefixes
<1>3. LetGo'
  BY <1>1 DEF HandInv, LetGo
<1>4. QED
  BY <1>2, <1>3 DEF HandInv

\* A new entry is harmless if its message is new to the stage, known to every
\* stage before it, and let go by the one just before it.
LEMMA NewEntry ==
  ASSUME TypeInv, HandInv, NEW r \in Stages, NEW m \in Messages,
         log' = [log EXCEPT ![r] = Append(@, m)],
         m \notin Entered(r),
         \A q \in Stages : q < r => m \in Entered(q),
         \A s \in Stages : InHand(s)' \subseteq InHand(s) \cup {Len(log[s]) + 1},
         \A q \in Stages, i \in Nat :
           q + 1 = r /\ i \in 1 .. Len(log[q]) /\ log[q][i] = m => i \notin InHand(q)'
  PROVE  HandInv'
<1>0. \A s \in Stages : Len(log[s]) \in Nat
  BY LogEntries DEF TypeInv
<1>1. /\ Len(log'[r]) = Len(log[r]) + 1
      /\ log'[r][Len(log[r]) + 1] = m
      /\ \A i \in 1 .. Len(log[r]) : log'[r][i] = log[r][i]
      /\ Entered(r)' = Entered(r) \cup {m}
      /\ \A s \in Stages \ {r} : log'[s] = log[s] /\ Entered(s)' = Entered(s)
  BY AppendedLog
<1>2. \A i \in 1 .. Len(log[r]) : log[r][i] # m
  BY DEF Entered
<1>3. HandedOverOnce'
  <2> SUFFICES ASSUME NEW s \in Stages, NEW i \in 1 .. Len(log'[s]),
                      NEW j \in 1 .. Len(log'[s]), log'[s][i] = log'[s][j]
               PROVE  i = j
    BY DEF HandedOverOnce
  <2>1. CASE s # r
    BY <1>1, <2>1 DEF HandInv, HandedOverOnce
  <2>2. CASE s = r
    <3>1. i \in 1 .. Len(log[r]) \/ i = Len(log[r]) + 1
      BY <1>0, <1>1, <2>2
    <3>2. j \in 1 .. Len(log[r]) \/ j = Len(log[r]) + 1
      BY <1>0, <1>1, <2>2
    <3>3. CASE i \in 1 .. Len(log[r]) /\ j \in 1 .. Len(log[r])
      BY <1>1, <2>2, <3>3 DEF HandInv, HandedOverOnce
    <3>4. QED
      BY <1>1, <1>2, <2>2, <3>1, <3>2, <3>3
  <2>3. QED
    BY <2>1, <2>2
<1>4. Prefixes'
  <2> SUFFICES ASSUME NEW s1 \in Stages, NEW s2 \in Stages, s1 < s2
               PROVE  Entered(s2)' \subseteq Entered(s1)'
    BY DEF Prefixes
  <2>1. Entered(s2) \subseteq Entered(s1)
    BY DEF HandInv, Prefixes
  <2>2. QED
    BY <1>1, <2>1
<1>5. LetGo'
  <2> SUFFICES ASSUME NEW s \in Stages \ {LastStage}, NEW i \in 1 .. Len(log'[s]),
                      log'[s][i] \in Entered(s + 1)'
               PROVE  i \notin InHand(s)'
    BY DEF LetGo
  <2>1. s + 1 \in Stages /\ s # s + 1 /\ s < s + 1
    BY PipelineAssumption DEF Stages
  <2>2. CASE s = r
    <3>1. Entered(s + 1)' = Entered(s + 1)
      BY <1>1, <2>1, <2>2
    <3>2. m \notin Entered(s + 1)
      BY <2>1, <2>2 DEF HandInv, Prefixes
    <3>3. i \in 1 .. Len(log[s])
      BY <1>0, <1>1, <2>2, <3>1, <3>2
    <3>4. i \notin InHand(s)
      BY <1>1, <2>2, <3>1, <3>3 DEF HandInv, LetGo
    <3>5. i # Len(log[s]) + 1
      BY <1>0, <3>3
    <3>6. QED
      BY <3>4, <3>5
  <2>3. CASE s # r
    <3>1. log'[s] = log[s] /\ i \in 1 .. Len(log[s]) /\ i \in Nat
      BY <1>1, <2>3
    <3>2. i # Len(log[s]) + 1
      BY <1>0, <3>1
    <3>3. CASE log[s][i] \in Entered(s + 1)
      BY <3>1, <3>2, <3>3 DEF HandInv, LetGo
    <3>4. CASE log[s][i] \notin Entered(s + 1)
      <4>1. s + 1 = r /\ log[s][i] = m
        BY <1>1, <2>1, <3>1, <3>4
      <4>2. QED
        BY <3>1, <4>1
    <3>5. QED
      BY <3>3, <3>4
  <2>4. QED
    BY <2>2, <2>3
<1>6. QED
  BY <1>3, <1>4, <1>5 DEF HandInv

\* Every step keeps what was handed over out of the hands that let it go.
LEMMA HandStep == TypeInv /\ HandInv /\ [Next]_vars => HandInv'
<1> SUFFICES ASSUME TypeInv, HandInv, [Next]_vars PROVE HandInv'
  OBVIOUS
<1>0. \A s \in Stages : /\ Len(log[s]) \in Nat /\ delivered[s] \in Nat
                        /\ delivered[s] <= Len(log[s])
  BY LogEntries DEF TypeInv, TypeOK, StreamsOK
<1>1. ASSUME NEW m \in Messages, Accept(m) PROVE HandInv'
  <2>1. /\ 0 \in Stages
        /\ m \notin Entered(0)
        /\ log' = [log EXCEPT ![0] = Append(@, m)]
        /\ UNCHANGED <<delivered, pel>>
    BY <1>1, PipelineAssumption DEF Accept, Stages
  <2>2. \A q \in Stages : ~(q < 0) /\ q + 1 # 0
    BY DEF Stages
  <2>3. \A s \in Stages : InHand(s)' \subseteq InHand(s) \cup {Len(log[s]) + 1}
    <3>1. /\ Len(log'[0]) = Len(log[0]) + 1
          /\ \A s \in Stages \ {0} : log'[s] = log[s]
      BY <2>1, AppendedLog
    <3>2. QED
      BY <1>0, <2>1, <3>1 DEF InHand
  <2>4. QED
    BY <2>1, <2>2, <2>3, NewEntry
<1>2. ASSUME NEW t \in Threads, HandOver(StageOf[t], cur[t]), UNCHANGED delivered
      PROVE  HandInv'
  <2> DEFINE s == StageOf[t]
             i == cur[t]
             m == log[s][i]
  <2>1. s \in Stages /\ i \in Nat
    BY PipelineAssumption DEF TypeInv, TypeOK
  <2>2. pel' = [pel EXCEPT ![s] = @ \ {i}] /\ i \in pel[s]
    BY <1>2 DEF HandOver, Acknowledge
  <2>3. \A q \in Stages : pel'[q] \subseteq pel[q]
    BY <2>1, <2>2 DEF TypeInv, TypeOK
  <2>4. CASE s = LastStage
    <3>1. UNCHANGED log
      BY <1>2, <2>4 DEF HandOver
    <3>2. \A q \in Stages : InHand(q)' \subseteq InHand(q)
      BY <1>2, <2>3, <3>1 DEF InHand
    <3>3. QED
      BY <3>1, <3>2, NothingNewInHand
  <2>5. CASE s # LastStage
    <3>1. /\ s + 1 \in Stages
          /\ i \in 1 .. Len(log[s])
          /\ m \in Messages /\ m \in Entered(s)
          /\ log' = [log EXCEPT ![s + 1] = Append(@, m)]
      BY <1>2, <2>1, <2>5, HandOverFacts
    <3>2. i \in InHand(s)
      BY <2>2, <3>1 DEF InHand
    <3>3. m \notin Entered(s + 1)
      BY <2>1, <2>5, <3>1, <3>2 DEF HandInv, LetGo
    <3>4. \A q \in Stages : q < s + 1 => m \in Entered(q)
      <4>1. \A q \in Stages : q < s + 1 => q = s \/ q < s
        BY <2>1 DEF Stages
      <4>2. QED
        BY <2>1, <3>1, <4>1 DEF HandInv, Prefixes
    <3>5. /\ Len(log'[s + 1]) = Len(log[s + 1]) + 1
          /\ \A q \in Stages \ {s + 1} : log'[q] = log[q]
      BY <3>1, AppendedLog
    <3>6. \A q \in Stages : InHand(q)' \subseteq InHand(q) \cup {Len(log[q]) + 1}
      BY <1>0, <1>2, <2>3, <3>1, <3>5 DEF InHand
    <3>7. i \notin InHand(s)'
      <4>1. i \notin pel'[s] /\ i <= delivered[s]
        BY <2>1, <2>2 DEF TypeInv, TypeOK, StreamsOK
      <4>2. QED
        BY <1>0, <1>2, <2>1, <4>1 DEF InHand
    <3>8. \A q \in Stages, j \in Nat :
            q + 1 = s + 1 /\ j \in 1 .. Len(log[q]) /\ log[q][j] = m => j \notin InHand(q)'
      <4>1. \A q \in Stages : q + 1 = s + 1 => q = s
        BY <2>1 DEF Stages
      <4>2. \A j \in 1 .. Len(log[s]) : log[s][j] = m => j = i
        BY <2>1, <3>1 DEF HandInv, HandedOverOnce
      <4>3. QED
        BY <3>7, <4>1, <4>2
    <3> DEFINE r == s + 1
    <3>9. \A q \in Stages : q < r => m \in Entered(q)
      BY <3>4
    <3>10. \A q \in Stages, j \in Nat :
             q + 1 = r /\ j \in 1 .. Len(log[q]) /\ log[q][j] = m => j \notin InHand(q)'
      BY <3>8
    <3>11. r \in Stages /\ m \notin Entered(r) /\ m \in Messages
           /\ log' = [log EXCEPT ![r] = Append(@, m)]
      BY <3>1, <3>3
    <3> HIDE DEF m, r
    <3>12. QED
      BY <3>6, <3>9, <3>10, <3>11, NewEntry
  <2>6. QED
    BY <2>4, <2>5
<1>3. ASSUME UNCHANGED <<log, delivered>>, \A s \in Stages : pel'[s] \subseteq pel[s]
      PROVE  HandInv'
  <2>1. \A s \in Stages : InHand(s)' \subseteq InHand(s)
    BY <1>3 DEF InHand
  <2>2. QED
    BY <1>3, <2>1, NothingNewInHand
<1>4. ASSUME NEW t \in Threads, Fetch(t) PROVE HandInv'
  <2> DEFINE s == StageOf[t]
  <2>1. s \in Stages /\ UNCHANGED log
    BY <1>4, PipelineAssumption DEF Fetch
  <2>2. CASE UNCHANGED <<delivered, pel>>
    BY <1>3, <2>1, <2>2
  <2>3. CASE /\ delivered[s] < Len(log[s])
             /\ delivered' = [delivered EXCEPT ![s] = @ + 1]
             /\ pel' = [pel EXCEPT ![s] = @ \cup {delivered[s] + 1}]
    <3>1. ASSUME NEW q \in Stages PROVE InHand(q)' \subseteq InHand(q)
      <4>1. CASE q # s
        BY <2>1, <2>3, <4>1 DEF InHand, TypeInv, TypeOK
      <4>2. CASE q = s
        <5>1. delivered'[s] = delivered[s] + 1 /\ pel'[s] = pel[s] \cup {delivered[s] + 1}
          BY <2>1, <2>3 DEF TypeInv, TypeOK
        <5>2. ASSUME NEW i \in 1 .. Len(log[s]),
                     i > delivered'[s] \/ i \in pel'[s]
              PROVE  i > delivered[s] \/ i \in pel[s]
          BY <1>0, <2>1, <5>1, <5>2
        <5>3. QED
          BY <2>1, <4>2, <5>2 DEF InHand
      <4>3. QED
        BY <4>1, <4>2
    <3>2. QED
      BY <2>1, <3>1, NothingNewInHand
  <2>4. QED
    BY <1>4, <2>2, <2>3 DEF Fetch
<1>5. ASSUME NEW t \in Threads, ThreadStep(t) PROVE HandInv'
  <2>1. StageOf[t] \in Stages /\ pel \in [Stages -> SUBSET Nat]
    BY PipelineAssumption DEF TypeInv, TypeOK
  <2>2. ASSUME NEW i, pel' = [pel EXCEPT ![StageOf[t]] = @ \ {i}]
        PROVE  \A s \in Stages : pel'[s] \subseteq pel[s]
    BY <2>1, <2>2
  <2>3. CASE AckAndPublish(t) \/ ReplyLost(t)
    BY <1>2, <2>3 DEF AckAndPublish, ReplyLost
  <2>4. CASE Claim(t)
    BY <1>3, <2>2, <2>4 DEF Claim
  <2>5. CASE PublishRefused(t) \/ AckOld(t)
    BY <1>3, <2>2, <2>5 DEF PublishRefused, AckOld, Acknowledge
  <2>6. CASE \/ WorkSucceeds(t) \/ WorkFails(t) \/ AckFindsNothing(t)
             \/ ScanPending(t) \/ ReadOld(t) \/ NotifyAdapter(t) \/ DeleteOld(t)
             \/ ScriptUnreached(t) \/ NotifyRefused(t) \/ CommandFails(t)
    BY <1>3, <2>6 DEF WorkSucceeds, WorkFails, AckFindsNothing, ScanPending,
      ReadOld, NotifyAdapter, DeleteOld, ScriptUnreached, NotifyRefused,
      CommandFails, streamVars
  <2>7. QED
    BY <1>4, <1>5, <2>3, <2>4, <2>5, <2>6 DEF ThreadStep
<1>6. CASE \/ Tick \/ UNCHANGED vars
           \/ \E c \in Chats : EndSession(c)
           \/ \E p \in Pods : Crash(p) \/ Restart(p)
  BY <1>3, <1>6 DEF Tick, EndSession, Crash, Restart, vars, streamVars
<1>7. QED
  BY <1>1, <1>5, <1>6 DEF Next

-----------------------------------------------------------------------------
(* Where a step leaves the threads. *)

\* Where the steps of thread t itself lead.
LEMMA OwnMoves ==
  ASSUME TypeInv, NEW t \in Threads, ThreadStep(t)
  PROVE  /\ AtAck(t)' => WorkSucceeds(t)
         /\ pc'[t] = "xdel" => ReadOld(t) \/ NotifyAdapter(t) \/ NotifyRefused(t)
         /\ pc'[t] = "xack" =>
              DeleteOld(t) \/ (CommandFails(t) /\ pc[t] = "xdel" /\ cur' = cur)
<1>1. pc \in [Threads -> PcValues] /\ PodOf[t] \in Pods
  BY PipelineAssumption DEF TypeInv, TypeOK
<1> DEFINE Loop == {"fetch", "claim", "scan", "workFetched", "workClaimed", "range",
                    "notify", "down"}
<1>2. Panic(t) => pc'[t] \in Loop
  BY <1>1 DEF Panic, PodDown, GoTo
<1>3. ASSUME NEW rest, Visit(t, rest) PROVE pc'[t] \in Loop
  BY <1>1, <1>3 DEF Visit, GoTo
<1>4. CASE \/ Fetch(t) \/ Claim(t) \/ WorkFails(t) \/ AckAndPublish(t)
  BY <1>1, <1>4 DEF Fetch, Claim, WorkFails, AckAndPublish, GoTo, AfterWork, AtAck
<1>5. CASE \/ ReplyLost(t) \/ ScriptUnreached(t) \/ AckFindsNothing(t)
           \/ PublishRefused(t)
  BY <1>2, <1>5 DEF ReplyLost, ScriptUnreached, AckFindsNothing, PublishRefused, AtAck
<1>6. CASE ScanPending(t) \/ AckOld(t)
  BY <1>3, <1>6 DEF ScanPending, AckOld, AtAck
<1>7. CASE WorkSucceeds(t)
  BY <1>1, <1>7 DEF WorkSucceeds, AtAck
<1>8. CASE ReadOld(t) \/ NotifyAdapter(t) \/ NotifyRefused(t) \/ DeleteOld(t)
  BY <1>1, <1>8 DEF ReadOld, NotifyAdapter, NotifyRefused, DeleteOld, AtAck
<1>9. CASE CommandFails(t)
  <2>1. CASE GoTo(t, "claim") \/ GoTo(t, "scan")
    BY <1>1, <2>1 DEF GoTo, AtAck
  <2>2. CASE Visit(t, {}) \/ Visit(t, todo[t])
    BY <1>3, <2>2 DEF AtAck
  <2>3. CASE pc[t] = "xdel" /\ pc' = [pc EXCEPT ![t] = "xack"] /\ UNCHANGED cur
    BY <1>1, <1>9, <2>3 DEF AtAck
  <2>4. QED
    BY <1>9, <2>1, <2>2, <2>3 DEF CommandFails
<1>10. QED
  BY <1>4, <1>5, <1>6, <1>7, <1>8, <1>9 DEF ThreadStep

\* A step of another thread, of a pod or of the environment leaves a thread
\* where it is or puts it out of work.
LEMMA OthersMoves ==
  ASSUME TypeInv, [Next]_vars, NEW u \in Threads, ~ThreadStep(u)
  PROVE  \/ pc'[u] = pc[u] /\ cur'[u] = cur[u]
         \/ pc'[u] \in {"down", "fetch"}
<1>1. /\ pc \in [Threads -> PcValues] /\ cur \in [Threads -> Nat]
      /\ \A t \in Threads : PodOf[t] \in Pods
  BY PipelineAssumption DEF TypeInv, TypeOK
<1>2. ASSUME NEW p \in Pods, PodDown(p)
      PROVE  (pc'[u] = pc[u] /\ cur'[u] = cur[u]) \/ pc'[u] = "down"
  BY <1>2 DEF PodDown
<1>3. ASSUME NEW t \in Threads, ThreadStep(t)
      PROVE  \/ pc'[u] = pc[u] /\ cur'[u] = cur[u]
             \/ pc'[u] \in {"down", "fetch"}
  <2>1. t # u
    BY <1>3
  <2>2. Panic(t) => \/ pc'[u] = pc[u] /\ cur'[u] = cur[u]
                    \/ pc'[u] = "down"
    BY <1>1, <1>2, <2>1 DEF Panic, GoTo
  <2>3. ASSUME NEW rest, Visit(t, rest) PROVE pc'[u] = pc[u] /\ cur'[u] = cur[u]
    BY <1>1, <2>1, <2>3 DEF Visit, GoTo
  <2>4. CASE \/ Fetch(t) \/ Claim(t) \/ WorkSucceeds(t) \/ WorkFails(t)
             \/ AckAndPublish(t) \/ ReadOld(t) \/ NotifyAdapter(t)
             \/ NotifyRefused(t) \/ DeleteOld(t)
    BY <1>1, <2>1, <2>4 DEF Fetch, Claim, WorkSucceeds, WorkFails, AckAndPublish,
      ReadOld, NotifyAdapter, NotifyRefused, DeleteOld, GoTo
  <2>5. CASE \/ ReplyLost(t) \/ ScriptUnreached(t) \/ AckFindsNothing(t)
             \/ PublishRefused(t)
    BY <2>2, <2>5 DEF ReplyLost, ScriptUnreached, AckFindsNothing, PublishRefused
  <2>6. CASE ScanPending(t) \/ AckOld(t) \/ CommandFails(t)
    BY <1>1, <2>1, <2>3, <2>6 DEF ScanPending, AckOld, CommandFails, GoTo
  <2>7. QED
    BY <1>3, <2>4, <2>5, <2>6 DEF ThreadStep
<1>4. ASSUME NEW p \in Pods, Crash(p) \/ Restart(p)
      PROVE  \/ pc'[u] = pc[u] /\ cur'[u] = cur[u]
             \/ pc'[u] \in {"down", "fetch"}
  BY <1>2, <1>4 DEF Crash, Restart
<1>5. CASE \/ \E m \in Messages : Accept(m)
           \/ Tick \/ UNCHANGED vars
           \/ \E c \in Chats : EndSession(c)
  BY <1>5 DEF Accept, Tick, EndSession, vars, threadVars
<1>6. QED
  BY <1>3, <1>4, <1>5 DEF Next

\* A thread that goes on holding its entry goes on holding its message.
LEMMA MessageStays ==
  ASSUME TypeInv, [Next]_vars, NEW t \in Threads, pc[t] \in Holding, cur'[t] = cur[t]
  PROVE  MessageOf(t)' = MessageOf(t)
<1>1. StageOf[t] \in Stages /\ cur[t] \in 1 .. Len(log[StageOf[t]])
  BY HeldMessage
<1>2. log'[StageOf[t]][cur[t]] = log[StageOf[t]][cur[t]]
  BY <1>1, LogsGrow
<1>3. QED
  BY <1>2 DEF MessageOf

\* The outcomes a message has had stay.
LEMMA OutcomesStay ==
  ASSUME TypeInv, [Next]_vars
  PROVE  /\ \A s \in Stages : done[s] \subseteq done'[s]
         /\ notified \subseteq notified'
         /\ refused \subseteq refused'
         /\ unreported \subseteq unreported'
         /\ alive' \subseteq alive
<1>1. done \in [Stages -> SUBSET Messages] /\ \A t \in Threads : StageOf[t] \in Stages
  BY PipelineAssumption DEF TypeInv, TypeOK
<1>2. ASSUME NEW t \in Threads, WorkSucceeds(t) \/ WorkFails(t)
      PROVE  \A s \in Stages : done[s] \subseteq done'[s]
  <2>1. done' = done \/ done' = [done EXCEPT ![StageOf[t]] = @ \cup {MessageOf(t)}]
    BY <1>2 DEF WorkSucceeds, WorkFails, CarryOut
  <2>2. QED
    BY <1>1, <2>1
<1>3. ASSUME NEW t \in Threads, ThreadStep(t), ~WorkSucceeds(t), ~WorkFails(t)
      PROVE  UNCHANGED done
  BY <1>3 DEF ThreadStep, Fetch, Claim, AckAndPublish, ReplyLost, ScriptUnreached,
    AckFindsNothing, PublishRefused, ScanPending, ReadOld, NotifyAdapter,
    NotifyRefused, DeleteOld, AckOld, CommandFails, historyVars
<1>4. ASSUME NEW t \in Threads, ThreadStep(t)
      PROVE  /\ notified \subseteq notified' /\ refused \subseteq refused'
             /\ unreported \subseteq unreported' /\ alive' = alive
  BY <1>4 DEF ThreadStep, Fetch, Claim, WorkSucceeds, WorkFails, AckAndPublish,
    ReplyLost, ScriptUnreached, AckFindsNothing, PublishRefused, ScanPending,
    ReadOld, NotifyAdapter, NotifyRefused, DeleteOld, AckOld, CommandFails, historyVars
<1>5. CASE \/ \E m \in Messages : Accept(m)
           \/ Tick \/ UNCHANGED vars
           \/ \E c \in Chats : EndSession(c)
           \/ \E p \in Pods : Crash(p) \/ Restart(p)
  BY <1>5 DEF Accept, Tick, EndSession, Crash, Restart, vars, historyVars
<1>6. QED
  BY <1>2, <1>3, <1>4, <1>5 DEF Next

-----------------------------------------------------------------------------
(* The stages carry a message out in their order. *)

\* Every step keeps the next stage behind the service of the one before it.
LEMMA OrderStep == TypeInv /\ OrderInv /\ [Next]_vars => OrderInv'
<1> SUFFICES ASSUME TypeInv, OrderInv, [Next]_vars PROVE OrderInv'
  OBVIOUS
<1>0. /\ done \in [Stages -> SUBSET Messages]
      /\ \A t \in Threads : StageOf[t] \in Stages /\ cur[t] \in Nat
      /\ \A s \in Stages \ {LastStage} : s + 1 \in Stages
  BY PipelineAssumption DEF TypeInv, TypeOK, Stages
<1>1. ASSUME NEW s \in Stages \ {LastStage} PROVE Entered(s + 1)' \subseteq done'[s]
  <2>0. Entered(s + 1) \subseteq done[s] /\ done[s] \subseteq done'[s]
    BY OutcomesStay DEF OrderInv, HandedOverDone
  <2>1. CASE Entered(s + 1)' = Entered(s + 1)
    BY <2>0, <2>1
  <2>2. ASSUME NEW m \in Messages, Accept(m) PROVE Entered(s + 1)' = Entered(s + 1)
    <3>1. 0 \in Stages /\ log' = [log EXCEPT ![0] = Append(@, m)]
      BY <2>2, PipelineAssumption DEF Accept, Stages
    <3>2. s + 1 \in Stages \ {0}
      BY <1>0 DEF Stages
    <3>3. QED
      BY <3>1, <3>2, AppendedLog
  <2>3. ASSUME NEW t \in Threads, AtAck(t), StageOf[t] # LastStage,
               HandOver(StageOf[t], cur[t])
        PROVE  Entered(s + 1)' \subseteq done'[s]
    <3> DEFINE r == StageOf[t]
               m == log[r][cur[t]]
    <3>1. /\ r + 1 \in Stages /\ m \in Messages
          /\ log' = [log EXCEPT ![r + 1] = Append(@, m)]
      BY <1>0, <2>3, HandOverFacts
    <3>2. m \in done[r]
      BY <2>3 DEF OrderInv, HandedOverDone, MessageOf
    <3> HIDE DEF m
    <3>3. CASE s + 1 = r + 1
      <4>1. s = r
        BY <1>0, <3>3 DEF Stages
      <4>2. Entered(s + 1)' = Entered(s + 1) \cup {m}
        BY <3>1, <3>3, AppendedLog
      <4>3. QED
        BY <2>0, <3>2, <4>1, <4>2
    <3>4. CASE s + 1 # r + 1
      <4>1. Entered(s + 1)' = Entered(s + 1)
        BY <1>0, <3>1, <3>4, AppendedLog
      <4>2. QED
        BY <2>1, <4>1
    <3>5. QED
      BY <3>3, <3>4
  <2>4. CASE UNCHANGED log
    BY <2>1, <2>4 DEF Entered
  <2>5. ASSUME NEW t \in Threads, ThreadStep(t),
               ~(AtAck(t) /\ StageOf[t] # LastStage /\ HandOver(StageOf[t], cur[t]))
        PROVE  UNCHANGED log
    BY <2>5 DEF ThreadStep, Fetch, Claim, WorkSucceeds, WorkFails, AckAndPublish,
      ReplyLost, ScriptUnreached, AckFindsNothing, PublishRefused, ScanPending,
      ReadOld, NotifyAdapter, NotifyRefused, DeleteOld, AckOld, CommandFails,
      HandOver, streamVars
  <2>6. CASE \/ Tick \/ UNCHANGED vars
             \/ \E c \in Chats : EndSession(c)
             \/ \E p \in Pods : Crash(p) \/ Restart(p)
    BY <2>4, <2>6 DEF Tick, EndSession, Crash, Restart, vars, streamVars
  <2>7. QED
    BY <2>1, <2>2, <2>3, <2>4, <2>5, <2>6 DEF Next
<1>2. ASSUME NEW t \in Threads, AtAck(t)' PROVE MessageOf(t)' \in done'[StageOf[t]]
  <2>1. CASE WorkSucceeds(t)
    <3>1. pc[t] \in Holding /\ cur'[t] = cur[t]
      BY <2>1 DEF WorkSucceeds, AtWork, Holding
    <3>2. MessageOf(t)' = MessageOf(t)
      BY <3>1, MessageStays
    <3>3. done' = [done EXCEPT ![StageOf[t]] = @ \cup {MessageOf(t)}]
      BY <2>1 DEF WorkSucceeds, CarryOut
    <3>4. QED
      BY <1>0, <3>2, <3>3
  <2>2. CASE ~WorkSucceeds(t)
    <3>1. ~ThreadStep(t)
      BY <1>2, <2>2, OwnMoves
    <3>2. AtAck(t) /\ cur'[t] = cur[t]
      BY <1>2, <3>1, OthersMoves DEF AtAck
    <3>3. MessageOf(t)' = MessageOf(t)
      BY <3>2, MessageStays DEF AtAck, Holding
    <3>4. MessageOf(t) \in done[StageOf[t]]
      BY <3>2 DEF OrderInv, HandedOverDone
    <3>5. QED
      BY <1>0, <3>3, <3>4, OutcomesStay
  <2>3. QED
    BY <2>1, <2>2
<1>3. StagesInOrder'
  <2> SUFFICES ASSUME NEW s \in Stages \ {LastStage}, NEW m \in Messages,
                      m \in done'[s + 1]
               PROVE  m \in done'[s]
    BY DEF StagesInOrder
  <2>1. CASE m \in done[s + 1]
    BY <2>1, OutcomesStay DEF OrderInv, StagesInOrder
  <2>2. CASE m \notin done[s + 1]
    <3>1. PICK t \in Threads : WorkSucceeds(t) \/ WorkFails(t)
      <4>1. done' # done
        BY <2>2
      <4>2. QED
        BY <4>1 DEF Next, Accept, Tick, EndSession, Crash, Restart, ThreadStep, Fetch,
          Claim, AckAndPublish, ReplyLost, ScriptUnreached, AckFindsNothing,
          PublishRefused, ScanPending, ReadOld, NotifyAdapter, NotifyRefused,
          DeleteOld, AckOld, CommandFails, historyVars, vars
    <3>2. AtWork(t)
      BY <3>1 DEF WorkSucceeds, WorkFails
    <3>3. done' = done \/ done' = [done EXCEPT ![StageOf[t]] = @ \cup {MessageOf(t)}]
      BY <3>1 DEF WorkSucceeds, WorkFails, CarryOut
    <3>4. StageOf[t] = s + 1 /\ m = MessageOf(t)
      BY <1>0, <2>2, <3>3
    <3>5. cur[t] \in 1 .. Len(log[StageOf[t]])
      BY <3>2, HeldMessage DEF AtWork, Holding
    <3>6. m \in Entered(s + 1)
      BY <3>4, <3>5 DEF MessageOf, Entered
    <3>7. QED
      BY <3>6, OutcomesStay DEF OrderInv, HandedOverDone
  <2>3. QED
    BY <2>1, <2>2
<1>4. QED
  BY <1>1, <1>2, <1>3 DEF OrderInv, HandedOverDone

-----------------------------------------------------------------------------
(* No message is forgotten without an outcome. *)

\* What is settled stays settled: no step takes an outcome back.
LEMMA SettledStays ==
  ASSUME TypeInv, [Next]_vars, NEW s \in Stages, NEW m \in Messages, Settled(s, m)
  PROVE  Settled(s, m)'
<1>1. s # LastStage => s + 1 \in Stages
  BY PipelineAssumption DEF Stages
<1>2. s # LastStage /\ m \in Entered(s + 1) => m \in Entered(s + 1)'
  BY <1>1, LogsGrow
<1>3. QED
  BY <1>2, OutcomesStay DEF Settled, Outcome, ChatAlive

\* Entry i of stage s is let go by the step: deleted, or no longer in hand.
Drops(s, i) ==
  \/ i \in live[s] /\ i \notin live'[s]
  \/ i \in InHand(s) /\ i \notin InHand(s)'

\* Whatever a step lets go is settled once the step is done.
DropsSettled ==
  \A s \in Stages, m \in Messages : \A i \in 1 .. Len(log[s]) :
    Drops(s, i) /\ m = log[s][i] => Settled(s, m)'

\* An entry stays in hand unless the step takes it off the pending list.
LEMMA StaysInHand ==
  ASSUME TypeInv, [Next]_vars, UNCHANGED delivered, NEW s \in Stages,
         NEW i \in InHand(s), i \in pel[s] => i \in pel'[s]
  PROVE  i \in InHand(s)'
<1>1. log[s] \in Seq(Messages) /\ log'[s] \in Seq(Messages)
  BY TypeStep DEF TypeInv, TypeOK
<1>2. Len(log[s]) \in Nat /\ Len(log'[s]) \in Nat /\ Len(log[s]) <= Len(log'[s])
  BY <1>1, LogsGrow, LenProperties
<1>3. QED
  BY <1>2 DEF InHand

\* A step that lets go one entry at most, and a settled one.
LEMMA OneDropped ==
  ASSUME TypeInv, [Next]_vars, UNCHANGED delivered,
         NEW r \in Stages, NEW k \in Nat,
         \A s \in Stages : \A i \in live[s] : i \in live'[s] \/ (s = r /\ i = k),
         \A s \in Stages : \A i \in pel[s] : i \in pel'[s] \/ (s = r /\ i = k),
         \A m \in Messages : k \in 1 .. Len(log[r]) /\ m = log[r][k] => Settled(r, m)'
  PROVE  DropsSettled
<1> SUFFICES ASSUME NEW s \in Stages, NEW m \in Messages, NEW i \in 1 .. Len(log[s]),
                    Drops(s, i), m = log[s][i]
             PROVE  Settled(s, m)'
  BY DEF DropsSettled
<1>1. s = r /\ i = k
  BY StaysInHand DEF Drops
<1>2. QED
  BY <1>1

\* A step that lets nothing go.
LEMMA NothingDropped ==
  ASSUME TypeInv, [Next]_vars, UNCHANGED delivered,
         \A s \in Stages : live[s] \subseteq live'[s] /\ pel[s] \subseteq pel'[s]
  PROVE  DropsSettled
BY StaysInHand DEF DropsSettled, Drops

\* Whatever a step removes from a stream or its pending list, or has a thread mark
\* for removal, is settled when the step is over.
LEMMA DropsAreSettled ==
  ASSUME TypeInv, OrderInv, LossInv, [Next]_vars
  PROVE  DropsSettled
<1>0. /\ live \in [Stages -> SUBSET Nat] /\ pel \in [Stages -> SUBSET Nat]
      /\ \A t \in Threads : StageOf[t] \in Stages /\ cur[t] \in Nat
  BY PipelineAssumption DEF TypeInv, TypeOK
<1>1. ASSUME NEW t \in Threads, HandOver(StageOf[t], cur[t]), AtAck(t), UNCHANGED delivered
      PROVE  DropsSettled
  <2> DEFINE s == StageOf[t]
  <2>1. PICK i \in Nat : i = cur[t]
    BY <1>0
  <2>2. /\ s \in Stages /\ i \in 1 .. Len(log[s])
        /\ log[s][i] \in Messages /\ log[s][i] \in done[s]
    BY <1>1, <2>1, HeldMessage
    DEF AtAck, Holding, MessageOf, OrderInv, HandedOverDone
  <2>3. ASSUME NEW m \in Messages, m = log[s][i] PROVE Settled(s, m)'
    <3>1. CASE s = LastStage
      BY <2>2, <2>3, <3>1, OutcomesStay DEF Settled, Outcome
    <3>2. CASE s # LastStage
      <4>1. s + 1 \in Stages /\ log' = [log EXCEPT ![s + 1] = Append(@, m)]
        <5>1. HandOver(s, i)
          BY <1>1, <2>1
        <5>2. s + 1 \in Stages /\ log' = [log EXCEPT ![s + 1] = Append(@, log[s][i])]
          BY <2>2, <3>2, <5>1, HandOverFacts
        <5>3. QED
          BY <2>3, <5>2
      <4>2. m \in Entered(s + 1)'
        <5>1. PICK r \in Stages : r = s + 1
          BY <4>1
        <5>2. Entered(r)' = Entered(r) \cup {m}
          BY <4>1, <5>1, AppendedLog
        <5>3. QED
          BY <5>1, <5>2
      <4>3. QED
        BY <3>2, <4>2 DEF Settled, Outcome
    <3>3. QED
      BY <3>1, <3>2
  <2>4. \A r \in Stages : \A j \in pel[r] : j \in pel'[r] \/ (r = s /\ j = i)
    BY <1>0, <1>1, <2>1 DEF HandOver, Acknowledge
  <2>5. \A r \in Stages : \A j \in live[r] : j \in live'[r] \/ (r = s /\ j = i)
    <3>1. CASE s = LastStage
      BY <1>0, <1>1, <2>1, <3>1 DEF HandOver
    <3>2. CASE s # LastStage
      <4>1. s + 1 \in Stages /\ s + 1 # s
        BY <1>0, <3>2, PipelineAssumption DEF Stages
      <4>2. live' = [live EXCEPT ![s] = @ \ {i},
                                 ![s + 1] = @ \cup {Len(log[s + 1]) + 1}]
        BY <1>1, <2>1, <3>2 DEF HandOver
      <4>3. QED
        BY <1>0, <2>2, <4>1, <4>2
    <3>3. QED
      BY <3>1, <3>2
  <2>6. QED
    BY <1>1, <2>2, <2>3, <2>4, <2>5, OneDropped
<1>2. ASSUME NEW t \in Threads, PublishRefused(t) PROVE DropsSettled
  <2>1. \A m \in Messages : m = log[StageOf[t]][cur[t]] => Settled(StageOf[t], m)'
    BY <1>2 DEF PublishRefused, MessageOf, Settled
  <2>2. /\ \A r \in Stages : \A j \in pel[r] : j \in pel'[r] \/ (r = StageOf[t] /\ j = cur[t])
        /\ \A r \in Stages : \A j \in live[r] : j \in live'[r] \/ (r = StageOf[t] /\ j = cur[t])
        /\ UNCHANGED delivered
    BY <1>0, <1>2 DEF PublishRefused, Acknowledge
  <2>3. PICK i \in Nat : i = cur[t]
    BY <1>0
  <2>4. QED
    BY <1>0, <2>1, <2>2, <2>3, OneDropped
<1>3. ASSUME NEW t \in Threads, DeleteOld(t) \/ AckOld(t) PROVE DropsSettled
  <2>1. Settled(StageOf[t], MessageOf(t))
    BY <1>3 DEF DeleteOld, AckOld, LossInv, DeletedSettled
  <2>2. \A m \in Messages : m = log[StageOf[t]][cur[t]] => Settled(StageOf[t], m)'
    BY <1>0, <2>1, SettledStays DEF MessageOf
  <2>3. /\ \A r \in Stages : \A j \in pel[r] : j \in pel'[r] \/ (r = StageOf[t] /\ j = cur[t])
        /\ \A r \in Stages : \A j \in live[r] : j \in live'[r] \/ (r = StageOf[t] /\ j = cur[t])
        /\ UNCHANGED delivered
    BY <1>0, <1>3 DEF DeleteOld, AckOld
  <2>4. PICK i \in Nat : i = cur[t]
    BY <1>0
  <2>5. QED
    BY <1>0, <2>2, <2>3, <2>4, OneDropped
<1>4. ASSUME NEW t \in Threads, Claim(t) PROVE DropsSettled
  <2>1. CASE UNCHANGED pel
    BY <1>4, <2>1, NothingDropped DEF Claim
  <2>2. ASSUME NEW i \in Claimable(StageOf[t]), i \notin live[StageOf[t]],
               pel' = [pel EXCEPT ![StageOf[t]] = @ \ {i}]
        PROVE  DropsSettled
    <3>1. i \in Nat
      BY <1>0 DEF Claimable
    <3>2. \A m \in Messages :
            i \in 1 .. Len(log[StageOf[t]]) /\ m = log[StageOf[t]][i]
            => Settled(StageOf[t], m)'
      BY <1>0, <2>2, SettledStays DEF LossInv, DeletedSettled
    <3>3. /\ \A r \in Stages : \A j \in pel[r] : j \in pel'[r] \/ (r = StageOf[t] /\ j = i)
          /\ UNCHANGED <<delivered, live>>
      BY <1>0, <1>4, <2>2 DEF Claim
    <3>4. QED
      BY <1>0, <3>1, <3>2, <3>3, OneDropped
  <2>3. QED
    BY <1>4, <2>1, <2>2 DEF Claim
<1>5. ASSUME NEW t \in Threads, Fetch(t) PROVE DropsSettled
  <2>1. UNCHANGED <<log, live>>
    BY <1>5 DEF Fetch
  <2>2. ASSUME NEW s \in Stages, NEW i \in InHand(s) PROVE i \in InHand(s)'
    <3>1. delivered \in [Stages -> Nat]
      BY DEF TypeInv, TypeOK
    <3>2. i \in 1 .. Len(log[s]) /\ (i > delivered[s] \/ i \in pel[s])
      BY <2>2 DEF InHand
    <3>3. Len(log[s]) \in Nat
      BY LogEntries DEF TypeInv
    <3>4. \/ delivered'[s] = delivered[s] /\ pel'[s] = pel[s]
          \/ delivered'[s] = delivered[s] + 1 /\ pel'[s] = pel[s] \cup {delivered[s] + 1}
      BY <1>0, <1>5, <3>1 DEF Fetch
    <3>5. i > delivered'[s] \/ i \in pel'[s]
      BY <3>1, <3>2, <3>3, <3>4
    <3>6. QED
      BY <2>1, <3>2, <3>5 DEF InHand
  <2>3. QED
    BY <2>1, <2>2 DEF DropsSettled, Drops
<1>6. ASSUME NEW t \in Threads,
             \/ WorkSucceeds(t) \/ WorkFails(t) \/ AckFindsNothing(t)
             \/ ScanPending(t) \/ ReadOld(t) \/ NotifyAdapter(t)
             \/ ScriptUnreached(t) \/ NotifyRefused(t) \/ CommandFails(t)
      PROVE  DropsSettled
  BY <1>6, NothingDropped DEF WorkSucceeds, WorkFails, AckFindsNothing, ScanPending,
    ReadOld, NotifyAdapter, ScriptUnreached, NotifyRefused, CommandFails, streamVars
<1>7. ASSUME NEW m \in Messages, Accept(m) PROVE DropsSettled
  BY <1>0, <1>7, NothingDropped DEF Accept
<1>8. CASE \/ Tick \/ UNCHANGED vars
           \/ \E c \in Chats : EndSession(c)
           \/ \E p \in Pods : Crash(p) \/ Restart(p)
  BY <1>8, NothingDropped DEF Tick, EndSession, Crash, Restart, vars, streamVars
<1>9. ASSUME NEW t \in Threads, AckAndPublish(t) \/ ReplyLost(t) PROVE DropsSettled
  BY <1>1, <1>9 DEF AckAndPublish, ReplyLost
<1>10. QED
  BY <1>2, <1>3, <1>4, <1>5, <1>6, <1>7, <1>8, <1>9 DEF Next, ThreadStep

\* An entry that appears in a log is there, and waits to be delivered.
LEMMA NewEntriesWait ==
  ASSUME TypeInv, [Next]_vars, NEW s \in Stages, NEW i \in 1 .. Len(log'[s]),
         i \notin 1 .. Len(log[s])
  PROVE  i \in live'[s] /\ i \in InHand(s)'
<1>0. /\ live \in [Stages -> SUBSET Nat]
      /\ \A r \in Stages : /\ Len(log[r]) \in Nat /\ delivered[r] \in Nat
                           /\ delivered[r] <= Len(log[r])
  BY LogEntries DEF TypeInv, TypeOK, StreamsOK
<1>1. ASSUME NEW r \in Stages, NEW m \in Messages, UNCHANGED delivered,
             log' = [log EXCEPT ![r] = Append(@, m)],
             Len(log[r]) + 1 \in live'[r]
      PROVE  i \in live'[s] /\ i \in InHand(s)'
  <2>1. s = r
    BY <1>1, AppendedLog
  <2>2. Len(log'[r]) = Len(log[r]) + 1
    BY <1>1, AppendedLog
  <2>3. i = Len(log[r]) + 1
    BY <1>0, <2>1, <2>2
  <2>4. i > delivered'[s]
    BY <1>0, <1>1, <2>1, <2>3
  <2>5. QED
    BY <1>1, <2>1, <2>3, <2>4 DEF InHand
<1>2. ASSUME NEW m \in Messages, Accept(m) PROVE i \in live'[s] /\ i \in InHand(s)'
  <2>1. /\ 0 \in Stages /\ UNCHANGED delivered
        /\ log' = [log EXCEPT ![0] = Append(@, m)]
        /\ Len(log[0]) + 1 \in live'[0]
    BY <1>0, <1>2, PipelineAssumption DEF Accept, Stages
  <2>2. QED
    BY <1>1, <2>1
<1>3. ASSUME NEW t \in Threads, HandOver(StageOf[t], cur[t]), UNCHANGED delivered
      PROVE  i \in live'[s] /\ i \in InHand(s)'
  <2> DEFINE r == StageOf[t]
  <2>1. r \in Stages /\ cur[t] \in Nat
    BY PipelineAssumption DEF TypeInv, TypeOK
  <2>2. CASE r = LastStage
    BY <1>3, <2>2 DEF HandOver
  <2>3. CASE r # LastStage
    <3>1. PICK m \in Messages : /\ r + 1 \in Stages
                                /\ log' = [log EXCEPT ![r + 1] = Append(@, m)]
      BY <1>3, <2>1, <2>3, HandOverFacts
    <3>2. Len(log[r + 1]) + 1 \in live'[r + 1]
      <4>1. live' = [live EXCEPT ![r] = @ \ {cur[t]},
                                 ![r + 1] = @ \cup {Len(log[r + 1]) + 1}]
        BY <1>3, <2>3 DEF HandOver
      <4>2. r + 1 # r
        BY <2>1 DEF Stages
      <4>3. QED
        BY <1>0, <2>1, <3>1, <4>1, <4>2
    <3>3. QED
      BY <1>1, <1>3, <3>1, <3>2
  <2>4. QED
    BY <2>2, <2>3
<1>4. log' # log
  OBVIOUS
<1>5. QED
  BY <1>2, <1>3, <1>4 DEF Next, Tick, EndSession, Crash, Restart, vars, ThreadStep,
    Fetch, Claim, WorkSucceeds, WorkFails, AckAndPublish, ReplyLost, ScriptUnreached,
    AckFindsNothing, PublishRefused, ScanPending, ReadOld, NotifyAdapter,
    NotifyRefused, DeleteOld, AckOld, CommandFails, streamVars

\* Every step keeps each entry that is gone, or is about to go, settled.
LEMMA LossStep == TypeInv /\ OrderInv /\ LossInv /\ [Next]_vars => LossInv'
<1> SUFFICES ASSUME TypeInv, OrderInv, LossInv, [Next]_vars PROVE LossInv'
  OBVIOUS
<1>1. ASSUME NEW s \in Stages, NEW i \in 1 .. Len(log'[s]),
             i \notin live'[s] \/ i \notin InHand(s)'
      PROVE  \E m \in Messages : m = log'[s][i] /\ Settled(s, m)'
  <2>1. i \in 1 .. Len(log[s])
    BY <1>1, NewEntriesWait
  <2>2. log'[s][i] = log[s][i]
    BY <2>1, LogsGrow
  <2>3. PICK m \in Messages : m = log[s][i]
    BY <2>1, LogEntries DEF TypeInv
  <2>4. CASE i \in live[s] /\ i \in InHand(s)
    BY <1>1, <2>1, <2>2, <2>3, <2>4, DropsAreSettled DEF DropsSettled, Drops
  <2>5. CASE i \notin live[s] \/ i \notin InHand(s)
    <3>1. Settled(s, m)
      BY <2>1, <2>3, <2>5 DEF LossInv, DeletedSettled, NoSilentLoss
    <3>2. QED
      BY <2>2, <2>3, <3>1, SettledStays
  <2>6. QED
    BY <2>4, <2>5
<1>2. ASSUME NEW t \in Threads, pc'[t] \in {"xdel", "xack"}
      PROVE  Settled(StageOf[t], MessageOf(t))'
  <2>0. StageOf[t] \in Stages
    BY PipelineAssumption
  <2>1. CASE \/ NotifyAdapter(t) \/ NotifyRefused(t) \/ ReadOld(t) \/ DeleteOld(t)
             \/ pc[t] = "xdel" /\ cur' = cur
    <3>1. pc[t] \in Holding /\ cur'[t] = cur[t]
      BY <2>1 DEF NotifyAdapter, NotifyRefused, ReadOld, DeleteOld, Holding
    <3>2. MessageOf(t)' = MessageOf(t) /\ cur[t] \in 1 .. Len(log[StageOf[t]])
      BY <3>1, MessageStays, HeldMessage
    <3>3. PICK m \in Messages : m = MessageOf(t)
      BY <3>1, HeldMessage
    <3>4. CASE NotifyAdapter(t)
      BY <3>2, <3>3, <3>4 DEF NotifyAdapter, Settled, Outcome, ChatAlive
    <3>8. CASE NotifyRefused(t)
      BY <3>2, <3>3, <3>8 DEF NotifyRefused, Settled
    <3>5. CASE ReadOld(t)
      <4>1. pc \in [Threads -> PcValues]
        BY DEF TypeInv, TypeOK
      <4>2. cur[t] \notin live[StageOf[t]]
        BY <1>2, <3>5, <4>1 DEF ReadOld
      <4>3. Settled(StageOf[t], m)
        BY <2>0, <3>2, <3>3, <4>2 DEF LossInv, DeletedSettled, MessageOf
      <4>4. QED
        BY <2>0, <3>2, <3>3, <4>3, SettledStays
    <3>6. CASE DeleteOld(t) \/ (pc[t] = "xdel" /\ cur' = cur)
      <4>1. Settled(StageOf[t], m)
        BY <3>3, <3>6 DEF DeleteOld, LossInv, DeletedSettled
      <4>2. QED
        BY <2>0, <3>2, <3>3, <4>1, SettledStays
    <3>7. QED
      BY <2>1, <3>4, <3>5, <3>6, <3>8
  <2>2. CASE ~(\/ NotifyAdapter(t) \/ NotifyRefused(t) \/ ReadOld(t) \/ DeleteOld(t)
               \/ pc[t] = "xdel" /\ cur' = cur)
    <3>1. ~ThreadStep(t)
      BY <1>2, <2>2, OwnMoves
    <3>2. pc[t] \in {"xdel", "xack"} /\ cur'[t] = cur[t]
      BY <1>2, <3>1, OthersMoves
    <3>3. MessageOf(t)' = MessageOf(t)
      BY <3>2, MessageStays DEF Holding
    <3>4. PICK m \in Messages : m = MessageOf(t)
      BY <3>2, HeldMessage DEF Holding
    <3>5. Settled(StageOf[t], m)
      BY <3>2, <3>4 DEF LossInv, DeletedSettled
    <3>6. QED
      BY <2>0, <3>3, <3>4, <3>5, SettledStays
  <2>3. QED
    BY <2>1, <2>2
<1>3. QED
  BY <1>1, <1>2 DEF LossInv, DeletedSettled, NoSilentLoss

-----------------------------------------------------------------------------
(* The theorems. *)

\* The inductive invariant holds in every state: it holds at the start and every step keeps it.
LEMMA SafetyInvariance == Spec => []SafetyInv
<1>1. Init => SafetyInv
  <2> SUFFICES ASSUME Init PROVE SafetyInv
    OBVIOUS
  <2>1. TypeInv
    BY PipelineAssumption, EmptySeq DEF Init, TypeInv, TypeOK, StreamsOK, ThreadsOK,
      PcValues, Holding
  <2>2. \A s \in Stages : Len(log[s]) = 0 /\ Entered(s) = {}
    BY EmptySeq DEF Init, Entered
  <2>3. \A s \in Stages \ {LastStage} : s + 1 \in Stages
    BY PipelineAssumption DEF Stages
  <2>4. HandInv
    BY <2>2 DEF HandInv, HandedOverOnce, Prefixes, LetGo
  <2>5. OrderInv
    BY <2>2, <2>3 DEF Init, OrderInv, HandedOverDone, StagesInOrder, AtAck
  <2>6. LossInv
    BY <2>2 DEF Init, LossInv, DeletedSettled, NoSilentLoss
  <2>7. QED
    BY <2>1, <2>4, <2>5, <2>6 DEF SafetyInv
<1>2. SafetyInv /\ [Next]_vars => SafetyInv'
  BY TypeStep, HandStep, OrderStep, LossStep DEF SafetyInv
<1>3. QED
  BY <1>1, <1>2, PTL DEF Spec

(* AckAndPublishToNextStreamAtomic hands a message over to each stage at most *)
(* once, however many threads of however many pods work on it.                *)
THEOREM HandOverCorrect == Spec => []HandedOverOnce
  BY SafetyInvariance, PTL DEF SafetyInv, HandInv

(* A message is never waiting or pending in the streams of two stages.        *)
THEOREM StageCorrect == Spec => []OneStageAtATime
<1>1. SafetyInv => OneStageAtATime
  <2> SUFFICES ASSUME SafetyInv, NEW s1 \in Stages, NEW s2 \in Stages, s1 < s2
               PROVE  MessagesInHand(s1) \cap MessagesInHand(s2) = {}
    <3>1. \A s1, s2 \in Stages : s1 # s2 => s1 < s2 \/ s2 < s1
      BY DEF Stages
    <3>2. QED
      BY <3>1 DEF OneStageAtATime
  <2>1. /\ s1 \in Stages \ {LastStage}
        /\ s1 + 1 \in Stages
        /\ s2 = s1 + 1 \/ s1 + 1 < s2
    BY PipelineAssumption DEF Stages
  <2>2. SUFFICES ASSUME NEW i \in InHand(s1), NEW j \in InHand(s2), log[s1][i] = log[s2][j]
                 PROVE  FALSE
    BY DEF MessagesInHand
  <2>3. log[s2][j] \in Entered(s2)
    BY DEF InHand, Entered
  <2>4. Entered(s2) \subseteq Entered(s1 + 1)
    BY <2>1 DEF SafetyInv, HandInv, Prefixes
  <2>5. QED
    BY <2>1, <2>2, <2>3, <2>4 DEF SafetyInv, HandInv, LetGo, InHand
<1>2. QED
  BY <1>1, SafetyInvariance, PTL

(* No stage's service sees a message before the one before it is through.     *)
THEOREM OrderCorrect == Spec => []StagesInOrder
  BY SafetyInvariance, PTL DEF SafetyInv, OrderInv

(* An entry leaves a stage only with its message handed over, answered or     *)
(* reported, unless its chat was cleaned up or Redis itself refused the       *)
(* hand-off or the report.                                                    *)
THEOREM NoLossCorrect == Spec => []NoSilentLoss
  BY SafetyInvariance, PTL DEF SafetyInv, LossInv

=============================================================================
