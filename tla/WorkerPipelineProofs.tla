------------------------ MODULE WorkerPipelineProofs ------------------------
(* Theorems about WorkerPipeline, for every number of messages, stages,      *)
(* threads and pods, every assignment of threads to stages and pods, and     *)
(* every value of the thresholds.                                            *)
EXTENDS WorkerPipeline, SequenceTheorems, TLAPS

(* What Append does to a stream's log. *)
LEMMA Appending ==
  ASSUME NEW S, NEW q \in Seq(S), NEW x \in S
  PROVE  /\ Append(q, x) \in Seq(S)
         /\ Len(q) \in Nat
         /\ Len(Append(q, x)) = Len(q) + 1
         /\ \A i \in 1 .. Len(q) : Append(q, x)[i] = q[i]
         /\ Append(q, x)[Len(q) + 1] = x
  BY AppendProperties

(* The entries of a log are messages. *)
LEMMA LogEntries ==
  ASSUME TypeOK, NEW s \in Stages
  PROVE  /\ Len(log[s]) \in Nat
         /\ \A i \in 1 .. Len(log[s]) : log[s][i] \in Messages
         /\ Entered(s) \subseteq Messages
<1>1. log[s] \in Seq(Messages)
  BY DEF TypeOK
<1>2. Len(log[s]) \in Nat /\ \A i \in 1 .. Len(log[s]) : log[s][i] \in Messages
  BY <1>1, LenProperties, ElementOfSeq
<1>3. QED
  BY <1>2 DEF Entered

(* A clock stays within its range. *)
LEMMA OlderInRange ==
  ASSUME NEW limit \in Nat, NEW n \in 0 .. limit
  PROVE  Older(n, limit) \in 0 .. limit
  BY DEF Older

-----------------------------------------------------------------------------
(* Type correctness.  TypeOK alone is not inductive: that a thread reports or *)
(* hands over a message needs that the id it holds is one of its stream.      *)

\* The points of the loop at which a thread holds an entry.
Holding == {"workFetched", "ackFetched", "workClaimed", "ackClaimed",
            "range", "notify", "xdel", "xack"}

StreamsOK ==
  \A s \in Stages : /\ delivered[s] <= Len(log[s])
                    /\ pel[s] \subseteq 1 .. delivered[s]

ThreadsOK ==
  /\ pc \in [Threads -> PcValues]
  /\ cur \in [Threads -> Nat]
  /\ todo \in [Threads -> SUBSET Nat]
  /\ restarts \in [Threads -> 0 .. MaxRestarts - 1]
  /\ \A t \in Threads :
       /\ pc[t] \in Holding => cur[t] \in 1 .. delivered[StageOf[t]]
       /\ todo[t] \subseteq 1 .. delivered[StageOf[t]]

TypeInv == TypeOK /\ StreamsOK /\ ThreadsOK

(* A thread that holds an entry holds a message. *)
LEMMA HeldMessage ==
  ASSUME TypeInv, NEW t \in Threads, pc[t] \in Holding
  PROVE  /\ StageOf[t] \in Stages
         /\ cur[t] \in 1 .. Len(log[StageOf[t]])
         /\ MessageOf(t) \in Messages
<1>1. StageOf[t] \in Stages
  BY PipelineAssumption
<1>2. delivered[StageOf[t]] \in Nat /\ cur[t] \in 1 .. delivered[StageOf[t]]
  BY <1>1 DEF TypeInv, ThreadsOK, TypeOK
<1>3. cur[t] \in 1 .. Len(log[StageOf[t]])
  BY <1>1, <1>2, LogEntries DEF TypeInv, StreamsOK
<1>4. QED
  BY <1>1, <1>3, LogEntries DEF TypeInv, MessageOf

(* The helpers that move a thread keep the thread variables well typed. *)
LEMMA VisitTyped ==
  ASSUME ThreadsOK, UNCHANGED delivered, NEW t \in Threads,
         NEW rest \in SUBSET Nat, rest \subseteq 1 .. delivered[StageOf[t]],
         Visit(t, rest)
  PROVE  ThreadsOK'
<1> USE PipelineAssumption DEF ThreadsOK, Visit, GoTo, PcValues, IsLeast, Holding
<1>1. CASE rest = {}
  BY <1>1
<1>2. CASE rest # {}
  <2>1. PICK i \in rest : /\ pc' = [pc EXCEPT ![t] = "range"]
                          /\ cur' = [cur EXCEPT ![t] = i]
                          /\ todo' = [todo EXCEPT ![t] = rest \ {i}]
                          /\ UNCHANGED restarts
    BY <1>2
  <2>2. i \in Nat /\ i \in 1 .. delivered[StageOf[t]]
    OBVIOUS
  <2>3. rest \ {i} \in SUBSET Nat /\ rest \ {i} \subseteq 1 .. delivered[StageOf[t]]
    OBVIOUS
  <2>4. cur' \in [Threads -> Nat] /\ todo' \in [Threads -> SUBSET Nat]
    BY <2>1, <2>2, <2>3
  <2>5. \A u \in Threads :
          /\ pc'[u] \in Holding => cur'[u] \in 1 .. delivered[StageOf[u]]
          /\ todo'[u] \subseteq 1 .. delivered[StageOf[u]]
    BY <2>1, <2>2, <2>3
  <2>6. QED
    BY <2>1, <2>4, <2>5
<1>3. QED
  BY <1>1, <1>2

\* A pod that goes down leaves its threads with well-formed local state.
LEMMA PodDownTyped ==
  ASSUME ThreadsOK, UNCHANGED delivered, NEW p \in Pods, PodDown(p)
  PROVE  ThreadsOK'
  BY PipelineAssumption DEF ThreadsOK, PodDown, PcValues, Holding

\* So does a panic, whether the thread starts over or takes its pod along.
LEMMA PanicTyped ==
  ASSUME ThreadsOK, UNCHANGED delivered, NEW t \in Threads, Panic(t)
  PROVE  ThreadsOK'
<1>1. CASE restarts[t] + 1 >= MaxRestarts
  BY <1>1, PodDownTyped, PipelineAssumption DEF Panic
<1>2. CASE ~(restarts[t] + 1 >= MaxRestarts)
  BY <1>2, PipelineAssumption DEF Panic, GoTo, ThreadsOK, PcValues, Holding
<1>3. QED
  BY <1>1, <1>2

(* Moving on, or to another step that holds the same entry, does too. *)
LEMMA StepTyped ==
  ASSUME ThreadsOK, UNCHANGED <<delivered, todo, restarts>>, NEW t \in Threads,
         NEW p \in PcValues,
         \/ p \notin Holding /\ GoTo(t, p)
         \/ /\ pc[t] \in Holding
            /\ pc' = [pc EXCEPT ![t] = p]
            /\ UNCHANGED cur
  PROVE  ThreadsOK'
  BY DEF ThreadsOK, GoTo

(* So does the script of the hand-off, for the streams. *)
LEMMA HandOverTyped ==
  ASSUME TypeOK, StreamsOK, UNCHANGED delivered, NEW s \in Stages, NEW i \in Nat,
         HandOver(s, i)
  PROVE  /\ log' \in [Stages -> Seq(Messages)]
         /\ live' \in [Stages -> SUBSET Nat]
         /\ pel' \in [Stages -> SUBSET Nat]
         /\ age' \in [Messages -> 0 .. UnackAge]
         /\ StreamsOK'
<1> USE PipelineAssumption
<1>1. i \in 1 .. delivered[s] /\ pel' = [pel EXCEPT ![s] = @ \ {i}]
  BY DEF HandOver, Acknowledge, StreamsOK
<1>2. \A r \in Stages : Len(log[r]) \in Nat /\ delivered[r] \in Nat
  BY LogEntries DEF TypeOK
<1>3. pel' \in [Stages -> SUBSET Nat]
  BY <1>1 DEF TypeOK
<1>4. \A r \in Stages : pel'[r] \subseteq 1 .. delivered[r]
  BY <1>1 DEF TypeOK, StreamsOK
<1>5. CASE s = LastStage
  <2>1. live' = [live EXCEPT ![s] = @ \ {i}] /\ UNCHANGED <<log, age>>
    BY <1>5 DEF HandOver
  <2>2. live' \in [Stages -> SUBSET Nat]
    BY <2>1 DEF TypeOK
  <2>3. QED
    BY <1>3, <1>4, <2>1, <2>2 DEF TypeOK, StreamsOK
<1>6. CASE s # LastStage
  <2>1. s + 1 \in Stages /\ s + 1 # s
    BY <1>6 DEF Stages
  <2>2. i \in 1 .. Len(log[s])
    BY <1>1, <1>2 DEF StreamsOK
  <2> DEFINE m == log[s][i]
  <2>3. m \in Messages
    BY <2>2, LogEntries
  <2>4. log' = [log EXCEPT ![s + 1] = Append(@, m)]
    BY <1>6 DEF HandOver
  <2>5. Append(log[s + 1], m) \in Seq(Messages)
        /\ Len(Append(log[s + 1], m)) = Len(log[s + 1]) + 1
    BY <2>1, <2>3, Appending DEF TypeOK
  <2>6. log' \in [Stages -> Seq(Messages)]
    BY <2>1, <2>4, <2>5 DEF TypeOK
  <2>7. live' = [live EXCEPT ![s] = @ \ {i},
                             ![s + 1] = @ \cup {Len(log[s + 1]) + 1}]
    BY <1>6 DEF HandOver
  <2>8. live' \in [Stages -> SUBSET Nat]
    <3>1. live[s] \ {i} \in SUBSET Nat
      BY DEF TypeOK
    <3>2. live[s + 1] \cup {Len(log[s + 1]) + 1} \in SUBSET Nat
      BY <1>2, <2>1 DEF TypeOK
    <3>3. QED
      BY <2>1, <2>7, <3>1, <3>2 DEF TypeOK
  <2>9. age' \in [Messages -> 0 .. UnackAge]
    <3>1. age' = [age EXCEPT ![m] = 0]
      BY <1>6 DEF HandOver
    <3>2. 0 \in 0 .. UnackAge /\ age \in [Messages -> 0 .. UnackAge]
      BY DEF TypeOK
    <3> HIDE DEF m
    <3>3. QED
      BY <2>3, <3>1, <3>2
  <2>10. \A r \in Stages : delivered[r] <= Len(log'[r])
    BY <1>2, <2>1, <2>4, <2>5 DEF TypeOK, StreamsOK
  <2>11. QED
    BY <1>3, <1>4, <2>6, <2>8, <2>9, <2>10 DEF StreamsOK
<1>7. QED
  BY <1>5, <1>6

(* Every step keeps the type invariant. *)
LEMMA TypeStep == TypeInv /\ [Next]_vars => TypeInv'
<1> SUFFICES ASSUME TypeInv, [Next]_vars PROVE TypeInv'
  OBVIOUS
<1> USE PipelineAssumption
<1>0. TypeOK /\ StreamsOK /\ ThreadsOK
  BY DEF TypeInv
<1>a. \A s \in Stages : Len(log[s]) \in Nat /\ delivered[s] \in Nat
  BY <1>0, LogEntries DEF TypeOK
<1>1. ASSUME NEW m \in Messages, Accept(m) PROVE TypeInv'
  <2>a. 0 \in Stages
    BY DEF Stages
  <2>b. /\ Append(log[0], m) \in Seq(Messages)
        /\ Len(Append(log[0], m)) = Len(log[0]) + 1
    BY <1>0, <2>a, Appending DEF TypeOK
  <2>c. log' \in [Stages -> Seq(Messages)]
    BY <1>0, <1>1, <2>a, <2>b DEF Accept, TypeOK
  <2>d. live' \in [Stages -> SUBSET Nat]
    BY <1>0, <1>1, <1>a, <2>a DEF Accept, TypeOK
  <2>e. age' \in [Messages -> 0 .. UnackAge] /\ chatAge' \in [Chats -> 0 .. SessionTTL]
    BY <1>0, <1>1 DEF Accept, TypeOK
  <2>1. TypeOK'
    BY <1>0, <1>1, <2>c, <2>d, <2>e DEF Accept, TypeOK, threadVars, historyVars
  <2>2. StreamsOK'
    BY <1>0, <1>1, <1>a, <2>a, <2>b DEF Accept, StreamsOK, TypeOK
  <2>3. ThreadsOK'
    BY <1>0, <1>1 DEF Accept, ThreadsOK, threadVars
  <2>4. QED
    BY <2>1, <2>2, <2>3 DEF TypeInv
<1>2. CASE Tick
  <2>1. TypeOK'
    BY <1>0, <1>2, OlderInRange DEF Tick, TypeOK, streamVars, threadVars, historyVars
  <2>2. QED
    BY <1>0, <1>2, <2>1 DEF Tick, TypeInv, StreamsOK, ThreadsOK, streamVars, threadVars
<1>3. ASSUME NEW c \in Chats, EndSession(c) PROVE TypeInv'
  BY <1>0, <1>3 DEF EndSession, TypeInv, TypeOK, StreamsOK, ThreadsOK,
    streamVars, clockVars, threadVars, historyVars
<1>4. ASSUME NEW t \in Threads, ThreadStep(t) PROVE TypeInv'
  <2> DEFINE s == StageOf[t]
  <2>0. s \in Stages
    OBVIOUS
  <2>1. CASE Fetch(t)
    <3>1. CASE delivered[s] < Len(log[s])
      <4> DEFINE i == delivered[s] + 1
      <4>a. i \in 1 .. Len(log[s]) /\ i \in Nat /\ i \in 1 .. i
        BY <1>a, <2>0, <3>1
      <4>b. log[s][i] \in Messages
        BY <1>0, <2>0, <4>a, LogEntries
      <4>c. /\ delivered' = [delivered EXCEPT ![s] = i]
            /\ pel' = [pel EXCEPT ![s] = @ \cup {i}]
            /\ idle' = [idle EXCEPT ![log[s][i]] = 0]
            /\ cur' = [cur EXCEPT ![t] = i]
            /\ pc' = [pc EXCEPT ![t] = "workFetched"]
            /\ UNCHANGED <<log, live, age, chatAge, alive, todo, restarts, historyVars>>
        BY <2>1, <3>1 DEF Fetch
      <4>d. idle' \in [Messages -> 0 .. IdleThreshold]
        BY <1>0, <4>b, <4>c DEF TypeOK
      <4>e. delivered' \in [Stages -> Nat] /\ pel' \in [Stages -> SUBSET Nat]
        BY <1>0, <4>a, <4>c DEF TypeOK
      <4>f. cur' \in [Threads -> Nat] /\ pc' \in [Threads -> PcValues]
        BY <1>0, <4>a, <4>c DEF ThreadsOK, PcValues
      <4>1. TypeOK'
        BY <1>0, <4>c, <4>d, <4>e, <4>f DEF TypeOK, historyVars
      <4>2. StreamsOK'
        <5>1. ASSUME NEW r \in Stages
              PROVE  delivered'[r] <= Len(log[r]) /\ pel'[r] \subseteq 1 .. delivered'[r]
          <6>1. CASE r = s
            <7>1. delivered'[r] = i /\ pel'[r] = pel[s] \cup {i}
              BY <1>0, <2>0, <4>c, <6>1 DEF TypeOK
            <7>2. pel[s] \subseteq 1 .. delivered[s] /\ delivered[s] \in Nat
              BY <1>0, <1>a, <2>0 DEF StreamsOK
            <7>3. QED
              BY <4>a, <6>1, <7>1, <7>2
          <6>2. CASE r # s
            BY <1>0, <4>c, <6>2 DEF TypeOK, StreamsOK
          <6>3. QED
            BY <6>1, <6>2
        <5>2. QED
          BY <4>c, <5>1 DEF StreamsOK
      <4>3. ThreadsOK'
        <5>1. \A r \in Stages : /\ delivered[r] \in Nat /\ delivered'[r] \in Nat
                                /\ delivered[r] <= delivered'[r]
          <6>1. \A r \in Stages : delivered'[r] = IF r = s THEN i ELSE delivered[r]
            BY <1>0, <4>c DEF TypeOK
          <6>2. delivered[s] <= i
            BY <1>a, <2>0
          <6>3. QED
            BY <1>a, <4>a, <6>1, <6>2
        <5>2. \A r \in Stages, j \in Nat :
                j \in 1 .. delivered[r] => j \in 1 .. delivered'[r]
          BY <5>1
        <5>3. i \in 1 .. delivered'[s]
          BY <1>0, <2>0, <4>a, <4>c DEF TypeOK
        <5>4. ASSUME NEW u \in Threads
              PROVE  /\ pc'[u] \in Holding => cur'[u] \in 1 .. delivered'[StageOf[u]]
                     /\ todo'[u] \subseteq 1 .. delivered'[StageOf[u]]
          <6>1. StageOf[u] \in Stages
            OBVIOUS
          <6>2. pc[u] \in Holding => cur[u] \in 1 .. delivered[StageOf[u]]
            BY <1>0 DEF ThreadsOK
          <6>3. todo[u] \subseteq 1 .. delivered[StageOf[u]] /\ todo[u] \subseteq Nat
                /\ cur[u] \in Nat
            BY <1>0 DEF ThreadsOK
          <6>4. u # t => pc'[u] = pc[u] /\ cur'[u] = cur[u]
            BY <1>0, <4>c DEF ThreadsOK
          <6>5. u = t => cur'[u] = i
            BY <1>0, <4>c DEF ThreadsOK
          <6>6. todo'[u] = todo[u]
            BY <4>c
          <6>7. QED
            BY <5>2, <5>3, <6>1, <6>2, <6>3, <6>4, <6>5, <6>6
        <5>5. QED
          BY <1>0, <4>c, <4>f, <5>4 DEF ThreadsOK
      <4>4. QED
        BY <4>1, <4>2, <4>3 DEF TypeInv
    <3>2. CASE ~(delivered[s] < Len(log[s]))
      <4>1. ThreadsOK'
        BY <1>0, <2>1, <3>2, StepTyped DEF Fetch, Holding, PcValues
      <4>2. QED
        BY <1>0, <2>1, <3>2, <4>1
        DEF Fetch, TypeInv, TypeOK, StreamsOK, ThreadsOK, historyVars
    <3>3. QED
      BY <3>1, <3>2
  <2>2. CASE Claim(t)
    <3>1. ASSUME Claimable(s) = {}, GoTo(t, "scan"), UNCHANGED <<pel, idle>>
          PROVE  TypeInv'
      <4>1. ThreadsOK'
        BY <1>0, <2>2, <3>1, StepTyped DEF Claim, Holding, PcValues
      <4>2. QED
        BY <1>0, <2>2, <3>1, <4>1
        DEF Claim, TypeInv, TypeOK, StreamsOK, ThreadsOK, historyVars
    <3>2. ASSUME NEW i \in Claimable(s), i \in live[s],
                 idle' = [idle EXCEPT ![log[s][i]] = 0],
                 cur' = [cur EXCEPT ![t] = i],
                 pc' = [pc EXCEPT ![t] = "workClaimed"],
                 UNCHANGED pel
          PROVE  TypeInv'
      <4>1. i \in 1 .. delivered[s] /\ i \in Nat
        BY <1>0, <1>a, <2>0 DEF Claimable, StreamsOK
      <4>2. ThreadsOK'
        BY <1>0, <2>2, <3>2, <4>1 DEF Claim, ThreadsOK, Holding, PcValues
      <4>a. i \in 1 .. Len(log[s])
        BY <1>0, <1>a, <2>0, <4>1 DEF StreamsOK
      <4>b. idle' \in [Messages -> 0 .. IdleThreshold]
        <5>1. log[s][i] \in Messages
          BY <1>0, <2>0, <4>a, LogEntries
        <5>2. 0 \in 0 .. IdleThreshold
          OBVIOUS
        <5>3. QED
          BY <1>0, <3>2, <5>1, <5>2 DEF TypeOK
      <4>3. TypeOK'
        BY <1>0, <2>2, <3>2, <4>2, <4>b DEF Claim, TypeOK, ThreadsOK, historyVars
      <4>4. QED
        BY <1>0, <2>2, <3>2, <4>2, <4>3 DEF Claim, TypeInv, StreamsOK
    <3>3. ASSUME NEW i \in Claimable(s), pel' = [pel EXCEPT ![s] = @ \ {i}],
                 GoTo(t, "scan"), UNCHANGED idle
          PROVE  TypeInv'
      <4>1. ThreadsOK'
        BY <1>0, <2>2, <3>3, StepTyped DEF Claim, Holding, PcValues
      <4>2. QED
        BY <1>0, <2>0, <2>2, <3>3, <4>1
        DEF Claim, TypeInv, TypeOK, StreamsOK, ThreadsOK, historyVars
    <3>4. QED
      BY <2>2, <3>1, <3>2, <3>3 DEF Claim
  <2>3. CASE WorkSucceeds(t)
    <3>1. MessageOf(t) \in Messages
      BY <2>3, HeldMessage DEF WorkSucceeds, AtWork, Holding
    <3>2. ThreadsOK'
      BY <1>0, <2>3, StepTyped
      DEF WorkSucceeds, AtWork, Holding, PcValues, streamVars
    <3>3. QED
      BY <1>0, <2>0, <2>3, <3>1, <3>2
      DEF WorkSucceeds, CarryOut, TypeInv, TypeOK, StreamsOK, ThreadsOK,
          streamVars, clockVars
  <2>4. CASE WorkFails(t)
    <3>1. MessageOf(t) \in Messages
      BY <2>4, HeldMessage DEF WorkFails, AtWork, Holding
    <3>2. ThreadsOK'
      BY <1>0, <2>4, StepTyped
      DEF WorkFails, AfterWork, Holding, PcValues, streamVars
    <3>3. done' \in [Stages -> SUBSET Messages]
      <4>1. \/ done' = [done EXCEPT ![s] = @ \cup {MessageOf(t)}]
            \/ done' = done
        BY <2>4 DEF WorkFails, CarryOut
      <4>2. done[s] \cup {MessageOf(t)} \in SUBSET Messages
        BY <1>0, <2>0, <3>1 DEF TypeOK
      <4>3. QED
        BY <1>0, <4>1, <4>2 DEF TypeOK
    <3>4. QED
      BY <1>0, <2>4, <3>2, <3>3
      DEF WorkFails, TypeInv, TypeOK, StreamsOK, ThreadsOK, streamVars, clockVars
  <2>5. CASE AckAndPublish(t)
    <3>1. cur[t] \in Nat
      BY <1>0 DEF TypeOK
    <3>2. ThreadsOK'
      BY <1>0, <2>5, StepTyped DEF AckAndPublish, AfterWork, Holding, PcValues
    <3>3. /\ log' \in [Stages -> Seq(Messages)]
          /\ live' \in [Stages -> SUBSET Nat]
          /\ pel' \in [Stages -> SUBSET Nat]
          /\ age' \in [Messages -> 0 .. UnackAge]
          /\ StreamsOK'
      BY <1>0, <2>0, <2>5, <3>1, HandOverTyped DEF AckAndPublish
    <3>4. QED
      BY <1>0, <2>5, <3>2, <3>3 DEF AckAndPublish, TypeInv, TypeOK, ThreadsOK, historyVars
  <2>14. CASE ReplyLost(t)
    <3>1. cur[t] \in Nat
      BY <1>0 DEF TypeOK
    <3>2. ThreadsOK'
      BY <1>0, <2>14, PanicTyped DEF ReplyLost
    <3>3. /\ log' \in [Stages -> Seq(Messages)]
          /\ live' \in [Stages -> SUBSET Nat]
          /\ pel' \in [Stages -> SUBSET Nat]
          /\ age' \in [Messages -> 0 .. UnackAge]
          /\ StreamsOK'
      BY <1>0, <2>0, <2>14, <3>1, HandOverTyped DEF ReplyLost
    <3>4. faults' \in 0 .. MaxFaults
      BY <1>0, <2>14 DEF ReplyLost, TypeOK
    <3>5. QED
      BY <1>0, <2>14, <3>2, <3>3, <3>4 DEF ReplyLost, TypeInv, TypeOK, ThreadsOK
  <2>6. CASE AckFindsNothing(t)
    <3>1. ThreadsOK'
      BY <1>0, <2>6, PanicTyped DEF AckFindsNothing, streamVars
    <3>2. QED
      BY <1>0, <2>6, <3>1 DEF AckFindsNothing, TypeInv, TypeOK, StreamsOK,
        ThreadsOK, streamVars, clockVars, historyVars
  <2>7. CASE PublishRefused(t)
    <3>1. MessageOf(t) \in Messages
      BY <2>7, HeldMessage DEF PublishRefused, AtAck, Holding
    <3>2. ThreadsOK'
      BY <1>0, <2>7, PanicTyped DEF PublishRefused
    <3>3. /\ live' \in [Stages -> SUBSET Nat] /\ pel' \in [Stages -> SUBSET Nat]
          /\ \A r \in Stages : pel'[r] \subseteq pel[r]
      BY <1>0, <2>0, <2>7 DEF PublishRefused, Acknowledge, TypeOK
    <3>4. StreamsOK'
      BY <1>0, <2>7, <3>3 DEF PublishRefused, StreamsOK
    <3>5. refused' \in SUBSET Messages /\ faults' \in 0 .. MaxFaults
      BY <1>0, <2>7, <3>1 DEF PublishRefused, TypeOK
    <3>6. QED
      BY <1>0, <2>7, <3>2, <3>3, <3>4, <3>5
      DEF PublishRefused, TypeInv, TypeOK, ThreadsOK, clockVars
  <2>8. CASE ScanPending(t)
    <3>1. OldPending(s) \subseteq 1 .. delivered[s] /\ OldPending(s) \in SUBSET Nat
      BY <1>0, <1>a, <2>0 DEF OldPending, StreamsOK
    <3>2. ThreadsOK'
      BY <1>0, <2>8, <3>1, VisitTyped DEF ScanPending, streamVars
    <3>3. QED
      BY <1>0, <2>8, <3>2 DEF ScanPending, TypeInv, TypeOK, StreamsOK,
        ThreadsOK, streamVars, clockVars, historyVars
  <2>9. CASE ReadOld(t)
    <3>1. ThreadsOK'
      BY <1>0, <2>9, StepTyped DEF ReadOld, Holding, PcValues, streamVars
    <3>2. QED
      BY <1>0, <2>9, <3>1 DEF ReadOld, TypeInv, TypeOK, StreamsOK,
        ThreadsOK, streamVars, clockVars, historyVars
  <2>10. CASE NotifyAdapter(t)
    <3>1. MessageOf(t) \in Messages
      BY <2>10, HeldMessage DEF NotifyAdapter, Holding
    <3>2. ThreadsOK'
      BY <1>0, <2>10, StepTyped DEF NotifyAdapter, Holding, PcValues, streamVars
    <3>3. QED
      BY <1>0, <2>10, <3>1, <3>2 DEF NotifyAdapter, TypeInv, TypeOK, StreamsOK,
        ThreadsOK, streamVars, clockVars
  <2>11. CASE DeleteOld(t)
    <3>1. ThreadsOK'
      BY <1>0, <2>11, StepTyped DEF DeleteOld, Holding, PcValues
    <3>2. QED
      BY <1>0, <2>0, <2>11, <3>1 DEF DeleteOld, TypeInv, TypeOK, StreamsOK,
        ThreadsOK, clockVars, historyVars
  <2>12. CASE AckOld(t)
    <3>1. todo[t] \in SUBSET Nat /\ todo[t] \subseteq 1 .. delivered[s]
      BY <1>0 DEF ThreadsOK
    <3>2. ThreadsOK'
      BY <1>0, <2>12, <3>1, VisitTyped DEF AckOld
    <3>3. QED
      BY <1>0, <2>0, <2>12, <3>2 DEF AckOld, TypeInv, TypeOK, StreamsOK,
        ThreadsOK, clockVars, historyVars
  <2>15. CASE ScriptUnreached(t)
    <3>1. ThreadsOK'
      BY <1>0, <2>15, PanicTyped DEF ScriptUnreached, streamVars
    <3>2. faults' \in 0 .. MaxFaults
      BY <1>0, <2>15 DEF ScriptUnreached, TypeOK
    <3>3. QED
      BY <1>0, <2>15, <3>1, <3>2 DEF ScriptUnreached, TypeInv, TypeOK, StreamsOK,
        ThreadsOK, streamVars, clockVars
  <2>16. CASE NotifyRefused(t)
    <3>1. MessageOf(t) \in Messages
      BY <2>16, HeldMessage DEF NotifyRefused, Holding
    <3>2. ThreadsOK'
      BY <1>0, <2>16, StepTyped DEF NotifyRefused, Holding, PcValues, streamVars
    <3>3. faults' \in 0 .. MaxFaults /\ unreported' \in SUBSET Messages
      BY <1>0, <2>16, <3>1 DEF NotifyRefused, TypeOK
    <3>4. QED
      BY <1>0, <2>16, <3>2, <3>3 DEF NotifyRefused, TypeInv, TypeOK, StreamsOK,
        ThreadsOK, streamVars, clockVars
  <2>17. CASE CommandFails(t)
    <3>1. /\ faults' \in 0 .. MaxFaults
          /\ UNCHANGED <<streamVars, clockVars, alive, done, notified, refused, unreported>>
      BY <1>0, <2>17 DEF CommandFails, TypeOK
    <3>2. todo[t] \in SUBSET Nat /\ todo[t] \subseteq 1 .. delivered[s]
      BY <1>0 DEF ThreadsOK
    <3>3. UNCHANGED delivered
      BY <3>1 DEF streamVars
    <3>4. CASE \/ GoTo(t, "claim") /\ UNCHANGED <<todo, restarts>>
               \/ GoTo(t, "scan") /\ UNCHANGED <<todo, restarts>>
               \/ pc[t] = "xdel" /\ pc' = [pc EXCEPT ![t] = "xack"]
                  /\ UNCHANGED <<cur, todo, restarts>>
      <4>1. ThreadsOK'
        BY <1>0, <3>3, <3>4, StepTyped DEF Holding, PcValues
      <4>2. QED
        BY <1>0, <3>1, <4>1 DEF TypeInv, TypeOK, StreamsOK, ThreadsOK, streamVars,
          clockVars
    <3>5. CASE Visit(t, {}) \/ Visit(t, todo[t])
      <4>1. ThreadsOK'
        BY <1>0, <3>2, <3>3, <3>5, VisitTyped
      <4>2. QED
        BY <1>0, <3>1, <4>1 DEF TypeInv, TypeOK, StreamsOK, ThreadsOK, streamVars,
          clockVars
    <3>6. QED
      BY <2>17, <3>4, <3>5 DEF CommandFails
  <2>13. QED
    BY <1>4, <2>1, <2>2, <2>3, <2>4, <2>5, <2>6, <2>7, <2>8, <2>9, <2>10,
      <2>11, <2>12, <2>14, <2>15, <2>16, <2>17 DEF ThreadStep
<1>5. ASSUME NEW p \in Pods, Crash(p) PROVE TypeInv'
  <2>1. ThreadsOK'
    BY <1>0, <1>5, PodDownTyped DEF Crash, streamVars
  <2>2. faults' \in 0 .. MaxFaults
    BY <1>0, <1>5 DEF Crash, TypeOK
  <2>3. QED
    BY <1>0, <1>5, <2>1, <2>2 DEF Crash, TypeInv, TypeOK, StreamsOK, ThreadsOK,
      streamVars, clockVars
<1>6. ASSUME NEW p \in Pods, Restart(p) PROVE TypeInv'
  BY <1>0, <1>6 DEF Restart, TypeInv, TypeOK, StreamsOK, ThreadsOK, PcValues,
    Holding, streamVars, clockVars, historyVars
<1>7. CASE UNCHANGED vars
  BY <1>0, <1>7 DEF vars, TypeInv, TypeOK, StreamsOK, ThreadsOK, streamVars,
    clockVars, threadVars, historyVars
<1>8. QED
  BY <1>1, <1>2, <1>3, <1>4, <1>5, <1>6, <1>7 DEF Next

\* The types hold in every state: they hold at the start and every step keeps them.
LEMMA TypeInvariance == Spec => []TypeInv
<1>1. Init => TypeInv
  BY PipelineAssumption, EmptySeq DEF Init, TypeInv, TypeOK, StreamsOK, ThreadsOK,
    PcValues, Holding
<1>2. QED
  BY <1>1, TypeStep, PTL DEF Spec

(* Every reachable state is well typed: no counter leaves its range, no       *)
(* thread holds something that is not an entry of its stream.                 *)
THEOREM TypeCorrect == Spec => []TypeOK
  BY TypeInvariance, PTL DEF TypeInv

=============================================================================
