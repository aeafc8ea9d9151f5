--------------------------- MODULE WorkerPipeline ---------------------------
(***************************************************************************)
(* The worker pipeline of ext-llm-gateway: one Redis stream with one       *)
(* consumer group per stage (cipher, LLM, decipher, finalizer), and worker *)
(* threads that fetch, reclaim and delete its messages.                    *)
(*                                                                         *)
(* A message is one accepted SetRequest; its payload "<seq>_<reqid>" stays *)
(* the same on its way through the stages, so one element of Messages      *)
(* stands for it at every stage.  An entry's Redis id is its position in   *)
(* log[s], the sequence of everything ever XADDed to the stream of stage   *)
(* s; an entry can be deleted (not in live[s]) and still be pending.       *)
(*                                                                         *)
(* Time is counted in ticks of arbitrary length; the three thresholds keep *)
(* the proportions of the configuration.                                   *)
(***************************************************************************)
EXTENDS Integers, Sequences, FiniteSets

CONSTANTS
  Messages,      \* the requests that may be accepted in a behavior
  Chats,         \* the chats (reqid) they belong to
  ChatOf,        \* [Messages -> Chats]
  LastStage,     \* index of the _FINALIZER_ stage; the stages are 0 .. LastStage
  Threads,       \* worker threads, of all stages and all pods
  Pods,
  StageOf,       \* [Threads -> Stages], the worker a thread runs
  PodOf,         \* [Threads -> Pods], the process a thread runs in
  IdleThreshold, \* idle_threshold_sec, in ticks
  UnackAge,      \* unack_msg_duration_seconds, in ticks
  SessionTTL,    \* session_ttl_sec, in ticks
  MaxRestarts,   \* Worker.maxRestarts
  TimedStages,   \* the stages whose dispatcher has a "timeout"
  MaxFaults      \* bound on pod crashes and failed Redis commands

Stages == 0 .. LastStage

ASSUME PipelineAssumption ==
  /\ LastStage \in Nat
  /\ ChatOf \in [Messages -> Chats]
  /\ StageOf \in [Threads -> Stages]
  /\ PodOf \in [Threads -> Pods]
  /\ IdleThreshold \in Nat /\ UnackAge \in Nat /\ SessionTTL \in Nat
  /\ MaxRestarts \in Nat \ {0}
  /\ TimedStages \subseteq Stages
  /\ MaxFaults \in Nat

VARIABLES
  (* Redis *)
  log,        \* [Stages -> Seq(Messages)]: what was XADDed to each stream
  delivered,  \* last-delivered-id of each stream's group
  live,       \* ids whose entry has not been XDELed
  pel,        \* ids in the group's pending entries list
  idle,       \* ticks since a message was last delivered to a consumer
  age,        \* ticks since a message entered the stream it is in
  alive,      \* chats whose SEQ_, METADATA_, STREAM_ and content keys exist
  chatAge,    \* ticks since the chat's score in the active-sessions ZSet
  (* worker threads *)
  pc,         \* where a thread stands in the loop of Worker.Start
  cur,        \* id of the entry a thread works on, 0 if none
  todo,       \* ids the running DelOldNAckFromStream still has to visit
  restarts,   \* restartCount
  (* the outside world, and history *)
  done,       \* [Stages -> SUBSET Messages]: what each stage's service has
              \* carried out; for the finalizer, the messages with an answer
              \* in STREAM_<reqid>
  notified,   \* messages with an _ERROR_ response in STREAM_<reqid>
  refused,    \* messages whose hand-off XADD was refused by Redis
  unreported, \* messages given up while SetFinalResponseInAdapterStream
              \* failed although their chat was alive
  faults      \* faults injected so far

streamVars  == <<log, delivered, live, pel>>
clockVars   == <<idle, age, chatAge>>
threadVars  == <<pc, cur, todo, restarts>>
historyVars == <<done, notified, refused, unreported, faults>>
vars == <<streamVars, clockVars, alive, threadVars, historyVars>>

PcValues == {"fetch", "workFetched", "ackFetched", "claim", "workClaimed",
             "ackClaimed", "scan", "range", "notify", "xdel", "xack", "down"}

TypeOK ==
  /\ log \in [Stages -> Seq(Messages)]
  /\ delivered \in [Stages -> Nat]
  /\ live \in [Stages -> SUBSET Nat]
  /\ pel \in [Stages -> SUBSET Nat]
  /\ idle \in [Messages -> 0 .. IdleThreshold]
  /\ age \in [Messages -> 0 .. UnackAge]
  /\ alive \in SUBSET Chats
  /\ chatAge \in [Chats -> 0 .. SessionTTL]
  /\ pc \in [Threads -> PcValues]
  /\ cur \in [Threads -> Nat]
  /\ todo \in [Threads -> SUBSET Nat]
  /\ restarts \in [Threads -> 0 .. MaxRestarts - 1]
  /\ done \in [Stages -> SUBSET Messages]
  /\ notified \in SUBSET Messages
  /\ refused \in SUBSET Messages
  /\ unreported \in SUBSET Messages
  /\ faults \in 0 .. MaxFaults

Init ==
  /\ log = [s \in Stages |-> <<>>]
  /\ delivered = [s \in Stages |-> 0]
  /\ live = [s \in Stages |-> {}]
  /\ pel = [s \in Stages |-> {}]
  /\ idle = [m \in Messages |-> 0]
  /\ age = [m \in Messages |-> 0]
  /\ alive = Chats
  /\ chatAge = [c \in Chats |-> 0]
  /\ pc = [t \in Threads |-> "fetch"]
  /\ cur = [t \in Threads |-> 0]
  /\ todo = [t \in Threads |-> {}]
  /\ restarts = [t \in Threads |-> 0]
  /\ done = [s \in Stages |-> {}]
  /\ notified = {}
  /\ refused = {}
  /\ unreported = {}
  /\ faults = 0

-----------------------------------------------------------------------------
(* Vocabulary *)

Entered(s) == {log[s][i] : i \in 1 .. Len(log[s])}

\* The entries stage s still owes an outcome: not delivered yet, or pending.
InHand(s) == {i \in 1 .. Len(log[s]) : i > delivered[s] \/ i \in pel[s]}

\* The message thread t works on, or visits in DelOldNAckFromStream.
MessageOf(t) == log[StageOf[t]][cur[t]]

\* Its chat's keys have not been unlinked by the session cleanup.
ChatAlive(m) == ChatOf[m] \in alive

Older(n, limit) == IF n < limit THEN n + 1 ELSE limit

IsLeast(i, S) == i \in S /\ \A j \in S : i <= j

-----------------------------------------------------------------------------
(* Producer and clock *)

\* SetWorker0Atomic publishes a request to the first worker's stream and
\* setSessionTimestamp renews the chat's session.
Accept(m) ==
  /\ m \notin Entered(0)
  /\ ChatAlive(m)
  /\ log' = [log EXCEPT ![0] = Append(@, m)]
  /\ live' = [live EXCEPT ![0] = @ \cup {Len(log[0]) + 1}]
  /\ age' = [age EXCEPT ![m] = 0]
  /\ chatAge' = [chatAge EXCEPT ![ChatOf[m]] = 0]
  /\ UNCHANGED <<delivered, pel, idle, alive, threadVars, historyVars>>

Tick ==
  /\ idle' = [m \in Messages |-> Older(idle[m], IdleThreshold)]
  /\ age' = [m \in Messages |-> Older(age[m], UnackAge)]
  /\ chatAge' = [c \in Chats |-> Older(chatAge[c], SessionTTL)]
  /\ clockVars' # clockVars
  /\ UNCHANGED <<streamVars, alive, threadVars, historyVars>>

\* The session cleanup unlinks every key of a chat that no SetRequest touched
\* for SessionTTL; the worker streams are not among those keys.
EndSession(c) ==
  /\ c \in alive
  /\ chatAge[c] = SessionTTL
  /\ alive' = alive \ {c}
  /\ UNCHANGED <<streamVars, clockVars, threadVars, historyVars>>

-----------------------------------------------------------------------------
(* The loop of Worker.Start *)

\* Thread t moves on to p and holds no entry there.
GoTo(t, p) ==
  /\ pc' = [pc EXCEPT ![t] = p]
  /\ cur' = [cur EXCEPT ![t] = 0]

\* FetchMessageFromStream: XREADGROUP ... COUNT 1 STREAMS <stream> >
Fetch(t) ==
  LET s == StageOf[t] IN
  /\ pc[t] = "fetch"
  /\ IF delivered[s] < Len(log[s])
       THEN /\ delivered' = [delivered EXCEPT ![s] = @ + 1]
            /\ pel' = [pel EXCEPT ![s] = @ \cup {delivered[s] + 1}]
            /\ idle' = [idle EXCEPT ![log[s][delivered[s] + 1]] = 0]
            /\ cur' = [cur EXCEPT ![t] = delivered[s] + 1]
            /\ pc' = [pc EXCEPT ![t] = "workFetched"]
       ELSE /\ GoTo(t, "claim")
            /\ UNCHANGED <<delivered, pel, idle>>
  /\ UNCHANGED <<log, live, age, chatAge, alive, todo, restarts, historyVars>>

\* What XAUTOCLAIM looks at: entries idle for long enough, and pending ids
\* whose entry is gone, which Redis drops from the list as it passes them.
Claimable(s) ==
  {i \in pel[s] : i \notin live[s] \/ idle[log[s][i]] = IdleThreshold}

\* ClaimNAckFromStream: XAUTOCLAIM ... 0 COUNT 1
Claim(t) ==
  LET s == StageOf[t] IN
  /\ pc[t] = "claim"
  /\ \/ /\ Claimable(s) = {}
        /\ GoTo(t, "scan")
        /\ UNCHANGED <<pel, idle>>
     \/ \E i \in Claimable(s) :
          /\ IsLeast(i, Claimable(s))
          /\ IF i \in live[s]
               THEN /\ idle' = [idle EXCEPT ![log[s][i]] = 0]
                    /\ cur' = [cur EXCEPT ![t] = i]
                    /\ pc' = [pc EXCEPT ![t] = "workClaimed"]
                    /\ UNCHANGED pel
               ELSE /\ pel' = [pel EXCEPT ![s] = @ \ {i}]
                    /\ GoTo(t, "scan")
                    /\ UNCHANGED idle
  /\ UNCHANGED <<log, delivered, live, age, chatAge, alive, todo, restarts,
                 historyVars>>

AtWork(t) == pc[t] \in {"workFetched", "workClaimed"}
AtAck(t)  == pc[t] \in {"ackFetched", "ackClaimed"}

\* The step of the loop after the work on a fetched, or on a claimed, message.
AfterWork(p) == IF p \in {"workFetched", "ackFetched"} THEN "claim" ELSE "scan"

\* The service of the stage carries a message out.  It needs the chat's keys:
\* its input content, or SEQ_<reqid> for the finalizer.
CarryOut(s, m) ==
  /\ ChatAlive(m)
  /\ done' = [done EXCEPT ![s] = @ \cup {m}]

\* Dowork returns true: the downstream answered 200, or the finalizer has put
\* the answer into the adapter's stream.
WorkSucceeds(t) ==
  /\ AtWork(t)
  /\ CarryOut(StageOf[t], MessageOf(t))
  /\ pc' = [pc EXCEPT ![t] = IF pc[t] = "workFetched" THEN "ackFetched"
                                                       ELSE "ackClaimed"]
  /\ UNCHANGED <<streamVars, clockVars, alive, cur, todo, restarts, notified,
                 refused, unreported, faults>>

\* Mutant: the status of the response is not looked at.
WorkFailsUnnoticed(t) ==
  /\ AtWork(t)
  /\ pc' = [pc EXCEPT ![t] = IF pc[t] = "workFetched" THEN "ackFetched"
                                                       ELSE "ackClaimed"]
  /\ UNCHANGED <<streamVars, clockVars, alive, cur, todo, restarts, historyVars>>

\* Dowork returns false (an error, a status other than 200, a timeout): the
\* service may have carried the message out all the same.  The message stays
\* pending.
WorkFails(t) ==
  /\ AtWork(t)
  /\ \/ CarryOut(StageOf[t], MessageOf(t))
     \/ UNCHANGED done
  /\ GoTo(t, AfterWork(pc[t]))
  /\ UNCHANGED <<streamVars, clockVars, alive, todo, restarts, notified,
                 refused, unreported, faults>>

\* What a pod's death does to its threads.
PodDown(p) ==
  /\ pc' = [t \in Threads |-> IF PodOf[t] = p THEN "down" ELSE pc[t]]
  /\ cur' = [t \in Threads |-> IF PodOf[t] = p THEN 0 ELSE cur[t]]
  /\ todo' = [t \in Threads |-> IF PodOf[t] = p THEN {} ELSE todo[t]]
  /\ restarts' = [t \in Threads |-> IF PodOf[t] = p THEN 0 ELSE restarts[t]]

\* Mutant: maxRestarts is taken for the number of panics to survive.
PanicOnceMore(t) ==
  IF restarts[t] + 1 > MaxRestarts
    THEN PodDown(PodOf[t])
    ELSE /\ GoTo(t, "fetch")
         /\ restarts' = [restarts EXCEPT ![t] = @ + 1]
         /\ UNCHANGED todo

\* doworkAndACKPublish panics.  The recover() of the loop counts it and starts
\* the next round, or panics again and takes the pod down.
Panic(t) ==
  IF restarts[t] + 1 >= MaxRestarts
    THEN PodDown(PodOf[t])
    ELSE /\ GoTo(t, "fetch")
         /\ restarts' = [restarts EXCEPT ![t] = @ + 1]
         /\ UNCHANGED todo

\* Mutant: the script goes on whatever XACK returned.
AcknowledgeUnchecked(s, i) == pel' = [pel EXCEPT ![s] = @ \ {i}]

\* Mutant: the script names another group than the one it reads for.
AcknowledgeElsewhere(s, i) == i \in pel[s] /\ UNCHANGED pel

\* The first step of ackAndPublishLua: XACK, which must return 1.
Acknowledge(s, i) ==
  /\ i \in pel[s]
  /\ pel' = [pel EXCEPT ![s] = @ \ {i}]

\* The whole of ackAndPublishLua: entry i leaves stream s and its message enters
\* the next one, if there is a next one.
HandOver(s, i) ==
  /\ Acknowledge(s, i)
  /\ IF s = LastStage
       THEN /\ live' = [live EXCEPT ![s] = @ \ {i}]
            /\ UNCHANGED <<log, age>>
       ELSE /\ log' = [log EXCEPT ![s + 1] = Append(@, log[s][i])]
            /\ live' = [live EXCEPT ![s] = @ \ {i},
                                    ![s + 1] = @ \cup {Len(log[s + 1]) + 1}]
            /\ age' = [age EXCEPT ![log[s][i]] = 0]

\* AckAndPublishToNextStreamAtomic returns true.
AckAndPublish(t) ==
  /\ AtAck(t)
  /\ HandOver(StageOf[t], cur[t])
  /\ GoTo(t, AfterWork(pc[t]))
  /\ UNCHANGED <<delivered, idle, chatAge, alive, todo, restarts, historyVars>>

\* The script ran, but its reply is lost with the connection: the worker
\* panics although the message was handed over.
ReplyLost(t) ==
  /\ AtAck(t)
  /\ faults < MaxFaults
  /\ HandOver(StageOf[t], cur[t])
  /\ faults' = faults + 1
  /\ Panic(t)
  /\ UNCHANGED <<delivered, idle, chatAge, alive, done, notified, refused,
                 unreported>>

\* Redis was not reached: the script did not run, and the worker panics.
ScriptUnreached(t) ==
  /\ AtAck(t)
  /\ faults < MaxFaults
  /\ faults' = faults + 1
  /\ Panic(t)
  /\ UNCHANGED <<streamVars, clockVars, alive, done, notified, refused, unreported>>

\* XACK returns 0: somebody else acknowledged the entry in the meantime.
AckFindsNothing(t) ==
  /\ AtAck(t)
  /\ cur[t] \notin pel[StageOf[t]]
  /\ Panic(t)
  /\ UNCHANGED <<streamVars, clockVars, alive, historyVars>>

\* The XADD of the script fails (no memory left, no such stream): the script
\* returns 2, with XACK and XDEL done, and the worker panics.
PublishRefused(t) ==
  LET s == StageOf[t] IN
  /\ AtAck(t)
  /\ s # LastStage
  /\ faults < MaxFaults
  /\ Acknowledge(s, cur[t])
  /\ live' = [live EXCEPT ![s] = @ \ {cur[t]}]
  /\ refused' = refused \cup {MessageOf(t)}
  /\ faults' = faults + 1
  /\ Panic(t)
  /\ UNCHANGED <<log, delivered, clockVars, alive, done, notified, unreported>>

-----------------------------------------------------------------------------
(* DelOldNAckFromStream, one Redis command at a time *)

\* The next old entry to visit, or the end of the round, where restartCount
\* is reset.
Visit(t, rest) ==
  IF rest = {}
    THEN /\ GoTo(t, "fetch")
         /\ todo' = [todo EXCEPT ![t] = {}]
         /\ restarts' = [restarts EXCEPT ![t] = 0]
    ELSE \E i \in rest :
         /\ IsLeast(i, rest)
         /\ pc' = [pc EXCEPT ![t] = "range"]
         /\ cur' = [cur EXCEPT ![t] = i]
         /\ todo' = [todo EXCEPT ![t] = rest \ {i}]
         /\ UNCHANGED restarts

\* Mutant: the age is measured from the last delivery.
OldPendingByIdle(s) == {i \in pel[s] : idle[log[s][i]] = IdleThreshold}

\* XPENDING, and of its ids those created UnackAge ago.
OldPending(s) == {i \in pel[s] : age[log[s][i]] = UnackAge}

ScanPending(t) ==
  /\ pc[t] = "scan"
  /\ Visit(t, OldPending(StageOf[t]))
  /\ UNCHANGED <<streamVars, clockVars, alive, historyVars>>

\* Mutant: the two cases of XRANGE are swapped.
ReadOldSwapped(t) ==
  /\ pc[t] = "range"
  /\ pc' = [pc EXCEPT ![t] = IF cur[t] \in live[StageOf[t]] THEN "xdel"
                                                             ELSE "notify"]
  /\ UNCHANGED <<streamVars, clockVars, alive, cur, todo, restarts, historyVars>>

\* XRANGE: only an entry that still exists is reported to its adapter.
ReadOld(t) ==
  /\ pc[t] = "range"
  /\ pc' = [pc EXCEPT ![t] = IF cur[t] \in live[StageOf[t]] THEN "notify"
                                                             ELSE "xdel"]
  /\ UNCHANGED <<streamVars, clockVars, alive, cur, todo, restarts, historyVars>>

\* SetFinalResponseInAdapterStream with an _ERROR_ text.  Without SEQ_<reqid>
\* it adds nothing, and that is only logged.
NotifyAdapter(t) ==
  /\ pc[t] = "notify"
  /\ notified' = IF ChatAlive(MessageOf(t))
                   THEN notified \cup {MessageOf(t)}
                   ELSE notified
  /\ pc' = [pc EXCEPT ![t] = "xdel"]
  /\ UNCHANGED <<streamVars, clockVars, alive, cur, todo, restarts, done,
                 refused, unreported, faults>>

\* Its GET of SEQ_<reqid> or its XADD fails although the chat is alive.
\* "Adapter NOT notified" is logged, and the entry is dropped all the same.
NotifyRefused(t) ==
  /\ pc[t] = "notify"
  /\ ChatAlive(MessageOf(t))
  /\ faults < MaxFaults
  /\ faults' = faults + 1
  /\ unreported' = unreported \cup {MessageOf(t)}
  /\ pc' = [pc EXCEPT ![t] = "xdel"]
  /\ UNCHANGED <<streamVars, clockVars, alive, cur, todo, restarts, done,
                 notified, refused>>

DeleteOld(t) ==
  /\ pc[t] = "xdel"
  /\ live' = [live EXCEPT ![StageOf[t]] = @ \ {cur[t]}]
  /\ pc' = [pc EXCEPT ![t] = "xack"]
  /\ UNCHANGED <<log, delivered, pel, clockVars, alive, cur, todo, restarts,
                 historyVars>>

AckOld(t) ==
  /\ pc[t] = "xack"
  /\ pel' = [pel EXCEPT ![StageOf[t]] = @ \ {cur[t]}]
  /\ Visit(t, todo[t])
  /\ UNCHANGED <<log, delivered, live, clockVars, alive, historyVars>>

\* Any other command of the loop returns an error.  XREADGROUP and XAUTOCLAIM
\* then find nothing, XPENDING ends the deletion, XRANGE skips the entry, and
\* nobody looks at what XDEL and XACK return.
CommandFails(t) ==
  /\ faults < MaxFaults
  /\ faults' = faults + 1
  /\ \/ /\ pc[t] = "fetch"
        /\ GoTo(t, "claim")
        /\ UNCHANGED <<todo, restarts>>
     \/ /\ pc[t] = "claim"
        /\ GoTo(t, "scan")
        /\ UNCHANGED <<todo, restarts>>
     \/ pc[t] = "scan" /\ Visit(t, {})
     \/ pc[t] \in {"range", "xack"} /\ Visit(t, todo[t])
     \/ /\ pc[t] = "xdel"
        /\ pc' = [pc EXCEPT ![t] = "xack"]
        /\ UNCHANGED <<cur, todo, restarts>>
  /\ UNCHANGED <<streamVars, clockVars, alive, done, notified, refused, unreported>>

-----------------------------------------------------------------------------
(* Pods *)

Crash(p) ==
  /\ \E t \in Threads : PodOf[t] = p /\ pc[t] # "down"
  /\ faults < MaxFaults
  /\ faults' = faults + 1
  /\ PodDown(p)
  /\ UNCHANGED <<streamVars, clockVars, alive, done, notified, refused, unreported>>

\* main: CreateWorkerStream finds the groups of the previous run (BUSYGROUP is
\* only logged) and the workers start their loops.
Restart(p) ==
  /\ \E t \in Threads : PodOf[t] = p /\ pc[t] = "down"
  /\ pc' = [t \in Threads |-> IF PodOf[t] = p THEN "fetch" ELSE pc[t]]
  /\ UNCHANGED <<streamVars, clockVars, alive, cur, todo, restarts, historyVars>>

-----------------------------------------------------------------------------

ThreadStep(t) ==
  \/ Fetch(t)
  \/ Claim(t)
  \/ WorkSucceeds(t)
  \/ WorkFails(t)
  \/ AckAndPublish(t)
  \/ ReplyLost(t)
  \/ ScriptUnreached(t)
  \/ AckFindsNothing(t)
  \/ PublishRefused(t)
  \/ ScanPending(t)
  \/ ReadOld(t)
  \/ NotifyAdapter(t)
  \/ NotifyRefused(t)
  \/ DeleteOld(t)
  \/ AckOld(t)
  \/ CommandFails(t)

Next ==
  \/ \E m \in Messages : Accept(m)
  \/ Tick
  \/ \E c \in Chats : EndSession(c)
  \/ \E t \in Threads : ThreadStep(t)
  \/ \E p \in Pods : Crash(p)
  \/ \E p \in Pods : Restart(p)

Spec == Init /\ [][Next]_vars

(* Fairness: the loops of Worker.Start never stop, time passes, and a dead  *)
(* pod is started again.  A thread inside Dowork comes back only if the     *)
(* dispatcher of its stage gives its HTTP call a timeout.                   *)

Fairness ==
  /\ WF_vars(Tick)
  /\ \A t \in Threads : WF_vars(ThreadStep(t) /\ (AtWork(t) => StageOf[t] \in TimedStages))
  /\ \A p \in Pods : WF_vars(Restart(p))

FairSpec == Spec /\ Fairness

-----------------------------------------------------------------------------
(* Properties *)

MessagesInHand(s) == {log[s][i] : i \in InHand(s)}

\* A message is owed by one stage at a time: whatever the order in which the
\* threads of several pods fetch, reclaim, acknowledge and delete it, it is
\* never waiting or pending in the streams of two stages.
OneStageAtATime ==
  \A s1, s2 \in Stages :
    s1 # s2 => MessagesInHand(s1) \cap MessagesInHand(s2) = {}

\* A message is handed over to each stage at most once, although several
\* threads may work on it at the same time and each of them ends with
\* AckAndPublishToNextStreamAtomic.
HandedOverOnce ==
  \A s \in Stages : \A i, j \in 1 .. Len(log[s]) :
    log[s][i] = log[s][j] => i = j

\* No service is called with a message before the service of the stage before
\* it has carried the message out: the LLM is not called before the cipher
\* service is through, and the finalizer answers only what was deciphered.
StagesInOrder ==
  \A s \in Stages \ {LastStage} : \A m \in Messages :
    m \in done[s + 1] => m \in done[s]

\* The outcomes of a message that its chat learns of, or needs no more.
Outcome(s, m) ==
  \/ IF s = LastStage THEN m \in done[s] ELSE m \in Entered(s + 1)
  \/ m \in notified
  \/ ~ChatAlive(m)

\* What lets stage s forget message m.
Settled(s, m) == Outcome(s, m) \/ m \in refused \/ m \in unreported

\* An entry leaves a stage only with its message handed over, answered, or
\* reported to the adapter as failed.  The exceptions are a chat that was
\* cleaned up and two commands nobody repeats: an XADD of the hand-off that
\* Redis refused, and an _ERROR_ response that could not be written.  Both
\* take a failure of Redis; crashes, lost replies, reclaims and the races of
\* the threads never lose a message.
NoSilentLoss ==
  \A s \in Stages : \A i \in (1 .. Len(log[s])) \ InHand(s) :
    Settled(s, log[s][i])

\* README.md ("No message loss across atomic handoffs"): an acknowledged
\* message is always in the next stage's stream.  It is the promise without
\* the exception that NoSilentLoss makes for a refused XADD.
NoLossAcrossHandoffs ==
  \A s \in Stages \ {LastStage} : \A i \in (1 .. Len(log[s])) \ InHand(s) :
    Outcome(s, log[s][i]) \/ log[s][i] \in unreported

\* Every accepted message leaves the pipeline: handed through to the adapter,
\* or deleted after UnackAge ("Message stuck forever (truly broken)" in the
\* gateway's README), whatever crashes.
EveryMessageLeaves ==
  \A m \in Messages :
    m \in Entered(0) ~> \A s \in Stages : m \notin MessagesInHand(s)

-----------------------------------------------------------------------------
(* Refinement: the pipeline implements MessageDelivery.                     *)

\* The number of streams a message has been added to.
Position ==
  [m \in Messages |-> Cardinality({s \in Stages : m \in Entered(s)})]

\* The messages some stage has in hand.
Owed == {m \in Messages : \E s \in Stages : m \in MessagesInHand(s)}

Closed == {m \in Messages : ~ChatAlive(m)}

Delivery == INSTANCE MessageDelivery WITH
  pos <- Position, owed <- Owed, closed <- Closed

ImplementsDelivery == Delivery!Spec

=============================================================================
