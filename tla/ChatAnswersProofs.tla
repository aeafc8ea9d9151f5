--------------------------- MODULE ChatAnswersProofs ---------------------------
(***************************************************************************)
(* Theorems about ChatTurns: what a reader gets and how the chat goes on,  *)
(* for any number of requests, any number base and any number of faults.   *)
(* They suppose that the client sends one request at a time (Locked), and  *)
(* they are about the behaviors up to the first finalization that is       *)
(* carried out twice: from then on the properties fail, which the run      *)
(* ChatRedelivery shows.                                                   *)
(***************************************************************************)
EXTENDS ChatTurnsProofs

-----------------------------------------------------------------------------
(* The inductive invariant about answers *)

\* The calls whose turn was published, or whose publication failed unseen.
Published == {"touch"} \cup Waiting

\* While a turn is open, every other one was answered.
OneOpen ==
  \A i, j \in DOMAIN jobs : Pending(j) /\ i # j => jobs[i].st = "answered"

\* A reader was woken up by an answer.
HasAnswer(r) == pc[r] = "read" /\ inbox[r].ok

\* Every turn was answered while the client holds the key in SEQ_, between the
\* check of a key and its exchange, and when a reader has been given an answer.
NoTurnOpen ==
  \/ clientKey = seq
  \/ \E r \in Requests : pc[r] \in {"content", "publish"} \/ HasAnswer(r)
  => \A j \in DOMAIN jobs : jobs[j].st = "answered"

\* No turn is open when a reader has been woken up.
NoneBehind ==
  (\E r \in Requests : pc[r] = "read") => \A j \in DOMAIN jobs : ~Pending(j)

\* An open turn belongs to the call that waits for it: it has that call's
\* number, its text and what was made of it.
OwnTurn ==
  \A r \in Requests, j \in DOMAIN jobs :
    pc[r] \in Published /\ Pending(j) =>
      /\ jobs[j].seq = TurnOf(key[r])
      /\ content[jobs[j].seq] \in {r, Nobody}
      /\ jobs[j].st = "serving" => jobs[j].text = r
      /\ jobs[j].st \in {"served", "granted", "stamped"} => final[jobs[j].seq] \in {r, Nobody}
      /\ seq # key[r]

\* The text under the key of a turn is that of the call about to publish it.
OwnContent ==
  \A r \in Requests : pc[r] = "publish" => content[TurnOf(key[r])] \in {r, Nobody}

\* The final content behind an answer was made for the call that reads it.
OwnFinal ==
  \A r \in Requests : pc[r] = "read" /\ inbox[r].ok => final[inbox[r].seq] \in {r, Nobody}

AnswerInv ==
  OneOpen /\ NoTurnOpen /\ NoneBehind /\ OwnTurn /\ OwnContent /\ OwnFinal /\ OwnAnswer

\* A chat begins without a turn and without an answer.
LEMMA InitAnswerInv == Init => AnswerInv
<1> SUFFICES ASSUME Init PROVE AnswerInv OBVIOUS
<1>1. DOMAIN jobs = {} BY DEF Init
<1> QED
  BY <1>1 DEF Init, AnswerInv, OneOpen, NoTurnOpen, NoneBehind, HasAnswer, OwnTurn, OwnContent, OwnFinal,
    OwnAnswer

-----------------------------------------------------------------------------
(* What the steps leave alone *)

\* A step of a call leaves the other calls, what was posted and what was made of
\* the turns alone; the jobs change when it publishes.
LEMMA CallFrame ==
  ASSUME TypeInv, NEW r \in Requests, CallStep(r)
  PROVE  /\ UNCHANGED <<meta, final, acl, sweep, inbox>>
         /\ \A q \in Requests : q # r => pc'[q] = pc[q] /\ key'[q] = key[q]
         /\ pc'[r] \notin {"new", "read"}
         /\ \/ jobs' = jobs
            \/ Publish(r) /\ JobJoins(TurnOf(key[r]), "queued", Nobody, NoKey)
<1> USE DEF redisVars, historyVars
<1>0. /\ pc \in [Requests -> Phases] /\ key \in [Requests -> Key \cup {NoKey}]
      /\ jobs \in Seq(Job)
  BY DEF TypeInv, TypeOK, Phases
<1>1. \E p \in Phases \ {"new", "read"} : Goto(r, p)
  BY DEF CallStep, Send, CheckMeta, CheckKey, SetContent, Publish, PublishFails, Touch,
         HandlerDies, Subscribe, GiveUp, Receive, ReceiveError,
         Phases, InHandler, Waiting, Ended
<1>2. pc'[r] \notin {"new", "read"} /\ \A q \in Requests : q # r => pc'[q] = pc[q]
  BY <1>0, <1>1, GotoFacts
<1>3. UNCHANGED <<meta, final, acl, sweep, inbox>>
  BY DEF CallStep, Send, CheckMeta, CheckKey, SetContent, Publish, PublishFails, Touch,
         HandlerDies, Subscribe, GiveUp, Receive, ReceiveError
<1>4. \A q \in Requests : q # r => key'[q] = key[q]
  BY <1>0 DEF CallStep, Send, CheckMeta, CheckKey, SetContent, Publish, PublishFails,
    Touch,
         HandlerDies, Subscribe, GiveUp, Receive, ReceiveError
<1>5. CASE Publish(r)
  <2>1. key[r] \in Key BY <1>5 DEF Publish, TypeInv, HasKey
  <2>2. Queued(TurnOf(key[r])) \in Job BY <2>1, TurnNumber, QueuedType
  <2>3. JobJoins(TurnOf(key[r]), "queued", Nobody, NoKey)
    BY <1>0, <1>5, <2>2, AppendedJobs DEF Publish, JobJoins, Queued
  <2> QED BY <1>2, <1>3, <1>4, <1>5, <2>3
<1>6. CASE ~Publish(r)
  <2>1. jobs' = jobs
    BY <1>6 DEF CallStep, Send, CheckMeta, CheckKey, SetContent, PublishFails, Touch,
         HandlerDies, Subscribe, GiveUp, Receive, ReceiveError
  <2> QED BY <1>2, <1>3, <1>4, <2>1
<1> QED BY <1>5, <1>6

\* As long as finalizations are handed out once, a step of the pipeline is one of
\* an open turn, or the late write of one that was given up; it opens none and
\* leaves the others as they are.
LEMMA JobFrame ==
  ASSUME TypeInv, redelivered' = 0, NEW j \in DOMAIN jobs, JobStep(j)
  PROVE  /\ UNCHANGED <<meta, seq, content, key, answer, clientKey, sweep>>
         /\ jobs[j].st # "answered" /\ (~Pending(j) => LateDeliver(j))
         /\ DOMAIN jobs' = DOMAIN jobs
         /\ jobs'[j].seq = jobs[j].seq
         /\ \A i \in DOMAIN jobs : i # j => jobs'[i] = jobs[i]
         /\ ~Redeliver(j) /\ ~Overtake(j)
<1> USE DEF redisVars, callVars, historyVars
<1>1. ~Redeliver(j) /\ ~Overtake(j)
  BY DEF Redeliver, Overtake, TypeInv, TypeOK
<1>2. UNCHANGED <<meta, seq, content, key, answer, clientKey, sweep>>
  BY <1>1 DEF JobStep, Serve, Deliver, Grant, Stamp, StampFails, Post, PostFails, Abort,
    PostError, PostErrorFails, LateDeliver
<1>3. jobs[j].st # "answered" /\ (~Pending(j) => LateDeliver(j))
  BY <1>1 DEF JobStep, Serve, Deliver, Grant, Stamp, StampFails, Post, PostFails, Abort,
    PostError, PostErrorFails, LateDeliver, Pending
<1>4. \E s, t, k : JobBecomes(j, s, t, k)
  BY <1>1, JobActions DEF JobStep
<1> QED BY <1>1, <1>2, <1>3, <1>4 DEF JobBecomes

\* A second delivery is never forgotten.
LEMMA RepeatsKept ==
  ASSUME TypeInv, [Next]_vars, redelivered' = 0
  PROVE  redelivered = 0
<1> USE DEF redisVars, callVars, historyVars
<1>0. redelivered \in Nat BY ChatAssumption DEF TypeInv, TypeOK
<1>1. ASSUME NEW r \in Requests, CallStep(r) PROVE redelivered' = redelivered
  BY <1>1 DEF CallStep, Send, CheckMeta, CheckKey, SetContent, Publish, PublishFails, Touch,
         HandlerDies, Subscribe, GiveUp, Receive, ReceiveError
<1>2. ASSUME NEW j \in DOMAIN jobs, JobStep(j)
      PROVE  redelivered' \in {redelivered, redelivered + 1}
  BY <1>2 DEF JobStep, Serve, Deliver, Grant, Stamp, StampFails, Post, PostFails, Abort,
         PostError, PostErrorFails, LateDeliver, Redeliver, Overtake
<1>3. CASE SweepStep \/ Expire
  BY <1>3 DEF SweepStep, SweepFind, SweepUnlink, SweepMaintain, SweepUsers, SweepForget,
              Expire
<1>4. CASE UNCHANGED vars BY <1>4 DEF vars
<1> QED BY <1>0, <1>1, <1>2, <1>3, <1>4 DEF Next

\* Readers wake up when an answer or an error is posted: by an answer with the
\* entry of its job, by an error with one that is not ok.
LEMMA WokenUp ==
  ASSUME TypeInv, redelivered' = 0, NEW j \in DOMAIN jobs, JobStep(j), NEW r \in Requests
  PROVE  \/ pc'[r] = pc[r] /\ inbox'[r] = inbox[r]
         \/ /\ pc[r] = "reading" /\ pc'[r] = "read"
            /\ Post(j)
            /\ inbox'[r] = [ok |-> TRUE, seq |-> jobs[j].seq, next |-> jobs[j].next, pwd |-> j]
         \/ /\ pc[r] = "reading" /\ pc'[r] = "read"
            /\ PostError(j)
            /\ ~inbox'[r].ok
<1> USE DEF redisVars, callVars, historyVars
<1>0. TypeOK BY DEF TypeInv
<1>1. CASE Post(j)
  <2> DEFINE e == [ok |-> TRUE, seq |-> jobs[j].seq, next |-> jobs[j].next, pwd |-> j]
  <2>1. e \in Entry /\ PostEntry(e) BY <1>1, EntryType DEF Post
  <2> QED BY <1>0, <1>1, <2>1, PostEntryFacts
<1>2. CASE PostError(j)
  <2> DEFINE e == [ok |-> FALSE, seq |-> jobs[j].seq, next |-> jobs[j].next, pwd |-> 0]
  <2>1. e \in Entry /\ PostEntry(e) /\ ~e.ok BY <1>2, EntryType DEF PostError
  <2> HIDE DEF e
  <2> QED BY <1>0, <1>2, <2>1, PostEntryFacts
<1>3. CASE ~Post(j) /\ ~PostError(j)
  BY <1>3, JobFrame DEF JobStep, Serve, Deliver, Grant, Stamp, StampFails, PostFails, Abort,
    PostErrorFails, LateDeliver
<1> QED BY <1>1, <1>2, <1>3

\* The cleanup takes away what is in Redis, and takes a served text back.
LEMMA SweepFrame ==
  ASSUME TypeInv, SweepStep \/ Expire
  PROVE  /\ UNCHANGED callVars
         /\ seq' \in {seq, NoKey}
         /\ \A n \in Numbers : /\ content'[n] \in {content[n], Nobody}
                               /\ final'[n] \in {final[n], Nobody}
         /\ meta' => meta /\ final' = final
         /\ acl' = acl \/ sweep = "users"
         /\ sweep' \in {"maintain", "users", "forget"} /\ meta' =>
              sweep \in {"maintain", "users", "forget"} /\ meta
         /\ DOMAIN jobs' = DOMAIN jobs
         /\ \A i \in DOMAIN jobs :
              /\ jobs'[i].seq = jobs[i].seq
              /\ \/ jobs'[i] = jobs[i]
                 \/ jobs[i].st = "serving" /\ jobs'[i].st = "queued"
                 \/ /\ jobs[i].st # "serving" /\ jobs'[i].st = jobs[i].st
                    /\ jobs'[i].next = jobs[i].next
<1>1. CASE SweepUsers
  <2>1. /\ DOMAIN jobs' = DOMAIN jobs
        /\ \A i \in DOMAIN jobs :
             /\ jobs'[i].seq = jobs[i].seq
             /\ \/ jobs[i].st = "serving" /\ jobs'[i].st = "queued"
                \/ /\ jobs[i].st # "serving" /\ jobs'[i].st = jobs[i].st
                   /\ jobs'[i].next = jobs[i].next
    BY <1>1, SweepUsersFacts DEF TypeInv, TypeOK
  <2> QED BY <1>1, <2>1 DEF SweepUsers
<1>2. CASE SweepUnlink BY <1>2 DEF SweepUnlink, UnlinkKeys
<1>3. CASE SweepMaintain BY <1>3 DEF SweepMaintain, UnlinkKeys
<1>4. CASE SweepFind BY <1>4 DEF SweepFind, redisVars
<1>5. CASE SweepForget BY <1>5 DEF SweepForget
<1>6. CASE Expire BY <1>6 DEF Expire
<1> QED BY <1>1, <1>2, <1>3, <1>4, <1>5, <1>6 DEF SweepStep

-----------------------------------------------------------------------------
(* The steps keep the invariant *)

\* A step of a call that neither passes the check of the key nor goes through to
\* a reply.
LEMMA QuietAnswer ==
  ASSUME TypeInv, AnswerInv, NEW r \in Requests, CallStep(r),
         UNCHANGED <<seq, content, answer, clientKey, jobs>>,
         pc'[r] \notin {"content", "publish", "replied"},
         pc'[r] \in Published => pc[r] \in Published /\ key'[r] = key[r]
  PROVE  AnswerInv'
<1>1. /\ UNCHANGED <<final, inbox>>
      /\ \A q \in Requests : q # r => pc'[q] = pc[q] /\ key'[q] = key[q]
      /\ pc'[r] # "read"
  BY CallFrame
<1>2. OneOpen' BY DEF AnswerInv, OneOpen, Pending
<1>3. NoTurnOpen' /\ NoneBehind'
  BY <1>1 DEF AnswerInv, NoTurnOpen, NoneBehind, HasAnswer, Pending
<1>4. OwnTurn'
  <2> SUFFICES ASSUME NEW q \in Requests, NEW j \in DOMAIN jobs,
                      pc'[q] \in Published, Pending(j)
               PROVE  /\ jobs[j].seq = TurnOf(key'[q])
                      /\ content[jobs[j].seq] \in {q, Nobody}
                      /\ jobs[j].st = "serving" => jobs[j].text = q
                      /\ jobs[j].st \in {"served", "granted", "stamped"}
                           => final[jobs[j].seq] \in {q, Nobody}
                      /\ seq # key'[q]
    BY <1>1 DEF OwnTurn, Pending, TurnOf
  <2>1. pc[q] \in Published /\ key'[q] = key[q] BY <1>1
  <2> QED BY <2>1 DEF AnswerInv, OwnTurn
<1>5. OwnContent' BY <1>1 DEF AnswerInv, OwnContent, TurnOf
<1>6. OwnFinal' BY <1>1 DEF AnswerInv, OwnFinal
<1>7. OwnAnswer' BY <1>1 DEF AnswerInv, OwnAnswer
<1> QED BY <1>2, <1>3, <1>4, <1>5, <1>6, <1>7 DEF AnswerInv

\* The client, the handler and the reader keep every answer with its call.
LEMMA CallStepAnswerInv ==
  ASSUME TypeInv, KeyInv, AnswerInv, NEW r \in Requests, CallStep(r)
  PROVE  AnswerInv'
<1> USE DEF redisVars, historyVars
<1>0. /\ pc \in [Requests -> Phases] /\ key \in [Requests -> Key \cup {NoKey}]
      /\ jobs \in Seq(Job) /\ content \in [Numbers -> Texts] /\ answer \in [Requests -> Texts]
      /\ \A q \in Requests : pc[q] # "new" => key[q] \in Key
  BY DEF TypeInv, TypeOK, Phases, HasKey
<1>1. /\ UNCHANGED <<meta, final, acl, sweep, inbox>>
      /\ \A q \in Requests : q # r => pc'[q] = pc[q] /\ key'[q] = key[q]
      /\ pc'[r] \notin {"new", "read"}
      /\ \/ jobs' = jobs
         \/ Publish(r) /\ JobJoins(TurnOf(key[r]), "queued", Nobody, NoKey)
  BY CallFrame
<1>2. ASSUME NEW p \in Phases, Goto(r, p) PROVE pc'[r] = p
  BY <1>0, <1>2, GotoFacts
\* The step closes the door to the others: r was alone.
<1>3. ASSUME pc[r] \in InHandler \cup Waiting
      PROVE  \A q \in Requests : q # r => pc[q] \notin InHandler \cup Waiting
  BY <1>3 DEF KeyInv, OneInFlight, InFlight
\* While every turn was answered, what is said of open ones holds.
<1>4. ASSUME jobs' = jobs, \A j \in DOMAIN jobs : jobs[j].st = "answered"
      PROVE  OneOpen' /\ NoTurnOpen' /\ NoneBehind' /\ OwnTurn'
  BY <1>4 DEF OneOpen, NoTurnOpen, NoneBehind, OwnTurn, Pending
<1>5. CASE CheckKey(r) /\ seq = key[r]
  <2>1. pc[r] = "seq" /\ pc'[r] = "content" /\ UNCHANGED <<seq, content, final, key, answer, jobs>>
    BY <1>2, <1>5 DEF CheckKey, Phases, InHandler
  <2>2. key[r] = clientKey BY <2>1 DEF KeyInv, HeldKey, InFlight, InHandler
  <2>3. \A j \in DOMAIN jobs : jobs[j].st = "answered" BY <1>5, <2>2 DEF AnswerInv, NoTurnOpen
  <2>4. OwnContent' BY <1>1, <2>1 DEF AnswerInv, OwnContent, TurnOf
  <2>5. OwnFinal' /\ OwnAnswer' BY <1>1, <2>1 DEF AnswerInv, OwnFinal, OwnAnswer
  <2> QED BY <1>4, <2>1, <2>3, <2>4, <2>5 DEF AnswerInv
<1>6. CASE SetContent(r)
  <2>1. /\ pc[r] = "content" /\ pc'[r] = "publish"
        /\ UNCHANGED <<seq, final, key, answer, jobs>>
        /\ content' = [content EXCEPT ![TurnOf(key[r])] = r]
    BY <1>2, <1>6 DEF SetContent, Phases, InHandler
  <2>2. \A j \in DOMAIN jobs : jobs[j].st = "answered" BY <2>1 DEF AnswerInv, NoTurnOpen
  <2>3. TurnOf(key[r]) \in Numbers BY <1>0, <2>1, TurnNumber
  <2>4. OwnContent'
    <3>1. content'[TurnOf(key[r])] = r BY <1>0, <2>1, <2>3
    <3>2. \A q \in Requests : q # r => pc'[q] # "publish"
      BY <1>1, <1>3, <2>1 DEF InHandler
    <3> QED BY <2>1, <3>1, <3>2 DEF OwnContent, TurnOf
  <2>5. OwnFinal' /\ OwnAnswer' BY <1>1, <2>1 DEF AnswerInv, OwnFinal, OwnAnswer
  <2> QED BY <1>4, <2>1, <2>2, <2>4, <2>5 DEF AnswerInv
<1>7. CASE Publish(r) \/ PublishFails(r)
  <2>1. /\ pc[r] = "publish" /\ pc'[r] = "touch" /\ seq' \in {seq, NextKey(r)}
    BY <1>7, PublishKeys
  <2>2. UNCHANGED <<content, final, key, answer, clientKey>>
    BY <1>7 DEF Publish, PublishFails
  <2>3. \A j \in DOMAIN jobs : jobs[j].st = "answered" BY <2>1 DEF AnswerInv, NoTurnOpen
  <2>4. \A q \in Requests : q # r => pc'[q] \notin InHandler \cup Waiting
    BY <1>1, <1>3, <2>1 DEF InHandler
  <2>5. OwnContent' BY <2>1, <2>4 DEF OwnContent, InHandler
  <2>6. OwnFinal' /\ OwnAnswer' BY <1>1, <2>1, <2>2 DEF AnswerInv, OwnFinal, OwnAnswer
  <2>7. CASE jobs' = jobs BY <1>4, <2>3, <2>5, <2>6, <2>7 DEF AnswerInv
  <2>8. CASE Publish(r) /\ JobJoins(TurnOf(key[r]), "queued", Nobody, NoKey)
    <3> DEFINE new == Len(jobs) + 1
    <3>1. /\ DOMAIN jobs' = DOMAIN jobs \cup {new}
          /\ jobs'[new] = [seq |-> TurnOf(key[r]), st |-> "queued", text |-> Nobody, next |-> NoKey]
          /\ \A j \in DOMAIN jobs : jobs'[j] = jobs[j]
      BY <2>8 DEF JobJoins
    <3> HIDE DEF new
    <3>2. \A j \in DOMAIN jobs' : Pending(j)' => j = new BY <2>3, <3>1 DEF Pending
    <3>3. key[r] \in Key /\ seq' = NextKey(r) BY <1>0, <2>1, <2>8 DEF Publish
    <3>4. NextKey(r).by = r /\ NextKey(r) # NoKey BY <3>3, NextKeyType
    <3>5. clientKey.by # r /\ key[r].by # r
      BY <1>0, <2>1, <3>3, ChatAssumption DEF KeyInv, Fresh, NotIssued, BeforePublish
    <3>6. seq' # clientKey' /\ seq' # key'[r] BY <2>2, <3>3, <3>4, <3>5
    <3>7. OneOpen'
      <4>1. \A j \in DOMAIN jobs' : j # new => jobs'[j].st = "answered" BY <2>3, <3>1
      <4> QED BY <3>2, <4>1 DEF OneOpen
    <3>8. NoTurnOpen' /\ NoneBehind'
      <4>1. \A q \in Requests : pc'[q] \notin {"content", "publish", "read"}
        BY <2>1, <2>4 DEF InHandler, Waiting
      <4> QED BY <3>6, <4>1 DEF NoTurnOpen, NoneBehind, HasAnswer
    <3>9. OwnTurn'
      <4>1. \A q \in Requests : pc'[q] \in Published => q = r
        BY <2>4 DEF Published, InHandler
      <4>2. content[TurnOf(key[r])] \in {r, Nobody} BY <2>1 DEF AnswerInv, OwnContent
      <4> QED BY <2>2, <3>1, <3>2, <3>6, <4>1, <4>2 DEF OwnTurn, TurnOf
    <3> QED BY <2>5, <2>6, <3>7, <3>8, <3>9 DEF AnswerInv
  <2> QED BY <1>1, <2>7, <2>8
<1>8. CASE Receive(r)
  <2>1. /\ pc[r] = "read" /\ pc'[r] = "replied" /\ Readable(inbox[r])
        /\ answer' = [answer EXCEPT ![r] = final[inbox[r].seq]]
        /\ UNCHANGED <<seq, content, key, jobs>>
    BY <1>2, <1>8 DEF Receive, Phases, Ended
  <2>2. \A j \in DOMAIN jobs : jobs[j].st = "answered"
    BY <2>1 DEF AnswerInv, NoTurnOpen, HasAnswer, Readable
  <2>3. OwnContent' BY <1>1, <2>1 DEF AnswerInv, OwnContent, TurnOf
  <2>4. OwnFinal' BY <1>1, <2>1 DEF AnswerInv, OwnFinal
  <2>5. OwnAnswer'
    <3>1. final[inbox[r].seq] = r BY <2>1 DEF AnswerInv, OwnFinal, Readable
    <3> QED BY <1>0, <1>1, <2>1, <3>1 DEF AnswerInv, OwnAnswer
  <2> QED BY <1>4, <2>1, <2>2, <2>3, <2>4, <2>5 DEF AnswerInv
<1> USE QuietAnswer, <1>2 DEF Published, Phases, InHandler, Waiting, Ended
<1>9. CASE Send(r) BY <1>9 DEF Send
<1>10. CASE CheckMeta(r) BY <1>10 DEF CheckMeta
<1>11. CASE CheckKey(r) /\ seq # key[r] BY <1>11 DEF CheckKey
<1>12. CASE Touch(r) BY <1>12 DEF Touch
<1>13. CASE HandlerDies(r) BY <1>13 DEF HandlerDies
<1>14. CASE Subscribe(r) BY <1>14 DEF Subscribe
<1>15. CASE GiveUp(r) BY <1>15 DEF GiveUp
<1>16. CASE ReceiveError(r) BY <1>16 DEF ReceiveError
<1> QED
  BY <1>5, <1>6, <1>7, <1>8, <1>9, <1>10, <1>11, <1>12, <1>13, <1>14, <1>15, <1>16
  DEF CallStep

\* What a service writes after its turn was given up is nobody's answer: the chat
\* does not go on after a turn that was not answered.
LEMMA LateDeliverAnswerInv ==
  ASSUME TypeInv, AnswerInv, NEW j \in DOMAIN jobs, LateDeliver(j)
  PROVE  AnswerInv'
<1>1. /\ UNCHANGED <<seq, content, callVars>>
      /\ jobs[j].st \in {"aborting", "aborted"}
      /\ jobs'[j].st = jobs[j].st /\ jobs'[j].seq = jobs[j].seq
      /\ DOMAIN jobs' = DOMAIN jobs
      /\ \A i \in DOMAIN jobs : i # j => jobs'[i] = jobs[i]
  BY JobActions DEF LateDeliver, JobBecomes
<1>2. /\ clientKey # seq
      /\ \A r \in Requests : pc[r] \notin {"content", "publish"} /\ ~HasAnswer(r)
  BY <1>1 DEF AnswerInv, NoTurnOpen
<1>3. \A i \in DOMAIN jobs : Pending(i) => i = j
  BY <1>1 DEF AnswerInv, OneOpen
<1>4. \A i \in DOMAIN jobs : jobs'[i].st = jobs[i].st /\ (Pending(i)' <=> Pending(i))
  BY <1>1 DEF Pending
<1>5. OneOpen' /\ NoTurnOpen' /\ NoneBehind'
  BY <1>1, <1>2, <1>4 DEF AnswerInv, OneOpen, NoTurnOpen, NoneBehind, HasAnswer, callVars
<1>6. OwnTurn'
  <2> SUFFICES ASSUME NEW r \in Requests, NEW i \in DOMAIN jobs, pc[r] \in Published, Pending(i)
               PROVE  /\ jobs'[i].seq = TurnOf(key[r])
                      /\ content[jobs'[i].seq] \in {r, Nobody}
                      /\ jobs'[i].st \notin {"serving", "served", "granted", "stamped"}
                      /\ seq # key[r]
    BY <1>1, <1>4 DEF OwnTurn, TurnOf, callVars
  <2>1. i = j BY <1>3
  <2> QED BY <1>1, <2>1 DEF AnswerInv, OwnTurn
<1>7. OwnContent' BY <1>1, <1>2 DEF OwnContent, callVars
<1>8. OwnFinal' BY <1>1, <1>2 DEF OwnFinal, HasAnswer, callVars
<1>9. OwnAnswer' BY <1>1 DEF AnswerInv, OwnAnswer, callVars
<1> QED BY <1>5, <1>6, <1>7, <1>8, <1>9 DEF AnswerInv

\* The pipeline works on the open turn and on no other, with the text of the
\* call that waits for it.
LEMMA JobStepAnswerInv ==
  ASSUME TypeInv, redelivered' = 0, AnswerInv, NEW j \in DOMAIN jobs, JobStep(j),
         ~LateDeliver(j)
  PROVE  AnswerInv'
<1>0. /\ jobs[j].seq \in Numbers /\ content \in [Numbers -> Texts] /\ final \in [Numbers -> Texts]
  BY JobType DEF TypeInv, TypeOK
<1>1. /\ UNCHANGED <<meta, seq, content, key, answer, clientKey, sweep>>
      /\ Pending(j)
      /\ DOMAIN jobs' = DOMAIN jobs
      /\ jobs'[j].seq = jobs[j].seq
      /\ \A i \in DOMAIN jobs : i # j => jobs'[i] = jobs[i]
      /\ ~Redeliver(j) /\ ~Overtake(j)
  BY JobFrame
<1>2. \A i \in DOMAIN jobs : i # j => jobs[i].st = "answered"
  BY <1>1 DEF AnswerInv, OneOpen
<1>3. \A i \in DOMAIN jobs : Pending(i)' => i = j
  BY <1>1, <1>2 DEF Pending
<1>4. clientKey # seq /\ \A r \in Requests : pc[r] \notin {"content", "publish", "read"}
  BY <1>1 DEF AnswerInv, NoTurnOpen, NoneBehind, Pending
<1>5. \A r \in Requests :
        \/ pc'[r] = pc[r] /\ inbox'[r] = inbox[r]
        \/ /\ pc[r] = "reading" /\ pc'[r] = "read"
           /\ Post(j)
           /\ inbox'[r] = [ok |-> TRUE, seq |-> jobs[j].seq, next |-> jobs[j].next, pwd |-> j]
        \/ /\ pc[r] = "reading" /\ pc'[r] = "read"
           /\ PostError(j)
           /\ ~inbox'[r].ok
  BY WokenUp
<1>6. OneOpen' BY <1>1, <1>2, <1>3 DEF OneOpen
<1>7. NoTurnOpen' /\ NoneBehind'
  <2>1. Post(j) => jobs'[j].st = "answered" BY JobActions DEF JobBecomes
  <2>2. PostError(j) => jobs'[j].st = "aborted" BY JobActions DEF JobBecomes
  <2>3. Post(j) => \A i \in DOMAIN jobs : jobs'[i].st = "answered" BY <1>1, <1>2, <2>1
  <2>4. Post(j) \/ PostError(j) => \A i \in DOMAIN jobs : ~Pending(i)'
    BY <1>3, <2>1, <2>2 DEF Pending
  <2>5. NoTurnOpen' BY <1>1, <1>4, <1>5, <2>3 DEF NoTurnOpen, HasAnswer
  <2>6. NoneBehind' BY <1>1, <1>4, <1>5, <2>4 DEF NoneBehind
  <2> QED BY <2>5, <2>6
<1>8. OwnContent' BY <1>1, <1>4, <1>5 DEF OwnContent
<1>9. OwnFinal'
  <2> SUFFICES ASSUME NEW r \in Requests, pc'[r] = "read", inbox'[r].ok
               PROVE  final'[inbox'[r].seq] \in {r, Nobody}
    BY DEF OwnFinal
  <2>1. /\ pc[r] = "reading" /\ Post(j)
        /\ inbox'[r] = [ok |-> TRUE, seq |-> jobs[j].seq, next |-> jobs[j].next, pwd |-> j]
    BY <1>4, <1>5
  <2>2. final[jobs[j].seq] \in {r, Nobody}
    BY <1>1, <2>1 DEF AnswerInv, OwnTurn, Published, Waiting, Post
  <2>3. final' = final /\ inbox'[r].seq = jobs[j].seq BY <2>1 DEF Post, redisVars
  <2> QED BY <2>2, <2>3
<1>10. OwnAnswer' BY <1>1, <1>5 DEF AnswerInv, OwnAnswer
<1>11. OwnTurn'
  <2> SUFFICES ASSUME NEW r \in Requests, pc'[r] \in Published, Pending(j)'
               PROVE  /\ jobs'[j].seq = TurnOf(key'[r])
                      /\ content'[jobs'[j].seq] \in {r, Nobody}
                      /\ jobs'[j].st = "serving" => jobs'[j].text = r
                      /\ jobs'[j].st \in {"served", "granted", "stamped"}
                           => final'[jobs'[j].seq] \in {r, Nobody}
                      /\ seq' # key'[r]
    BY <1>1, <1>3 DEF OwnTurn, TurnOf
  <2>1. pc[r] \in Published BY <1>5 DEF Published, Waiting
  <2>2. /\ jobs[j].seq = TurnOf(key[r])
        /\ content[jobs[j].seq] \in {r, Nobody}
        /\ jobs[j].st = "serving" => jobs[j].text = r
        /\ jobs[j].st \in {"served", "granted", "stamped"} => final[jobs[j].seq] \in {r, Nobody}
        /\ seq # key[r]
    BY <1>1, <2>1 DEF AnswerInv, OwnTurn
  <2>3. jobs'[j].st = "serving" => jobs'[j].text = r
    BY <1>1, <2>2, JobActions DEF JobStep, JobBecomes, Serve
  <2>4. jobs'[j].st \in {"served", "granted", "stamped"} => final'[jobs[j].seq] \in {r, Nobody}
    <3>1. CASE Deliver(j)
      BY <1>0, <2>2, <3>1 DEF Deliver
    <3>2. CASE Grant(j) \/ Stamp(j) \/ StampFails(j) \/ PostFails(j)
      BY <2>2, <3>2 DEF Grant, Stamp, StampFails, PostFails, redisVars
    <3>3. CASE Serve(j) \/ Post(j) \/ Abort(j) \/ PostError(j) \/ PostErrorFails(j)
      BY <3>3, JobActions DEF JobBecomes
    <3> QED BY <1>1, <3>1, <3>2, <3>3 DEF JobStep
  <2> QED BY <1>1, <2>2, <2>3, <2>4
<1> QED BY <1>6, <1>7, <1>8, <1>9, <1>10, <1>11 DEF AnswerInv

\* What the cleanup takes away belongs to nobody else afterwards.
LEMMA SweepStepAnswerInv ==
  ASSUME TypeInv, AnswerInv, SweepStep \/ Expire
  PROVE  AnswerInv'
<1>0. /\ clientKey \in Key /\ \A r \in Requests : pc[r] # "new" => key[r] \in Key
      /\ \A i \in DOMAIN jobs : jobs[i].seq \in Numbers
      /\ \A r \in Requests : pc[r] = "read" => inbox[r].seq \in Numbers
  <2>1. \A i \in DOMAIN jobs : jobs[i].seq \in Numbers BY JobType DEF TypeInv, TypeOK
  <2>2. \A r \in Requests : pc[r] = "read" => inbox[r].seq \in Numbers
    BY DEF TypeInv, HasEntry, Entry
  <2> QED BY <2>1, <2>2 DEF TypeInv, TypeOK, HasKey
<1>1. /\ UNCHANGED callVars
      /\ seq' \in {seq, NoKey}
      /\ \A n \in Numbers : /\ content'[n] \in {content[n], Nobody}
                            /\ final'[n] \in {final[n], Nobody}
      /\ DOMAIN jobs' = DOMAIN jobs
      /\ \A i \in DOMAIN jobs :
           /\ jobs'[i].seq = jobs[i].seq
           /\ \/ jobs'[i] = jobs[i]
              \/ jobs[i].st = "serving" /\ jobs'[i].st = "queued"
              \/ /\ jobs[i].st # "serving" /\ jobs'[i].st = jobs[i].st
                 /\ jobs'[i].next = jobs[i].next
  BY SweepFrame
<1>2. \A i \in DOMAIN jobs :
        /\ Pending(i)' <=> Pending(i)
        /\ jobs[i].st = "answered" => jobs'[i].st = "answered"
  BY <1>1 DEF Pending
<1>3. OneOpen' BY <1>1, <1>2 DEF AnswerInv, OneOpen
<1>4. NoTurnOpen' /\ NoneBehind'
  BY <1>0, <1>1, <1>2, ChatAssumption DEF AnswerInv, NoTurnOpen, NoneBehind, HasAnswer, callVars
<1>5. OwnTurn'
  <2> SUFFICES ASSUME NEW r \in Requests, NEW j \in DOMAIN jobs,
                      pc[r] \in Published, Pending(j)
               PROVE  /\ jobs'[j].seq = TurnOf(key[r])
                      /\ content'[jobs'[j].seq] \in {r, Nobody}
                      /\ jobs'[j].st = "serving" => jobs'[j].text = r
                      /\ jobs'[j].st \in {"served", "granted", "stamped"}
                           => final'[jobs'[j].seq] \in {r, Nobody}
                      /\ seq' # key[r]
    BY <1>1, <1>2 DEF OwnTurn, TurnOf, callVars
  <2>1. key[r] # NoKey BY <1>0, ChatAssumption DEF Published, Waiting
  <2>2. /\ jobs[j].seq = TurnOf(key[r])
        /\ content[jobs[j].seq] \in {r, Nobody}
        /\ jobs[j].st = "serving" => jobs[j].text = r
        /\ jobs[j].st \in {"served", "granted", "stamped"} => final[jobs[j].seq] \in {r, Nobody}
        /\ seq # key[r]
    BY DEF AnswerInv, OwnTurn
  <2>3. jobs[j].seq \in Numbers BY <1>0
  <2> QED BY <1>1, <2>1, <2>2, <2>3
<1>6. OwnContent'
  <2> SUFFICES ASSUME NEW r \in Requests, pc[r] = "publish"
               PROVE  content'[TurnOf(key[r])] \in {r, Nobody}
    BY <1>1 DEF OwnContent, TurnOf, callVars
  <2>1. TurnOf(key[r]) \in Numbers BY <1>0, TurnNumber
  <2> QED BY <1>1, <2>1 DEF AnswerInv, OwnContent
<1>7. OwnFinal' BY <1>0, <1>1 DEF AnswerInv, OwnFinal, callVars
<1>8. OwnAnswer' BY <1>1 DEF AnswerInv, OwnAnswer, callVars
<1> QED BY <1>3, <1>4, <1>5, <1>6, <1>7, <1>8 DEF AnswerInv

\* A step that changes nothing keeps the answers.
LEMMA StutterAnswerInv == AnswerInv /\ UNCHANGED vars => AnswerInv'
BY DEF AnswerInv, OneOpen, NoTurnOpen, NoneBehind, HasAnswer, OwnTurn, OwnContent, OwnFinal, OwnAnswer,
       Pending, TurnOf, vars, redisVars, callVars, historyVars

\* Every step keeps every answer with its call, until a finalization is repeated.
LEMMA NextAnswerInv ==
  ASSUME TypeInv, KeyInv, redelivered = 0 => AnswerInv, [Next]_vars
  PROVE  (redelivered = 0 => AnswerInv)'
<1> SUFFICES ASSUME redelivered' = 0 PROVE AnswerInv' OBVIOUS
<1>1. AnswerInv BY RepeatsKept
<1> QED
  BY <1>1, CallStepAnswerInv, JobStepAnswerInv, LateDeliverAnswerInv, SweepStepAnswerInv,
     StutterAnswerInv DEF Next

\* A turn that is open, its text and its final content are the waiting call's.
THEOREM AnswersHold ==
  ASSUME Locked
  PROVE  Spec => [](redelivered = 0 => AnswerInv)
<1> DEFINE Inv == redelivered = 0 => AnswerInv
<1>1. Init => Inv BY InitAnswerInv
<1>2. TypeInv /\ KeyInv /\ Inv /\ [Next]_vars => Inv' BY NextAnswerInv
<1>3. Spec => []KeyInv BY KeysHold
<1> HIDE DEF Inv
<1>4. Spec => []Inv BY <1>1, <1>2, <1>3, TypesHold, PTL DEF Spec
<1> QED BY <1>4 DEF Inv

\* A reply answers the request it is the reply of.
THEOREM RepliesAreOwn ==
  ASSUME Locked
  PROVE  Spec => []FirstAnswerOwn
<1>1. (redelivered = 0 => AnswerInv) => FirstAnswerOwn BY DEF AnswerInv, FirstAnswerOwn
<1>2. Spec => [](redelivered = 0 => AnswerInv) BY AnswersHold
<1> QED BY <1>1, <1>2, PTL

\* The pipeline never works on two turns of the chat.
THEOREM OneTurn ==
  ASSUME Locked
  PROVE  Spec => []OneTurnAtATime
<1>1. (redelivered = 0 => AnswerInv) => OneTurnAtATime
  BY DEF AnswerInv, OneOpen, OneTurnAtATime, Pending
<1>2. Spec => [](redelivered = 0 => AnswerInv) BY AnswersHold
<1> QED BY <1>1, <1>2, PTL

-----------------------------------------------------------------------------
(* Answers can be read *)

\* What a service works on is a text.
HasText == \A j \in DOMAIN jobs : jobs[j].st = "serving" => jobs[j].text # Nobody

\* A turn that was served has its final content, unless the chat was swept away.
HasFinal ==
  \A j \in DOMAIN jobs :
    jobs[j].st \in {"served", "granted", "stamped"} => final[jobs[j].seq] # Nobody \/ ~meta

\* The credentials are those of the turn that is about to be answered.
HasGrant == \A j \in DOMAIN jobs : jobs[j].st \in {"granted", "stamped"} => acl = j \/ ~meta

\* Once the sweep has removed keys, METADATA_ is gone.
SweptMeta == sweep \in {"maintain", "users", "forget"} => ~meta

\* A reader that has been given an answer can read it.
CanRead == \A r \in Requests : HasAnswer(r) => Readable(inbox[r]) \/ ~meta

ReadInv == HasText /\ HasFinal /\ HasGrant /\ SweptMeta /\ CanRead

\* A chat begins without a turn, a sweep and a reader.
LEMMA InitReadInv == Init => ReadInv
<1> SUFFICES ASSUME Init PROVE ReadInv OBVIOUS
<1>1. DOMAIN jobs = {} BY DEF Init
<1> QED
  BY <1>1 DEF Init, ReadInv, HasText, HasFinal, HasGrant, SweptMeta, CanRead, HasAnswer

\* Calls neither take credentials nor content away.
LEMMA CallStepReadInv ==
  ASSUME TypeInv, ReadInv, NEW r \in Requests, CallStep(r)
  PROVE  ReadInv'
<1>1. /\ UNCHANGED <<meta, final, acl, sweep, inbox>>
      /\ \A q \in Requests : q # r => pc'[q] = pc[q] /\ key'[q] = key[q]
      /\ pc'[r] \notin {"new", "read"}
      /\ \/ jobs' = jobs
         \/ Publish(r) /\ JobJoins(TurnOf(key[r]), "queued", Nobody, NoKey)
  BY CallFrame
<1>2. \A j \in DOMAIN jobs' :
        \/ jobs'[j].st = "queued"
        \/ j \in DOMAIN jobs /\ jobs'[j] = jobs[j]
  <2>1. CASE jobs' = jobs BY <2>1
  <2>2. CASE JobJoins(TurnOf(key[r]), "queued", Nobody, NoKey) BY <2>2 DEF JobJoins
  <2> QED BY <1>1, <2>1, <2>2
<1>3. HasText' /\ HasFinal' /\ HasGrant' /\ SweptMeta'
  BY <1>1, <1>2 DEF ReadInv, HasText, HasFinal, HasGrant, SweptMeta
<1>4. CanRead' BY <1>1 DEF ReadInv, CanRead, HasAnswer, Readable
<1> QED BY <1>3, <1>4 DEF ReadInv

\* The one turn at work cannot take away what another one was granted or given:
\* when its answer is posted, it can be read.
LEMMA JobStepReadInv ==
  ASSUME TypeInv, redelivered' = 0, AnswerInv, ReadInv, NEW j \in DOMAIN jobs, JobStep(j),
         ~LateDeliver(j)
  PROVE  ReadInv'
<1>0. /\ jobs[j].seq \in Numbers /\ final \in [Numbers -> Texts]
  BY JobType DEF TypeInv, TypeOK
<1>1. /\ UNCHANGED <<meta, seq, content, key, answer, clientKey, sweep>>
      /\ Pending(j)
      /\ DOMAIN jobs' = DOMAIN jobs
      /\ jobs'[j].seq = jobs[j].seq
      /\ \A i \in DOMAIN jobs : i # j => jobs'[i] = jobs[i]
      /\ ~Redeliver(j) /\ ~Overtake(j)
  BY JobFrame
<1>2. \A i \in DOMAIN jobs : i # j => jobs'[i].st = "answered"
  BY <1>1 DEF AnswerInv, OneOpen
<1>3. \A r \in Requests : pc[r] # "read"
  BY <1>1 DEF AnswerInv, NoneBehind
<1>4. HasText'
  <2>1. jobs'[j].st = "serving" => jobs'[j].text # Nobody
    BY <1>1, JobActions DEF JobStep, JobBecomes, Serve
  <2> QED BY <1>1, <1>2, <2>1 DEF HasText
<1>5. HasFinal'
  <2>1. jobs'[j].st \in {"served", "granted", "stamped"} => final'[jobs[j].seq] # Nobody \/ ~meta
    <3>1. CASE Deliver(j)
      BY <1>0, <3>1 DEF Deliver, ReadInv, HasText
    <3>2. CASE Grant(j) \/ Stamp(j) \/ StampFails(j) \/ PostFails(j)
      BY <3>2 DEF Grant, Stamp, StampFails, PostFails, redisVars, ReadInv, HasFinal
    <3>3. CASE Serve(j) \/ Post(j) \/ Abort(j) \/ PostError(j) \/ PostErrorFails(j)
      BY <3>3, JobActions DEF JobBecomes
    <3> QED BY <1>1, <3>1, <3>2, <3>3 DEF JobStep
  <2> QED BY <1>1, <1>2, <2>1 DEF HasFinal
<1>6. HasGrant'
  <2>1. jobs'[j].st \in {"granted", "stamped"} => acl' = j \/ ~meta
    <3>1. CASE Grant(j) BY <3>1 DEF Grant
    <3>2. CASE Stamp(j) BY <3>2 DEF Stamp, redisVars, ReadInv, HasGrant
    <3>3. CASE \/ Serve(j) \/ Deliver(j) \/ StampFails(j) \/ PostFails(j) \/ Post(j)
               \/ Abort(j) \/ PostError(j) \/ PostErrorFails(j)
      BY <3>3, JobActions DEF JobBecomes
    <3> QED BY <1>1, <3>1, <3>2, <3>3 DEF JobStep
  <2> QED BY <1>1, <1>2, <2>1 DEF HasGrant
<1>7. SweptMeta' BY <1>1 DEF ReadInv, SweptMeta
<1>8. CanRead'
  <2> SUFFICES ASSUME NEW r \in Requests, pc'[r] = "read", inbox'[r].ok
               PROVE  Readable(inbox[r])' \/ ~meta'
    BY DEF CanRead, HasAnswer
  <2>1. /\ Post(j)
        /\ inbox'[r] = [ok |-> TRUE, seq |-> jobs[j].seq, next |-> jobs[j].next, pwd |-> j]
    BY <1>3, WokenUp
  <2>2. (acl = j /\ final[jobs[j].seq] # Nobody) \/ ~meta
    BY <2>1 DEF Post, ReadInv, HasGrant, HasFinal
  <2>3. acl' = acl /\ final' = final BY <2>1 DEF Post, redisVars
  <2>4. inbox'[r].ok /\ inbox'[r].seq = jobs[j].seq /\ inbox'[r].pwd = j BY <2>1
  <2> QED BY <1>1, <2>2, <2>3, <2>4 DEF Readable
<1> QED BY <1>4, <1>5, <1>6, <1>7, <1>8 DEF ReadInv

\* A late write adds a final content and takes nothing away.
LEMMA LateDeliverReadInv ==
  ASSUME TypeInv, ReadInv, NEW j \in DOMAIN jobs, LateDeliver(j)
  PROVE  ReadInv'
<1>0. /\ jobs[j].seq \in Numbers /\ final \in [Numbers -> Texts]
      /\ \A i \in DOMAIN jobs : jobs[i].seq \in Numbers
      /\ \A r \in Requests : pc[r] = "read" => inbox[r].seq \in Numbers
  <2>1. \A i \in DOMAIN jobs : jobs[i].seq \in Numbers BY JobType DEF TypeInv, TypeOK
  <2>2. \A r \in Requests : pc[r] = "read" => inbox[r].seq \in Numbers
    BY DEF TypeInv, HasEntry, Entry
  <2> QED BY <2>1, <2>2 DEF TypeInv, TypeOK
<1>1. /\ UNCHANGED <<meta, acl, sweep, callVars>>
      /\ jobs[j].st \in {"aborting", "aborted"}
      /\ \A n \in Numbers : final[n] # Nobody => final'[n] # Nobody
  BY <1>0 DEF LateDeliver
<1>2. /\ DOMAIN jobs' = DOMAIN jobs
      /\ jobs'[j].st = jobs[j].st
      /\ \A i \in DOMAIN jobs : i # j => jobs'[i] = jobs[i]
  BY JobActions DEF JobBecomes
<1>3. HasText' /\ HasFinal' /\ HasGrant' /\ SweptMeta'
  BY <1>0, <1>1, <1>2 DEF ReadInv, HasText, HasFinal, HasGrant, SweptMeta
<1>4. CanRead' BY <1>0, <1>1 DEF ReadInv, CanRead, HasAnswer, Readable, callVars
<1> QED BY <1>3, <1>4 DEF ReadInv

\* The sweep removes METADATA_ before or with anything that an answer needs.
LEMMA SweepStepReadInv ==
  ASSUME TypeInv, ReadInv, SweepStep \/ Expire
  PROVE  ReadInv'
<1>1. /\ UNCHANGED callVars
      /\ meta' => meta /\ final' = final
      /\ acl' = acl \/ sweep = "users"
      /\ sweep' \in {"maintain", "users", "forget"} /\ meta' =>
           sweep \in {"maintain", "users", "forget"} /\ meta
      /\ DOMAIN jobs' = DOMAIN jobs
      /\ \A i \in DOMAIN jobs :
           /\ jobs'[i].seq = jobs[i].seq
           /\ \/ jobs'[i] = jobs[i]
              \/ jobs[i].st = "serving" /\ jobs'[i].st = "queued"
              \/ /\ jobs[i].st # "serving" /\ jobs'[i].st = jobs[i].st
                 /\ jobs'[i].next = jobs[i].next
  BY SweepFrame
<1>2. meta' => meta /\ final' = final /\ acl' = acl BY <1>1 DEF ReadInv, SweptMeta
<1>3. HasText' BY <1>1 DEF ReadInv, HasText
<1>4. HasFinal' BY <1>1, <1>2 DEF ReadInv, HasFinal
<1>5. HasGrant' BY <1>1, <1>2 DEF ReadInv, HasGrant
<1>6. SweptMeta' BY <1>1 DEF ReadInv, SweptMeta
<1>7. CanRead' BY <1>1, <1>2 DEF ReadInv, CanRead, HasAnswer, Readable, callVars
<1> QED BY <1>3, <1>4, <1>5, <1>6, <1>7 DEF ReadInv

\* A step that changes nothing keeps answers readable.
LEMMA StutterReadInv == ReadInv /\ UNCHANGED vars => ReadInv'
BY DEF ReadInv, HasText, HasFinal, HasGrant, SweptMeta, CanRead, HasAnswer, Readable,
       vars, redisVars, callVars, historyVars

\* Every step keeps answers readable, until a finalization is repeated.
LEMMA NextReadInv ==
  ASSUME TypeInv, redelivered = 0 => AnswerInv, redelivered = 0 => ReadInv, [Next]_vars
  PROVE  (redelivered = 0 => ReadInv)'
<1> SUFFICES ASSUME redelivered' = 0 PROVE ReadInv' OBVIOUS
<1>1. AnswerInv /\ ReadInv BY RepeatsKept
<1> QED
  BY <1>1, CallStepReadInv, JobStepReadInv, LateDeliverReadInv, SweepStepReadInv,
     StutterReadInv DEF Next

\* An answer that has reached its reader can be read, unless the chat is gone.
THEOREM AnswersCanBeRead ==
  ASSUME Locked
  PROVE  Spec => []AnswerReadable
<1> DEFINE A == redelivered = 0 => AnswerInv
           R == redelivered = 0 => ReadInv
<1>1. Init => R BY InitReadInv
<1>2. TypeInv /\ A /\ R /\ [Next]_vars => R' BY NextReadInv
<1>3. R => AnswerReadable BY DEF ReadInv, CanRead, HasAnswer, AnswerReadable
<1>4. Spec => []A BY AnswersHold
<1> HIDE DEF A, R
<1> QED BY <1>1, <1>2, <1>3, <1>4, TypesHold, PTL DEF Spec

-----------------------------------------------------------------------------
(* The chat can go on *)

\* The answer about to be posted carries the key in SEQ_ ...
StampedKey ==
  \A j \in DOMAIN jobs : jobs[j].st = "stamped" => seq \in {jobs[j].next, NoKey}

\* ... and so does the one that a reader was woken up with.
EntryKey ==
  \A r \in Requests : pc[r] = "read" /\ inbox[r].ok => seq \in {inbox[r].next, NoKey}

\* Before a call publishes, and after the last one was answered, the client has
\* the key in SEQ_.
Settled ==
  (\A r \in Requests : pc[r] \notin {"failed"} \cup Published) => seq \in {clientKey, NoKey}

GoOnInv == StampedKey /\ EntryKey /\ Settled

\* InitReq returns the key it has set.
LEMMA InitGoOnInv == Init => GoOnInv
<1> SUFFICES ASSUME Init PROVE GoOnInv OBVIOUS
<1>1. DOMAIN jobs = {} BY DEF Init
<1> QED BY <1>1 DEF Init, GoOnInv, StampedKey, EntryKey, Settled

\* A call moves SEQ_ on while no turn is open, and takes over the key that came
\* with its answer.
LEMMA CallStepGoOnInv ==
  ASSUME TypeInv, KeyInv, AnswerInv, GoOnInv, NEW r \in Requests, CallStep(r)
  PROVE  GoOnInv'
<1>1. /\ UNCHANGED <<meta, final, acl, sweep, inbox>>
      /\ \A q \in Requests : q # r => pc'[q] = pc[q] /\ key'[q] = key[q]
      /\ pc'[r] \notin {"new", "read"}
      /\ \/ jobs' = jobs
         \/ Publish(r) /\ JobJoins(TurnOf(key[r]), "queued", Nobody, NoKey)
  BY CallFrame
<1>2. \A j \in DOMAIN jobs' :
        \/ jobs'[j].st = "queued"
        \/ j \in DOMAIN jobs /\ jobs'[j] = jobs[j]
  <2>1. CASE jobs' = jobs BY <2>1
  <2>2. CASE JobJoins(TurnOf(key[r]), "queued", Nobody, NoKey) BY <2>2 DEF JobJoins
  <2> QED BY <1>1, <2>1, <2>2
<1>3. CASE Publish(r) \/ PublishFails(r)
  <2>1. pc[r] = "publish" /\ pc'[r] = "touch" BY <1>3, PublishKeys
  <2>2. \A j \in DOMAIN jobs : ~Pending(j) BY <2>1 DEF AnswerInv, NoTurnOpen, Pending
  <2>3. \A q \in Requests : pc'[q] # "read"
    BY <1>1, <2>1 DEF KeyInv, OneInFlight, InFlight, InHandler, Waiting
  <2>4. StampedKey' BY <1>2, <2>2 DEF StampedKey, Pending
  <2>5. EntryKey' BY <2>3 DEF EntryKey
  <2>6. Settled' BY <2>1 DEF Settled, Published
  <2> QED BY <2>4, <2>5, <2>6 DEF GoOnInv
<1>4. CASE Receive(r)
  <2>1. /\ pc[r] = "read" /\ Readable(inbox[r]) /\ clientKey' = inbox[r].next
        /\ UNCHANGED <<seq, jobs>>
    BY <1>4 DEF Receive, redisVars
  <2>2. StampedKey' BY <2>1 DEF GoOnInv, StampedKey
  <2>3. EntryKey' BY <1>1, <2>1 DEF GoOnInv, EntryKey
  <2>4. seq \in {inbox[r].next, NoKey} BY <2>1 DEF GoOnInv, EntryKey, Readable
  <2>5. Settled' BY <2>1, <2>4 DEF Settled
  <2> QED BY <2>2, <2>3, <2>5 DEF GoOnInv
<1>5. CASE ~Publish(r) /\ ~PublishFails(r) /\ ~Receive(r)
  <2>1. UNCHANGED <<seq, clientKey, jobs>>
    BY <1>5 DEF CallStep, Send, CheckMeta, CheckKey, SetContent, Touch, HandlerDies,
         Subscribe, GiveUp, ReceiveError, redisVars
  <2>2. StampedKey' BY <2>1 DEF GoOnInv, StampedKey
  <2>3. EntryKey' BY <1>1, <2>1 DEF GoOnInv, EntryKey
  <2>4. pc[r] \in {"failed"} \cup Published => pc'[r] \in {"failed"} \cup Published
    <3>1. pc \in [Requests -> Phases] BY DEF TypeInv, TypeOK, Phases
    <3>2. \A p \in Phases : Goto(r, p) => pc'[r] = p BY <3>1, GotoFacts
    <3> QED
      BY <1>5, <3>2 DEF CallStep, Send, CheckMeta, CheckKey, SetContent, Touch,
        HandlerDies,
         Subscribe, GiveUp, ReceiveError, Published, Phases, InHandler, Waiting, Ended
  <2>5. Settled' BY <1>1, <2>1, <2>4 DEF GoOnInv, Settled
  <2> QED BY <2>2, <2>3, <2>5 DEF GoOnInv
<1> QED BY <1>3, <1>4, <1>5

\* The finalizer stamps the answer with the key in SEQ_, which stays until the
\* answer has been received.
LEMMA JobStepGoOnInv ==
  ASSUME TypeInv, redelivered' = 0, AnswerInv, GoOnInv, NEW j \in DOMAIN jobs, JobStep(j)
  PROVE  GoOnInv'
<1>1. /\ UNCHANGED <<meta, seq, content, key, answer, clientKey, sweep>>
      /\ jobs[j].st # "answered" /\ (~Pending(j) => LateDeliver(j))
      /\ DOMAIN jobs' = DOMAIN jobs
      /\ \A i \in DOMAIN jobs : i # j => jobs'[i] = jobs[i]
      /\ ~Redeliver(j) /\ ~Overtake(j)
  BY JobFrame
<1>2. StampedKey'
  <2>1. jobs'[j].st = "stamped" => jobs'[j].next = seq
    <3>1. LateDeliver(j) => jobs'[j].st = jobs[j].st /\ jobs[j].st # "stamped"
      BY JobActions DEF LateDeliver, JobBecomes
    <3> QED BY <1>1, <3>1, JobActions DEF JobStep, JobBecomes
  <2> QED BY <1>1, <2>1 DEF GoOnInv, StampedKey
<1>3. \A r \in Requests : ~HasAnswer(r)
  BY <1>1 DEF AnswerInv, NoTurnOpen
<1>4. EntryKey'
  <2> SUFFICES ASSUME NEW r \in Requests, pc'[r] = "read", inbox'[r].ok
               PROVE  seq \in {inbox'[r].next, NoKey}
    BY <1>1 DEF EntryKey
  <2>1. /\ Post(j)
        /\ inbox'[r] = [ok |-> TRUE, seq |-> jobs[j].seq, next |-> jobs[j].next, pwd |-> j]
    BY <1>3, WokenUp DEF HasAnswer
  <2>2. inbox'[r].next = jobs[j].next BY <2>1
  <2> QED BY <2>1, <2>2 DEF Post, GoOnInv, StampedKey
<1>5. \A r \in Requests : pc'[r] \notin {"failed"} \cup Published => pc[r] \notin {"failed"} \cup Published
  BY WokenUp DEF Published, Waiting
<1>6. Settled' BY <1>1, <1>5 DEF GoOnInv, Settled
<1> QED BY <1>2, <1>4, <1>6 DEF GoOnInv

\* The sweep leaves SEQ_ or removes it.
LEMMA SweepStepGoOnInv ==
  ASSUME TypeInv, GoOnInv, SweepStep \/ Expire
  PROVE  GoOnInv'
<1>1. /\ UNCHANGED callVars
      /\ seq' \in {seq, NoKey}
      /\ DOMAIN jobs' = DOMAIN jobs
      /\ \A i \in DOMAIN jobs :
           /\ jobs'[i].seq = jobs[i].seq
           /\ \/ jobs'[i] = jobs[i]
              \/ jobs[i].st = "serving" /\ jobs'[i].st = "queued"
              \/ /\ jobs[i].st # "serving" /\ jobs'[i].st = jobs[i].st
                 /\ jobs'[i].next = jobs[i].next
  BY SweepFrame
<1> QED BY <1>1 DEF GoOnInv, StampedKey, EntryKey, Settled, callVars

\* A step that changes nothing keeps the client's key.
LEMMA StutterGoOnInv == GoOnInv /\ UNCHANGED vars => GoOnInv'
BY DEF GoOnInv, StampedKey, EntryKey, Settled, vars, redisVars, callVars, historyVars

\* Every step keeps the client's key, until a finalization is repeated.
LEMMA NextGoOnInv ==
  ASSUME TypeInv, KeyInv, redelivered = 0 => AnswerInv, redelivered = 0 => GoOnInv, [Next]_vars
  PROVE  (redelivered = 0 => GoOnInv)'
<1> SUFFICES ASSUME redelivered' = 0 PROVE GoOnInv' OBVIOUS
<1>1. AnswerInv /\ GoOnInv BY RepeatsKept
<1> QED
  BY <1>1, CallStepGoOnInv, JobStepGoOnInv, SweepStepGoOnInv, StutterGoOnInv DEF Next

\* As long as every request was refused at the door or answered, the client
\* holds the key that the gateway waits for.
THEOREM ChatsGoOn ==
  ASSUME Locked
  PROVE  Spec => []CanGoOn
<1> DEFINE A == redelivered = 0 => AnswerInv
           G == redelivered = 0 => GoOnInv
<1>1. Init => G BY InitGoOnInv
<1>2. TypeInv /\ KeyInv /\ A /\ G /\ [Next]_vars => G' BY NextGoOnInv
<1>3. G => CanGoOn BY DEF GoOnInv, Settled, CanGoOn, Published, Waiting
<1>4. Spec => []A BY AnswersHold
<1>5. Spec => []KeyInv BY KeysHold
<1> HIDE DEF A, G
<1> QED BY <1>1, <1>2, <1>3, <1>4, <1>5, TypesHold, PTL DEF Spec

=============================================================================
