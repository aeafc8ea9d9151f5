# A TLA+ development of the anonymizer suite

The suite anonymizes prompts on their way to an LLM. A user's text enters the
gateway, passes a pipeline of stages (cipher, LLM, decipher, finalizer), and its
answer comes back through a Redis stream. This directory holds TLA+ models of
the parts of it that are hard to get right, the TLC runs that check them and
the TLAPS proofs about them. Paths below are relative to the repository.

## 1. Inventory

| Component | State | Operations | Meets the others through |
|---|---|---|---|
| **Gateway: worker pipeline** (`ext-llm-gateway/orchestrator/synchronizer.go`, `workers.go`, `cmd/main.go`) | one stream with a consumer group per stage; per thread its place in the loop and `restartCount` | fetch, reclaim, work, acknowledge-and-publish, delete old, panic, restart | Redis; calls `Dowork` of the dispatchers |
| **Gateway: sequencing** (`workerhandlers.go`) | `SEQ_`, `METADATA_`, `STREAM_<chat>`, the active-sessions ZSet | `InitReq`, `SetReqFromAdapterInternal`, `cleanupExpiredSessions` | writes the first stage's stream; read by adapters |
| **Gateway: dispatchers** (`registry/dispatchers`) | `llmRepWorkerIND`, the JIT Redis users | `RestAPIDispatcher.Dowork`, `RedisAclFinalizer.Dowork` | HTTP to cipher and mediator with one-message credentials |
| **Gateway: endpoints, registry, configuration** | none of their own | init, set request (with or without waiting) | the web clients and adapters |
| **Web adapter** (`ext-llm-webadapter`) | chat sessions with owner, stream password and time of last use | login, `InitChat`, `SendMessage`, `AwaitContent`, session cleanup | HTTP to the gateway, XREAD on `STREAM_<chat>` |
| **Clients** (`ext-llm-web`, `ext-llm-frontend`) | next request key, in-flight flag (Flutter only) | start a chat, send | web adapter, or the gateway directly |
| **Mediator** (`llm-gemini-mediator`) | session cache per chat, the LLM's own history | `ProcessRedisContent`, `CreateSession`, history reconstruction | called by stage 1; reads and writes content keys |
| **Cipher 2** (`ext-llm-cipher2`), and the older **cipher 1** | per-chat entity model, in a process cache and in a meta key | `cipher`, `decipher`, the taggers | called by stages 0 and 2 |
| **Poor man's Claude** (`poor-man-claude`) | sessions and turns, `activeJob` | send, cancel, run script, rollback, delete | independent of the rest: a VS Code extension |
| **Common** (`ext-llm-common`) | none | types, key templates, logging | everything in Go |

What makes each component correct, and what is hard about it:

* *Pipeline.* Several threads of several pods share a stream. A message may be
  reclaimed while its first thread is still at it, deleted while it is worked
  on, and carried out twice by its service; pods die at any point; a script's
  reply may be lost or its last command refused. It should still be in one
  stage at a time, be handed over once, reach no service before its
  predecessor, and not disappear without an outcome; and it should leave.
* *Sequencing.* The chat's key is read, compared and moved on by separate
  commands; the answer stream has no notion of a turn; the cleanup runs at any
  time. A reply should be that of its own request, a key should open one turn,
  two turns should not run at once, and a chat in which nothing failed should
  be able to go on.
* *Dispatch and history.* Calls are repeated after timeouts the callee does not
  share. The LLM should see each turn of the chat once, in order, each in its
  role, and nothing that was not ciphered.
* *Cipher manager and taggers.* A token must decipher to what it replaced, also
  when the writing of the model failed or another process served the chat.
* *Web adapter sessions.* A session should not outlive or undercut the chat.
* *Poor man's Claude.* Every prompt runs in one turn, cancelling it is final,
  and a rollback undoes the script of the turn it is shown at.

The hazards are listed one by one, with their source lines and the properties
they call for, in `PROJECT.json`.

## 2. Plan

| Step | Modules | Abstract specification | Runs | Theorems | State |
|---|---|---|---|---|---|
| 1 | `WorkerPipeline`, `MCWorkerPipeline`, `WorkerPipelineProofs`, `PipelineSafetyProofs` | `MessageDelivery` | two passing, two violations | type correctness, the four safety invariants | **done** |
| 2 | `ChatTurns`, `MCChatTurns`, `ChatTurnsProofs`, `ChatAnswersProofs` | - | one passing, three violations | type correctness, `TurnsInOrder`, the five safety invariants | **done** |
| 3 | `TurnStages`, `MCTurnStages`: granted keys, cipher manager, mediator's session cache, repeated calls, replayed history; `TurnStagesProofs`, `TurnMemoryProofs` | `ChatUntil`, the list of the turns of the chat | one passing, two violations | type correctness and the four safety invariants | **done** |
| 4 | `AdapterSessions`, `MCAdapterSessions`, `AdapterSessionsProofs`: opening a chat, the two lifetimes, the two cleanups | - | one passing, with liveness | type correctness, `AdapterKnowsActive`, `StreamCredentials` | **done** |
| 5 | poor man's Claude; the taggers' arithmetic | | | | not modelled, see section 7 |
| 6 | `DeliveryRefinementProofs` | `MessageDelivery` | (as a property of the runs of step 1) | `Spec => ImplementsDelivery` | **done** |

Modules that are proved about use no recursive operators; parameters are
constants with named assumptions.

## 3. The pipeline: `WorkerPipeline`

### How it corresponds to the code

One element of `Messages` stands for one accepted request: its payload
`<seq>_<reqid>` stays the same from stage to stage. `log[s]` is everything ever
added to the stream of stage `s`, an entry's id is its place in it, `delivered`
is the group's last delivered id, `live` holds the entries not deleted and `pel`
the group's pending list. An entry can be deleted and still be pending, as in
Redis. `pc` follows a thread through one round of `Worker.Start`:

| `pc` | Code |
|---|---|
| `fetch` | `FetchMessageFromStream` |
| `workFetched`, `workClaimed` | inside `Dowork` of the dispatcher |
| `ackFetched`, `ackClaimed` | before `AckAndPublishToNextStreamAtomic` |
| `claim` | `ClaimNAckFromStream` |
| `scan`, `range`, `notify`, `xdel`, `xack` | the commands of `DelOldNAckFromStream` |
| `down` | the pod is dead |

Each action is one Redis command, one script, or one call of a service, with
all the bookkeeping of the Go code around it. `WorkFails` covers an error, a
status other than 200 and a timeout; the service may have done its work all the
same. `Panic` is `doworkAndACKPublish`'s panic with the `recover` of the loop:
it counts, and the last one takes the pod with it. `AckFindsNothing`,
`ScriptUnreached`, `ReplyLost` and `PublishRefused` are the four ways the script
can fail. `CommandFails` is Redis failing any of the other commands, with what
the Go code makes of each error: it goes on to the next command, to the next
entry or to the next round. `NotifyRefused` is `SetFinalResponseInAdapterStream`
failing for a live chat, because its GET or its XADD did: the code logs "Adapter
NOT notified" and deletes and acknowledges the entry all the same
(synchronizer.go:351-360).

The clock is counted in ticks, and a counter stops at its threshold: ages
below it cannot be told apart by the code. `MaxFaults` bounds crashes, lost
replies and failing commands together.

Left out: contents, the arguments of `XADD` that trim streams after 300000
seconds, and the XPENDING count (a stream that has more old messages than the
count deletes the rest in the next round).

### Properties

`OneStageAtATime`, `HandedOverOnce`, `StagesInOrder`, `NoSilentLoss` (safety),
`EveryMessageLeaves` (liveness) and `ImplementsDelivery`: the refinement of
`MessageDelivery`, which knows only how far each message is, whether its stage
still owes it an outcome, and what the outcomes are. Each is described where it
is defined.

`NoSilentLoss` is not that no message is lost: the code loses some, and the
property says which. An entry leaves its stage with an outcome (handed over,
answered, reported as given up, its chat gone), or it is one of two kinds of
loss, each recorded where it happens: `refused`, the XADD of a hand-over that
Redis refused after XACK and XDEL of the same script, and `unreported`, an old
entry that is deleted although its report could not be written. The first
contradicts the README (`NoLossAcrossHandoffs`), and so does the second: what
`ext-llm-gateway/README.md:135` promises, that the originating `reqid` is
notified, depends on two Redis commands whose failure is only logged. What the
property excludes is every other way to lose a message: between check and
deletion, between XDEL and XACK, by a crash, a lost reply or a failing command.
`MessageDelivery` has the same two losses as steps of its own, `Refuse` and
`FailToNotify`.

### Runs

| Run | Instance | Result |
|---|---|---|
| `pipeline_safety` | 2 messages of one chat, 2 stages, 2 pods on stage 0 and a third on stage 1, thresholds 0, 1 fault | holds, 1.4 million states |
| `pipeline_liveness` | 1 message, 2 pods, the finalizer's thread in one of them, thresholds 1, 2 and 2 ticks, 1 fault | holds, 129 000 states |
| `pipeline_handoff_loss` | 1 message | **violated**: `NoLossAcrossHandoffs` |
| `pipeline_no_timeout` | 1 message, only stage 1 has a timeout | **violated**: `EveryMessageLeaves` |

With thresholds of 0 every reclaim, deletion and cleanup is possible at once,
so the safety run has every order of events that longer thresholds allow and
more. Two stages are enough for a hand-over and a final acknowledgement: the
stages in the middle do what stage 0 does. Two pods on one stage are what it
takes for a reclaim by another process; two messages let a thread deal with one
while it is late with the other. In the safety run the finalizer has a pod of its own, so
that the two pods of stage 0 are alike and, with the messages, can be permuted
(`PipelineSymmetry`); that one crash stops threads of two stages is left to the
other runs, and to the proofs.

The two violations are disagreements with the documentation. A refused XADD
loses the message, because XACK and XDEL of the same script are not undone, and
the shipped configuration has no timeout for the cipher's calls, so the thread
that would delete a stuck message may be the one that is stuck.

### Fairness

Time passes, a dead pod is started again (Kubernetes), and a thread's loop goes
on: `WF` of each thread's next step. A thread inside `Dowork` is obliged to come
back only if its stage is in `TimedStages`, since `net/http` with a timeout of 0
waits for ever. Nothing obliges a service to succeed, a client to send or a
session to end.

### Proofs

`WorkerPipelineProofs` proves `Spec => []TypeOK`. `PipelineSafetyProofs` proves
`[]HandedOverOnce`, `[]OneStageAtATime`, `[]StagesInOrder` and
`[]NoSilentLoss` from the assumption `PipelineAssumption` alone: for any number
of messages, chats, stages, threads and pods, and any thresholds.

None of the four is inductive. The inductive invariant is `SafetyInv`, the
conjunction of

* `TypeInv`: types, plus that pending, live and current ids are ids of the log;
* `HandInv`: the log of a stage has no message twice, its messages entered every
  stage before it (`Prefixes`), and a stage has nothing in hand that it has
  handed over (`LetGo`). `OneStageAtATime` follows: of two stages with a common
  message, the earlier one has handed it over;
* `OrderInv`: what was handed over, or is about to be, was carried out;
* `LossInv`: an entry that is deleted, or that a thread is about to delete or
  acknowledge, is settled. `NoSilentLoss` alone does not survive `AckOld`,
  which acknowledges on the word of a check made four commands earlier.

A step lemma shows for most actions that logs and hands are unchanged or only
shrink; the rest of each proof has one step per action that can disturb it.

`DeliveryRefinementProofs` proves `Spec => ImplementsDelivery`. The refinement
mapping has three parts: `Position`, the number of stages a message has entered;
`Owed`, the messages some stage has in hand; `Closed`, those whose chat was
cleaned up. `InitialStages` says that the number determines the stages, by
`Prefixes` of the inductive invariant, so a hand-over moves a message by exactly
one. Then the steps are mapped one by one: `Accept` to `Submit`, the work of a service to
`Carry`, the script to `Forward`, to `Leave` at the last stage or to `Refuse`,
a late `XDEL` or `XACK` to `Leave`, `NotifyAdapter` to `Notify`, `NotifyRefused`
to `FailToNotify`, `EndSession` to `CloseChat`; every other step leaves what `MessageDelivery` sees (`NothingSeen`).
The abstract steps have guards that the concrete ones lack, and those
are where `SafetyInv` is used: nothing is handed on that was not carried out
(`OrderInv`), and nothing is let go without an outcome (`LossInv`). One more
invariant was needed, `RefusedGone`: no stage owes a message again whose
hand-over the store refused.

## 4. The turns of a chat: `ChatTurns`

### How it corresponds to the code

The module follows a chat through the client (`sendOnActive`), the gateway's
`SetReqFromAdapterInternal`, the stream reader (`AwaitContent`, and
`GetContentFromStream` of the synchronous endpoint), the finalizer and the
cleanup. Each action is one Redis command or one script:

| Actions | Code |
|---|---|
| `Send`, `Receive`, `ReceiveError`, `GiveUp` | the client with its key; an error leaves the key as it is |
| `CheckMeta`, `CheckKey`, `SetContent`, `Publish`, `PublishFails`, `Touch` | the handler, in its order |
| `Subscribe` | XREAD from `$`: only what is posted from now on |
| `Serve`, `Deliver` | the services read the turn's text and write the final one |
| `LateDeliver` | a service that was called for a turn given up meanwhile writes its key all the same |
| `Grant`, `Stamp`, `Post` | the finalizer: new password, `GET SEQ_`, `XADD`; when one of the last two fails, or there is no `SEQ_`, it starts over (`StampFails`, `PostFails`) |
| `Abort`, `PostError` | `DelOldNAckFromStream` gives the turn up; when Redis fails one of its commands, nobody is told (`PostErrorFails`) |
| `Redeliver`, `Overtake` | a second thread finalizes, or gives up, a turn the first one is finalizing |
| `Expire`, `SweepFind` ... `SweepForget` | the cleanup, command by command |

The pipeline is that of `WorkerPipeline`, of which a chat sees a job that is
served, finalized or aborted. `MaxRedeliver` bounds how often a second thread
takes up a turn that is being finalized, or gives it up: the thresholds of the
configuration (300 and 600 seconds against seconds of work) aim at never, and
nothing in the code makes it so. `redelivered` counts it. A text is identified
with its request and a uuid with the call that drew it.

`TurnOf` is the `%02d` and `[:2]` of the code: `Base` is the number base, 10 in
the code, and `Limit` the first number that its digits do not hold, 100 in the
code, which is read without its last digit. `chat_turns` counts to base 2 with
one digit instead of base 10 with two, so that this happens at turn 2 instead
of turn 100, and the third request meets the content keys of an early turn. The
other runs have 10 and 100, and the proofs any two numbers with
`Limit >= Base`.

`Locked` is the client's in-flight lock: the Flutter client has one, the React
frontend does not. It stands for "no new request while a handler is still at
work", which the client's 300 s timeout guarantees as long as six Redis
commands of at most a few seconds each end before it. Both adapters and the
gateway share one Redis, as in `conf/config.json`; the scan and the UNLINK of one
sweep are one step (a key that is written between them is one that is written
after). The second pod's cleanup is not modelled.

### Properties and runs

| Run | Instance | Result |
|---|---|---|
| `chat_turns` | locked client, 3 requests, base 2 and limit 2, 1 fault (a handler dies, or Redis fails a script or a command), 1 turn finalized twice, or finalized and given up | `TypeOK`, `FirstAnswerOwn`, `OneTurnAtATime`, `AcceptedOnce`, `CanGoOn`, `AnswerReadable`, `TurnsInOrder` hold, 2.0 million states |
| `chat_replay` | two requests, no lock | **violated**: `AcceptedOnce` |
| `chat_redelivery` | locked client, one turn finalized twice | **violated**: `OwnAnswer` |
| `chat_leftovers` | one request | **violated**: `NothingLeftBehind` |

Three requests are enough for a late answer, the turn it disturbs and the one
after, and for a number that no longer fits. The run shows that with a client
that waits, no interleaving of readers that give up, aborted turns, late writes,
dying handlers, failing commands and the cleanup mixes up answers, turns or
credentials, and what is left of that when a turn is finalized twice:

* `AcceptedOnce` holds throughout. It speaks of `opened`, the calls whose turn
  was published, whatever became of them: a key that is sent again after its
  reader has timed out, after an error or after the death of its handler opens
  no second turn. That is what the sequence key is for.
* `TurnsInOrder` holds throughout, except that the number falls back at `Limit`.
* `FirstAnswerOwn`, `OneTurnAtATime`, `CanGoOn` and `AnswerReadable` hold up to
  the first second finalization (`redelivered = 0` is part of their text). After
  it they fail, and `chat_redelivery` shows how: entries carry no turn.
  `CanGoOn` moreover speaks of chats in which no request has failed. After a
  failure the client keeps a key the gateway no longer accepts (handlers.go:158
  drops the new one), and the chat is over.

The three violations show where the documentation promises more: two requests
with one key pass the check together; a repeated answer is taken for that of the
next turn; and a request that the cleanup overtakes leaves keys that no later
cleanup finds.

Deadlock is not checked in these runs: a behavior ends when its requests are
used up. There is no fairness: a reader that has missed its answer waits until
it gives up, and nothing here obliges a user to go on.

### Proofs

`ChatTurnsProofs` and `ChatAnswersProofs` prove the module's properties for any
number of requests, faults and deliveries and any number base and limit, 10 and
100 included.

| Theorem | Of | Hypotheses |
|---|---|---|
| `TypeCorrect` | `TypeOK` | none |
| `TurnsGoUp` | `TurnsInOrder` | `Locked` |
| `KeysOpenOnce` | `AcceptedOnce` | `Locked` |
| `RepliesAreOwn`, `OneTurn`, `AnswersCanBeRead`, `ChatsGoOn` | `FirstAnswerOwn`, `OneTurnAtATime`, `AnswerReadable`, `CanGoOn` | `Locked` |

`Locked` is necessary: `chat_replay` shows what happens without it.

The argument has four layers, each an invariant that needs the ones before it:

* `TypeInv`: `TypeOK`, plus that a key, a next key or an entry is there where a
  step reads it. `TurnNumber` is the arithmetic: the next number never exceeds
  the limit, and is one more than the last up to there.
* `KeyInv`: one call at a time is under way, with the client's key; the key a
  call is going to make is found nowhere yet (`Fresh`); and nobody moves `SEQ_`
  between the check of a key and its exchange (`Unmoved`), which is the race of
  `SetReqFromAdapterInternal` that the lock closes.
* `OnceInv`: the key of a call that has opened a turn is not in `SEQ_` again
  (`Spent`), and a call that has passed the check has a key that has opened none
  (`Unspent`). It needs `KeyInv` and nothing about answers, so it survives
  repeated finalizations.
* `AnswerInv`: no turn is open while a key is being exchanged or an answer read,
  and an open turn has the number, the text and the final content of the call
  that waits for it. `OwnAnswer` is a conjunct. `ReadInv` and `GoOnInv` build on it:
  the credentials are those of the turn that is answered, or the chat is swept;
  the key that travels with an answer is the one in `SEQ_`. These three are
  proved in the form `redelivered = 0 => ...`.

Each layer has a step lemma for the calls, one for the jobs of the pipeline and
one for the cleanup.

## 5. One turn through the services: `TurnStages`

### How it corresponds to the code

The module follows the turns of one chat through the dispatcher, the cipher
manager and the mediator, one action per Redis command, and one for each step on
a cache or on the LLM's session.

| Actions and operators | Code |
|---|---|
| `GenerateKeysList`, `Interleave`, `GeminiKeys`, `ReadKeys`, `WriteKey` | the keys of a call (`dispatchers/utils.go`, `RestAPIDispatcher.Dowork`) |
| `LlmRepWorkerInd` | 0: the registry makes the dispatcher without its constructor, which would set -1 |
| `TakeUp`, `Grant`, `Post`, `Answered`, `Failed`, `TimedOut` | a thread's call: SETUSER with reset, POST, the HTTP client's attempts |
| `Cancelled` | the mediator's context, 30 s or until its caller has gone |
| `Tag`, `SaveText`, `SaveModel`, `Decipher`, `LoadModel`, `Expire`, `ProcessDies` | `redisacl.py`: the model in the process's cache is changed in place, then the text and then the meta key are written |
| `LookUp`, `Build`, `Keep`, `Ask`, `Reply`, `LlmFails`, `SaveReply`, `Evict` | `ProcessRedisContent`: the cache is read, and set, in separate steps |
| `Rebuilt`, `History` | `CreateSession`, `reconstructChat`: roles from the parity of the index |
| `Denied`, `Refused`, `Allowed` | what Redis makes of a command: a wrong password, a key outside the grant, a missing key, a SET that fails |

A connection that was authenticated stays so when its user gets a new password;
its rights are those of the latest grant. The mediator's connection does not
outlive the LLM's answer (`ConnMaxIdleTime` is 1 ms), so its last command needs
the current password. A text is whose it is (`user`,
`ciphered`, `reply`, `final`), of which turn, and the names that stand in it as
tokens. The LLM mentions everyone it has been told of: the worst case for the
decipher step. The next turn begins when the last one has its final content,
which is when its key is handed out.

### Properties and runs

| Run | Instance | Result |
|---|---|---|
| `turn_stages` | 2 turns, 2 threads, 2 calls at a time, 2 cipher processes, 1 repeated or given-up call, 1 fault | all five invariants hold, 1.5 million states |
| `stages_replay` | one cipher process, without repeats and faults | **violated**: `ReplayIsTheChat` |
| `stages_workers` | two cipher processes, without repeats and faults | **violated**: `EveryTokenResolved` |

* `TokensResolved`: what the user is shown has no token left. Two turns are
  enough for a name of the first turn that the second brings up again, with the
  cache expired in between; the two names are a card number in the first turn
  and a person in the second, because the two taggers count changes differently.
  `EveryTokenResolved` is the same without exceptions, which is what the README
  says.
* `ReplyAnswersTurn`: however many calls are under way, reply and final content
  belong to their turn.
* `HistoryKeysExist`: no call is granted a key that is still empty.
* `ChatRemembered`: a session that was begun with the chat has the prompts of
  every turn, without a gap; a repeated prompt may be there twice.
* `ReplayIsTheChat` is what the mediator's README says of a rebuilt session. It
  fails without any fault: the keys come newest first, the roles follow the
  index, and the "model" keys are those of the users' original texts.

What the statements leave out is part of their text, and is what the model
showed to be fragile:

* `~unsaved`: when the SET of the ciphered text or of the meta key fails, the
  repeated call finds its card numbers in the model it changed itself, takes
  nothing for changed and does not save. Once the cache expires these tokens
  cannot be resolved.
* `~crossed`: when mediator calls for one chat overlap, each may build a session
  and the last `Set` wins, so that a late one may leave a session without the
  latest turns.
* `~stale`: a cipher process has worked with a cached model, or saved one, that
  lacked a name another process had saved. The Dockerfile of cipher 2 starts four
  gunicorn workers, each with a cache of its own, and nothing keeps a chat with
  one of them, so this needs no failure: `stages_workers` shows a process that
  deciphers with the model it cached before another one ciphered the turn.
  `stale` is set in exactly the step that works with, or saves, such a model.
  `TokensResolved` is what is left: with any number of processes, whatever
  expires, dies or is repeated, no other path leads to a token.

`GrantFails` (a SETUSER that is refused) is left out: the message stays with
the thread, as after a failed call. How often the HTTP client tries again is
left open. Deadlock is not checked: the behavior ends with the last turn. The
two threads are interchangeable, and so are the two processes, and no property
names one: they are a symmetry set. Two processes suffice for one that is ahead
and one that is behind; of four, each is one or the other.

`turn_stages` compares states by a `VIEW`, without what no later step reads: the
LLM sessions that neither the cache nor a call holds any more, and the insides
of calls that have ended. Nothing is lost by it. The invariants have seen a
session in the state in which it was last held, and states that the view
identifies differ in their future only by which free session number comes next,
which no property names.

### Proofs

`TurnStagesProofs` proves `TypeOK`, `HistoryKeysExist` and `ReplyAnswersTurn`
from `StagesAssumption` alone: for any number of turns, threads, calls under way
and cipher processes. The inductive invariant is `StageInv`, the conjunction of

* `TypeOK`;
* `GateInv`: threads and calls are about turns and stages that the message has
  reached, and a call's thread waits for that call only;
* `PhaseInv`: what a call holds in each phase, in particular that a call which
  goes on without its thread is one of the mediator, and that an answered call
  has written its key;
* `TextInv`: a text is about the turn of its key, and every key the message has
  passed is filled.

`HistoryKeysExist` follows from `TextInv` and what `GeneratedKeys`,
`InterleavedKeys` and `KeysToRead` say of `GenerateKeysList` and `interleave`: all
keys of a call are of its own turn or earlier ones, and of the workers up to its
own. `Interleave` is written in closed form so that these can be proved.

`TurnMemoryProofs` proves the other two, each with an invariant of its own on top
of `StageInv`, and again for any number of cipher processes:

* `SessionsRemember` (`ChatRemembered`): `MemoryInv`. As long as no mediator calls
  have crossed, they come one by one (`OneByOne`), and the session that is cached
  or used is `DueIn` for the turn the message is at, or was `ToldIn` it: its next
  prompt continues the chat. When the invariant would break, the step sets
  `crossed`.
* `NoTokenIsShown` (`TokensResolved`): `KnownInv`, a call that tags has its
  text's names in its model, and `SavedInv`: a name in a process's cache is saved,
  or a call of that same process is about to save it, and the names of every text
  that has gone to the mediator, of every session and of every reply are saved,
  which is why the decipher step resolves them. `SavedInv` is conditional on
  `unsaved` and `stale`, and where it would break, the step sets one of the two:
  a failed call leaves names in a cache only, an outdated model takes names away
  from the meta key (`SavedGrows`) or deciphers without them (`LoadsAll`).
* `OneProcessStaysFresh`: with one process `stale` stays false (`FreshInv`), so
  that a deployment with one worker per chat has the first exception only. It is
  the only theorem that supposes such a deployment.

## 6. How long a chat lives: `AdapterSessions`

### How it corresponds to the code

| Actions | Code |
|---|---|
| `InitChat`, `SetSequanceKey` ... `Track` | the adapter's and the gateway's `InitChat` and `InitReq`, command by command |
| `InitFails` | a refused command, a panic in `setSessionTimestamp`, or the pod's death: what is written stays |
| `Put`, `SendMessage` (`Get`), `AdapterCleanup`, `Expired` | `sessions.Store`: the touch, the lazy expiry, the owner check, the ticker |
| `CheckChat`, `WriteTurn`, `Touch`, `ForwardFails` | `SetReqFromAdapter`; the details of the sequence key are in `ChatTurns` |
| `HangUp`, `InitHangUp`, `ReplyLost`, `AdapterRestart` | a request whose caller has gone, which the gateway nevertheless carries out; the loss of the store |
| `SweepFind`, `SweepUnlink`, `SweepForget` | the gateway's cleanup; a failed SCAN is passed over, a failed ZREM is repeated by the next sweep |

Time stamps are kept as ages that stop growing where no comparison sees a
difference. `AdapterOutlivesGateway` is an assumption about the two
configurations: the gateway's lifetime of a chat (600 s) plus the time its
handler may need for a request is at most the adapter's (3600 s). Nothing in
the code checks it. `ForwardTicks` is the gateway's own bound, its few Redis
commands of a few seconds each, and not the adapter's HTTP timeout of 6000 s,
which would break the assumption if a request really took that long.

### Properties and run

`adapter_sessions`: two chats, one message, two users, lifetimes of 1 and 2
ticks, a forward of at most 1, one restart or hang-up and one failing command;
349 546 states. A lifetime of one tick lets a chat be active, stale and swept,
and 2 is the least the assumption allows; the second chat is what a shared ACL
user and a sweep of several chats need.

* `AdapterKnowsActive`: while a chat counts as active at the gateway, the
  adapter that opened it knows it. It relates two clocks that are set at
  different moments of the same message.
* `StreamCredentials`: every message that is under way is its owner's, with a
  password that the adapter's ACL user accepts, whatever was opened since.
* `EveryChatGoes` (liveness): in the end every chat that was opened is gone on
  both sides and its keys are deleted, also when its opener was lost. Excepted are
  only chats whose last scan failed, and chats into which a request wrote after
  their keys had been deleted, which is the finding of `chat_leftovers`: `missed`
  is set by these two steps, and not by what a sweep leaves behind. A chat whose creation was cut off before ZADD was
  never opened and stays for ever: it is listed as a hazard.

Fairness: clocks advance, the two tickers fire, and a handler that has begun
goes on. Users are free to send or not, and there are no more than `Messages`.
Deadlock is not checked: everything may be over.

Left out: a restart of Redis, which would lose the ACL passwords unless they are
saved; several adapter pods, each with a store of its own (the README of the
adapter names this as its limit); the growth of the adapter's ACL user, which
gets a password and a key pattern per chat that nothing takes away again; and
what the finalizer posts into a stream after a sweep.

### Proofs

`AdapterSessionsProofs` proves the module's three invariants for any chats,
messages, users and bounds, and for any two lifetimes with
`AdapterOutlivesGateway`.

* `TypeCorrect`: `TypeOK` is inductive as it stands.
* `CredentialsHold`: `StreamCredentials` is not inductive, because it says
  nothing of where a message's user comes from. `OpenInv` adds that a chat whose
  grant has been carried out has its password, that the store only holds chats
  that are open, under the name of their opener, and that a call is of an open
  chat. An open chat's `/init_chat` call does not change any more (`OpenKept`),
  so these facts survive the other steps.
* `ActiveIsKnown`: `AdapterKnowsActive` relates an age the gateway resets to one
  the adapter resets earlier, so it needs what holds in between: `RequestInv`, a
  session is no older than any request of its chat that the gateway still
  carries out, and `ScoreInv`, it is at most `ForwardTicks` older than an active
  chat's score. `Touch` leads from the one to the other, a tick ages both alike,
  and `NotExpired` is the only place where the lifetimes are compared: no
  cleanup, and no lookup of an expired session, meets a session these two speak
  of. Without `AdapterOutlivesGateway` that step fails.

## 7. What is proved, what is only checked, what is missing

* Proved for every value of the constants: every invariant and action property
  of the passing runs, and the refinement of `MessageDelivery`. The proofs rest on
  the named assumptions about the constants. Two hypotheses restrict the
  deployment: a client that sends one request at a time (section 4), and lifetimes
  that agree (section 6). Each is necessary, and what happens without it is
  described where it is introduced. (`OneProcessStaysFresh` is about deployments
  with one cipher process and says so.)
* Named in the properties themselves is what the code does not keep: messages
  whose hand-over or report Redis refuses (`NoSilentLoss`, `MessageDelivery`), a
  second finalization (`redelivered`), a failed cipher call and an outdated model
  (`unsaved`, `stale`), overlapping mediator calls (`crossed`), keys written
  during a sweep (`missed`), and the number after the last (`TurnsInOrder`).
* Model-checked on small instances only: `EveryMessageLeaves` and
  `EveryChatGoes`. They hold under fairness, and reasoning from WF needs ENABLED,
  which the installed provers do not handle.
* Violations: seven promises of the README files that the code does not keep,
  listed under `findings` in `PROJECT.json` with the lines of both.
* Not modelled: the VS Code extension, which shares nothing with the services;
  the taggers' own algorithms (what they find is the constant `Mentions`) and
  named-entity recognition (a library's statistical model); HTTP and JSON
  plumbing, password hashing, tokens and CORS, which look at one request and
  keep no state; reading the configuration; user interfaces, logging, cipher 1
  (the older copy of cipher 2), and the start-up order of the gateway's `main`.

## 8. Running it

    tlc -config PipelineSafety.cfg MCWorkerPipeline.tla
    tlc -config ChatTurns.cfg MCChatTurns.tla
    tlc -config TurnStages.cfg MCTurnStages.tla
    tlc -config AdapterSessions.cfg MCAdapterSessions.tla
    tlapm DeliveryRefinementProofs.tla
    tlapm ChatAnswersProofs.tla
    tlapm TurnMemoryProofs.tla
    tlapm AdapterSessionsProofs.tla

and likewise for the other configurations and for the modules those proofs build
on: `WorkerPipelineProofs`, `PipelineSafetyProofs`, `ChatTurnsProofs` and
`TurnStagesProofs`.
Operators whose comment begins with "Mutant" are faulty versions of the action
below them. They are not part of any specification: put in the place of the
action they make the property named in `PROJECT.json` fail, which shows that the
property says something about it.
