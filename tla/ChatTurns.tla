------------------------------ MODULE ChatTurns ------------------------------
(***************************************************************************)
(* The turns of one chat, from the user interface to the answer: the       *)
(* client keeps the next request key, the gateway's SetRequest handler     *)
(* checks it against SEQ_<chat_id>, stores the text, publishes the turn    *)
(* and renews the session; the pipeline answers; the finalizer mints the   *)
(* credentials and posts the answer with the next key into                 *)
(* STREAM_<chat_id>; a reader that blocks on the stream fetches it; the    *)
(* session cleanup may sweep the chat away at any time.  One action per    *)
(* Redis command (or per command of one script).                           *)
(*                                                                         *)
(* The worker pipeline is the one of WorkerPipeline, reduced to what a     *)
(* chat sees of it: a published turn is a job that is served, finalized,   *)
(* or aborted, and that may be delivered again.  A text is identified with *)
(* the request that brought it.  Init is the state InitReq leaves behind:  *)
(* nobody knows the chat before its handler returns.                       *)
(***************************************************************************)
EXTENDS Naturals, Sequences, FiniteSets

CONSTANTS
  MaxRequests,   \* bound on the SetRequest calls of a behavior
  NoKey,         \* an absent SEQ_<chat_id>
  Base,          \* number base of the sequence number, 10 in the code
  Limit,         \* the first number that two digits do not hold, 100 in the code
  Locked,        \* whether the client sends one request at a time
  MaxRedeliver,  \* bound on second threads that take a job up or delete it
  MaxFaults      \* bound on handlers that die and on commands Redis refuses

\* The calls, in the order in which they are sent.
Requests == 1 .. MaxRequests

\* No request: an absent content, or InitReq as the issuer of a key.
Nobody == 0

\* Sequence keys "NN_<uuid>": a uuid stands for the call that generated it.
Numbers == 0 .. Limit
Key == [num : Numbers, by : Requests \cup {Nobody}]

ASSUME ChatAssumption ==
  /\ MaxRequests \in Nat
  /\ NoKey \notin Key
  /\ Base \in Nat \ {0, 1}
  /\ Limit \in Nat /\ Limit >= Base
  /\ Locked \in BOOLEAN
  /\ MaxRedeliver \in Nat /\ MaxFaults \in Nat

VARIABLES
  (* Redis *)
  meta,      \* whether METADATA_<chat_id> exists
  seq,       \* SEQ_<chat_id>
  content,   \* [Numbers -> text]: the request texts, seq_NN_..._wrkind_00
  final,     \* [Numbers -> text]: the text each turn's final content answers
  acl,       \* the job whose password the finalizer's JIT user has, or 0
  tracked,   \* score in the active-sessions ZSet: fresh, stale, or no member
  (* processes *)
  pc,        \* where each SetRequest call stands
  key,       \* the request key it was sent with
  inbox,     \* the stream entry its reader received
  answer,    \* the request whose text its reply answers
  clientKey, \* the next request key the client holds
  jobs,      \* the turns delivered to the pipeline, in order of delivery
  sweep,     \* where cleanupExpiredSessions stands
  (* observed *)
  opened,    \* the calls whose turn was published
  redelivered, faults

redisVars  == <<meta, seq, content, final, acl, tracked>>
callVars   == <<pc, key, inbox, answer, clientKey>>
historyVars == <<opened, redelivered, faults>>
vars == <<redisVars, callVars, jobs, sweep, historyVars>>

Texts == Requests \cup {Nobody}

InHandler == {"meta", "seq", "content", "publish", "touch"}
Waiting   == {"accepted", "reading", "read"}
Ended     == {"refused", "failed", "replied"}

JobStates == {"queued", "serving", "served", "granted", "stamped", "answered",
              "aborting", "aborted"}

Job == [seq : Numbers, st : JobStates, text : Texts, next : Key \cup {NoKey}]

Entry == [ok : BOOLEAN, seq : Numbers, next : Key, pwd : Nat]

NoEntry == [ok |-> FALSE]

TypeOK ==
  /\ meta \in BOOLEAN
  /\ seq \in Key \cup {NoKey}
  /\ content \in [Numbers -> Texts]
  /\ final \in [Numbers -> Texts]
  /\ acl \in Nat
  /\ tracked \in {"fresh", "stale", "no"}
  /\ pc \in [Requests -> {"new"} \cup InHandler \cup Waiting \cup Ended]
  /\ key \in [Requests -> Key \cup {NoKey}]
  /\ inbox \in [Requests -> Entry \cup {NoEntry}]
  /\ answer \in [Requests -> Texts]
  /\ clientKey \in Key
  /\ jobs \in Seq(Job)
  /\ sweep \in {"idle", "unlink", "maintain", "users", "forget"}
  /\ opened \in SUBSET Requests
  /\ redelivered \in 0 .. MaxRedeliver
  /\ faults \in 0 .. MaxFaults

FirstKey == [num |-> 0, by |-> Nobody]

\* InitReq: SEQ_, METADATA_ and STREAM_ are set, the session is marked active,
\* and the first key is returned to the client.
Init ==
  /\ meta = TRUE
  /\ seq = FirstKey
  /\ content = [n \in Numbers |-> Nobody]
  /\ final = [n \in Numbers |-> Nobody]
  /\ acl = 0
  /\ tracked = "fresh"
  /\ pc = [r \in Requests |-> "new"]
  /\ key = [r \in Requests |-> NoKey]
  /\ inbox = [r \in Requests |-> NoEntry]
  /\ answer = [r \in Requests |-> Nobody]
  /\ clientKey = FirstKey
  /\ jobs = <<>>
  /\ sweep = "idle"
  /\ opened = {}
  /\ redelivered = 0
  /\ faults = 0

-----------------------------------------------------------------------------
(* Vocabulary *)

InFlight == {r \in Requests : pc[r] \in InHandler \cup Waiting}

Goto(r, p) == pc' = [pc EXCEPT ![r] = p]

\* strconv.Atoi(key[:2]) of a number printed with %02d: the last digit of a
\* number with three is cut off.
TurnOf(k) == IF k.num < Limit THEN k.num ELSE k.num \div Base

\* Mutant: as if the number were read with all of its digits.
NextKeyUnfolded(r) == [num |-> key[r].num + 1, by |-> r]

\* Mutant: one digit is kept.
NextKeySame(r) == [num |-> (TurnOf(key[r]) + 1) % Base, by |-> r]

\* The key SetReqFromAdapterInternal generates for the turn after r's.
NextKey(r) == [num |-> TurnOf(key[r]) + 1, by |-> r]

Queued(n) == [seq |-> n, st |-> "queued", text |-> Nobody, next |-> NoKey]

Pending(j) == jobs[j].st \notin {"answered", "aborted"}

-----------------------------------------------------------------------------
(* The client and the SetRequest handler *)

Send(r) ==
  /\ pc[r] = "new"
  /\ \A q \in 1 .. r - 1 : pc[q] # "new"
  /\ Locked => InFlight = {}
  /\ key' = [key EXCEPT ![r] = clientKey]
  /\ Goto(r, "meta")
  /\ UNCHANGED <<redisVars, inbox, answer, clientKey, jobs, sweep, historyVars>>

CheckMeta(r) ==
  /\ pc[r] = "meta"
  /\ Goto(r, IF meta THEN "seq" ELSE "refused")
  /\ UNCHANGED <<redisVars, key, inbox, answer, clientKey, jobs, sweep, historyVars>>

\* Mutant: the key of the request is not compared; what is read is used instead.
CheckKeyNever(r) ==
  /\ pc[r] = "seq"
  /\ Goto(r, IF seq # NoKey THEN "content" ELSE "refused")
  /\ key' = [key EXCEPT ![r] = seq]
  /\ UNCHANGED <<redisVars, inbox, answer, clientKey, jobs, sweep, historyVars>>

\* GET SEQ_<chat_id>, compared with the key of the request.
CheckKey(r) ==
  /\ pc[r] = "seq"
  /\ Goto(r, IF seq = key[r] THEN "content" ELSE "refused")
  /\ UNCHANGED <<redisVars, key, inbox, answer, clientKey, jobs, sweep, historyVars>>

SetContent(r) ==
  /\ pc[r] = "content"
  /\ content' = [content EXCEPT ![TurnOf(key[r])] = r]
  /\ Goto(r, "publish")
  /\ UNCHANGED <<meta, seq, final, acl, tracked, key, inbox, answer, clientKey,
                 jobs, sweep, historyVars>>

\* Mutant: the script forgets to move SEQ_ on.
PublishKeepsKey(r) ==
  /\ pc[r] = "publish"
  /\ jobs' = Append(jobs, Queued(TurnOf(key[r])))
  /\ opened' = opened \cup {r}
  /\ Goto(r, "touch")
  /\ UNCHANGED <<redisVars, key, inbox, answer, clientKey, sweep, redelivered, faults>>

\* SetWorker0Atomic: SET SEQ_ and XADD to the first worker's stream.
Publish(r) ==
  /\ pc[r] = "publish"
  /\ seq' = NextKey(r)
  /\ jobs' = Append(jobs, Queued(TurnOf(key[r])))
  /\ opened' = opened \cup {r}
  /\ Goto(r, "touch")
  /\ UNCHANGED <<meta, content, final, acl, tracked, key, inbox, answer,
                 clientKey, sweep, redelivered, faults>>

\* SetWorker0Atomic fails, before the script ran or at its XADD with SEQ_
\* already set; the handler does not look at the result.
PublishFails(r) ==
  /\ pc[r] = "publish"
  /\ faults < MaxFaults
  /\ faults' = faults + 1
  /\ seq' \in {seq, NextKey(r)}
  /\ Goto(r, "touch")
  /\ UNCHANGED <<meta, content, final, acl, tracked, key, inbox, answer,
                 clientKey, jobs, sweep, opened, redelivered>>

\* setSessionTimestamp; the handler returns OK and the caller goes on to read.
Touch(r) ==
  /\ pc[r] = "touch"
  /\ tracked' = "fresh"
  /\ Goto(r, "accepted")
  /\ UNCHANGED <<meta, seq, content, final, acl, key, inbox, answer, clientKey,
                 jobs, sweep, historyVars>>

\* The gateway's pod dies under the handler.
HandlerDies(r) ==
  /\ pc[r] \in InHandler
  /\ faults < MaxFaults
  /\ faults' = faults + 1
  /\ Goto(r, "failed")
  /\ UNCHANGED <<redisVars, key, inbox, answer, clientKey, jobs, sweep, opened,
                 redelivered>>

-----------------------------------------------------------------------------
(* The reader: AwaitContent of the webadapter, GetContentFromStream of the  *)
(* gateway's own synchronous endpoint                                       *)

\* XREAD BLOCK STREAMS STREAM_<chat_id> $: only what is posted from now on.
Subscribe(r) ==
  /\ pc[r] = "accepted"
  /\ Goto(r, "reading")
  /\ UNCHANGED <<redisVars, key, inbox, answer, clientKey, jobs, sweep, historyVars>>

\* The reader, or the client behind it, stops waiting.  The client is told of
\* an error and keeps the key it has.
GiveUp(r) ==
  /\ pc[r] \in Waiting
  /\ Goto(r, "failed")
  /\ UNCHANGED <<redisVars, key, inbox, answer, clientKey, jobs, sweep, historyVars>>

\* The credentials of the entry still open the final content of its turn.
Readable(e) == e.ok /\ acl = e.pwd /\ final[e.seq] # Nobody

\* Mutant: the client does not store the key of the reply.
ReceiveKeepsKey(r) ==
  /\ pc[r] = "read"
  /\ Readable(inbox[r])
  /\ answer' = [answer EXCEPT ![r] = final[inbox[r].seq]]
  /\ Goto(r, "replied")
  /\ UNCHANGED <<redisVars, key, inbox, clientKey, jobs, sweep, historyVars>>

\* The content is fetched, and the client shows it and stores the next key.
Receive(r) ==
  /\ pc[r] = "read"
  /\ Readable(inbox[r])
  /\ answer' = [answer EXCEPT ![r] = final[inbox[r].seq]]
  /\ clientKey' = inbox[r].next
  /\ Goto(r, "replied")
  /\ UNCHANGED <<redisVars, key, inbox, jobs, sweep, historyVars>>

\* An _ERROR_ entry, or credentials or content that are gone: the next key that
\* came with the entry is dropped.
ReceiveError(r) ==
  /\ pc[r] = "read"
  /\ ~Readable(inbox[r])
  /\ Goto(r, "failed")
  /\ UNCHANGED <<redisVars, key, inbox, answer, clientKey, jobs, sweep, historyVars>>

-----------------------------------------------------------------------------
(* The pipeline, as the chat sees it *)

Advance(j, st) == jobs' = [jobs EXCEPT ![j].st = st]

\* The same, with text t in the hands of the service that is called for it.
Carry(j, st, t) == jobs' = [jobs EXCEPT ![j].st = st, ![j].text = t]

\* The services read the text of the turn ...
Serve(j) ==
  /\ jobs[j].st = "queued"
  /\ content[jobs[j].seq] # Nobody
  /\ Carry(j, "serving", content[jobs[j].seq])
  /\ UNCHANGED <<redisVars, callVars, sweep, historyVars>>

\* Mutant: the services' keys are one turn off.
DeliverElsewhere(j) ==
  /\ jobs[j].st = "serving"
  /\ final' = [final EXCEPT ![(jobs[j].seq + 1) % Base] = jobs[j].text]
  /\ Carry(j, "served", Nobody)
  /\ UNCHANGED <<meta, seq, content, acl, tracked, callVars, sweep, historyVars>>

\* ... and write what becomes its final content.
Deliver(j) ==
  /\ jobs[j].st = "serving"
  /\ final' = [final EXCEPT ![jobs[j].seq] = jobs[j].text]
  /\ Carry(j, "served", Nobody)
  /\ UNCHANGED <<meta, seq, content, acl, tracked, callVars, sweep, historyVars>>

\* RedisAclFinalizer.Dowork: the JIT user of the chat gets a new password.
Grant(j) ==
  /\ jobs[j].st = "served"
  /\ acl' = j
  /\ Advance(j, "granted")
  /\ UNCHANGED <<meta, seq, content, final, tracked, callVars, sweep, historyVars>>

\* SetFinalResponseInAdapterStream: GET SEQ_<chat_id> ...
Stamp(j) ==
  /\ jobs[j].st = "granted"
  /\ seq # NoKey
  /\ jobs' = [jobs EXCEPT ![j].st = "stamped", ![j].next = seq]
  /\ UNCHANGED <<redisVars, callVars, sweep, historyVars>>

\* Without SEQ_, or when Redis fails the GET, the finalizer fails; its message
\* stays and will be taken up again.
StampFails(j) ==
  /\ jobs[j].st = "granted"
  /\ \/ seq = NoKey /\ faults' = faults
     \/ faults < MaxFaults /\ faults' = faults + 1
  /\ Advance(j, "served")
  /\ UNCHANGED <<redisVars, callVars, sweep, opened, redelivered>>

\* Entry e reaches every reader that is blocked on the stream.
PostEntry(e) ==
  /\ inbox' = [r \in Requests |-> IF pc[r] = "reading" THEN e ELSE inbox[r]]
  /\ pc' = [r \in Requests |-> IF pc[r] = "reading" THEN "read" ELSE pc[r]]

\* ... and XADD STREAM_<chat_id>.
Post(j) ==
  /\ jobs[j].st = "stamped"
  /\ PostEntry([ok |-> TRUE, seq |-> jobs[j].seq, next |-> jobs[j].next, pwd |-> j])
  /\ Advance(j, "answered")
  /\ UNCHANGED <<redisVars, key, answer, clientKey, sweep, historyVars>>

\* Redis refuses the XADD: likewise.
PostFails(j) ==
  /\ jobs[j].st = "stamped"
  /\ faults < MaxFaults
  /\ faults' = faults + 1
  /\ Advance(j, "served")
  /\ UNCHANGED <<redisVars, callVars, sweep, opened, redelivered>>

\* DelOldNAckFromStream gives the turn up: GET SEQ_<chat_id> ...
Abort(j) ==
  /\ jobs[j].st \in {"queued", "serving", "served", "granted"}
  /\ jobs' = [jobs EXCEPT ![j].st = IF seq = NoKey THEN "aborted" ELSE "aborting",
                          ![j].next = seq]
  /\ UNCHANGED <<redisVars, callVars, sweep, historyVars>>

\* ... and XADD of an _ERROR_ entry.
PostError(j) ==
  /\ jobs[j].st = "aborting"
  /\ PostEntry([ok |-> FALSE, seq |-> jobs[j].seq, next |-> jobs[j].next, pwd |-> 0])
  /\ Advance(j, "aborted")
  /\ UNCHANGED <<redisVars, key, answer, clientKey, sweep, historyVars>>

\* Redis fails the GET or refuses the XADD: the turn is deleted all the same.
PostErrorFails(j) ==
  /\ jobs[j].st = "aborting"
  /\ faults < MaxFaults
  /\ faults' = faults + 1
  /\ Advance(j, "aborted")
  /\ UNCHANGED <<redisVars, callVars, sweep, opened, redelivered>>

\* The service that was called for a turn given up meanwhile writes its key.
LateDeliver(j) ==
  /\ jobs[j].st \in {"aborting", "aborted"}
  /\ jobs[j].text # Nobody
  /\ final' = [final EXCEPT ![jobs[j].seq] = jobs[j].text]
  /\ Carry(j, jobs[j].st, Nobody)
  /\ UNCHANGED <<meta, seq, content, acl, tracked, callVars, sweep, historyVars>>

\* XAUTOCLAIM hands the finalizer's message to a second thread, because the
\* first one is slow, or died before it acknowledged what it had posted.
Redeliver(j) ==
  /\ jobs[j].st \in {"granted", "stamped", "answered"}
  /\ redelivered < MaxRedeliver
  /\ redelivered' = redelivered + 1
  /\ jobs' = Append(jobs, [Queued(jobs[j].seq) EXCEPT !.st = "served"])
  /\ UNCHANGED <<redisVars, callVars, sweep, opened, faults>>

\* Another thread gives the turn up while the finalizer is still at it: both an
\* answer and an error will be posted.
Overtake(j) ==
  /\ jobs[j].st \in {"granted", "stamped"}
  /\ redelivered < MaxRedeliver
  /\ redelivered' = redelivered + 1
  /\ seq # NoKey
  /\ jobs' = Append(jobs, [jobs[j] EXCEPT !.st = "aborting", !.next = seq])
  /\ UNCHANGED <<redisVars, callVars, sweep, opened, faults>>

-----------------------------------------------------------------------------
(* The session cleanup *)

\* SessionTTL passes without an activity.
Expire ==
  /\ tracked = "fresh"
  /\ tracked' = "stale"
  /\ UNCHANGED <<meta, seq, content, final, acl, callVars, jobs, sweep, historyVars>>

\* ZRANGEBYSCORE finds the chat.
SweepFind ==
  /\ sweep = "idle"
  /\ tracked = "stale"
  /\ sweep' = "unlink"
  /\ UNCHANGED <<redisVars, callVars, jobs, historyVars>>

\* PerformCleanup: SCAN for the chat's id and UNLINK.
UnlinkKeys ==
  /\ meta' = FALSE
  /\ seq' = NoKey
  /\ content' = [n \in Numbers |-> Nobody]
  /\ final' = [n \in Numbers |-> Nobody]
  /\ UNCHANGED <<acl, tracked>>

SweepUnlink ==
  /\ sweep = "unlink"
  /\ UnlinkKeys
  /\ sweep' = "maintain"
  /\ UNCHANGED <<callVars, jobs, historyVars>>

\* DBMaintainenceProc: the same once more in the data source ...
SweepMaintain ==
  /\ sweep = "maintain"
  /\ UnlinkKeys
  /\ sweep' = "users"
  /\ UNCHANGED <<callVars, jobs, historyVars>>

\* ... and CleanupTempUsers: the JIT users are deleted and their connections
\* killed, so a service that still holds a text cannot write any more.
SweepUsers ==
  /\ sweep = "users"
  /\ acl' = 0
  /\ jobs' = [j \in DOMAIN jobs |->
                IF jobs[j].st = "serving" THEN Queued(jobs[j].seq)
                ELSE [jobs[j] EXCEPT !.text = Nobody]]
  /\ sweep' = "forget"
  /\ UNCHANGED <<meta, seq, content, final, tracked, callVars, historyVars>>

\* ZREM, whatever the score is by now.
SweepForget ==
  /\ sweep = "forget"
  /\ tracked' = "no"
  /\ sweep' = "idle"
  /\ UNCHANGED <<meta, seq, content, final, acl, callVars, jobs, historyVars>>

-----------------------------------------------------------------------------

CallStep(r) ==
  \/ Send(r)
  \/ CheckMeta(r)
  \/ CheckKey(r)
  \/ SetContent(r)
  \/ Publish(r)
  \/ PublishFails(r)
  \/ Touch(r)
  \/ HandlerDies(r)
  \/ Subscribe(r)
  \/ GiveUp(r)
  \/ Receive(r)
  \/ ReceiveError(r)

JobStep(j) ==
  \/ Serve(j)
  \/ Deliver(j)
  \/ Grant(j)
  \/ Stamp(j)
  \/ StampFails(j)
  \/ Post(j)
  \/ PostFails(j)
  \/ Abort(j)
  \/ PostError(j)
  \/ PostErrorFails(j)
  \/ LateDeliver(j)
  \/ Redeliver(j)
  \/ Overtake(j)

SweepStep ==
  \/ SweepFind
  \/ SweepUnlink
  \/ SweepMaintain
  \/ SweepUsers
  \/ SweepForget

Next ==
  \/ \E r \in Requests : CallStep(r)
  \/ \E j \in DOMAIN jobs : JobStep(j)
  \/ SweepStep
  \/ Expire

Spec == Init /\ [][Next]_vars

-----------------------------------------------------------------------------
(* Properties *)

\* A reply answers the request it is the reply of: no late answer, no error and
\* no answer of another turn ends up with a reader of the same stream.
OwnAnswer ==
  \A r \in Requests : pc[r] = "replied" => answer[r] = r

\* It does, as long as no finalization was carried out twice: entries carry no
\* turn, so a second answer would be taken by the next reader.
FirstAnswerOwn == redelivered = 0 => OwnAnswer

\* "Prevents replay" (gateway README): one key opens one turn, also when the call
\* that opened it failed afterwards and the key is sent again: its reader gave
\* up or was told of an error, its handler died, its turn was aborted.
AcceptedOnce ==
  \A q, r \in opened : key[q] = key[r] => q = r

\* The pipeline never works on two turns of the chat, unless a finalization is
\* carried out twice: the mediator and the cipher keep per-chat state in memory
\* that two turns would share.
OneTurnAtATime ==
  redelivered = 0 =>
    \A j1, j2 \in DOMAIN jobs : Pending(j1) /\ Pending(j2) => j1 = j2

\* As long as every request was refused at the door or answered, and answered
\* once, the client holds the key the gateway waits for: the chat can go on.
CanGoOn ==
  redelivered = 0 /\ (\A r \in Requests : pc[r] \in {"new", "refused", "replied"})
    => seq \in {clientKey, NoKey}

\* An answer that has reached its reader can be read, unless the chat is swept
\* away or its finalization repeated: its credentials are still valid and its
\* content is there.
AnswerReadable ==
  redelivered = 0 =>
    \A r \in Requests :
      pc[r] = "read" /\ inbox[r].ok => Readable(inbox[r]) \/ ~meta

\* The number of SEQ_ goes up one by one, until two digits are not enough for
\* it and the chat falls back to an early turn.
TurnsInOrder ==
  [][seq # NoKey /\ seq' # NoKey /\ seq' # seq
       => seq'.num = seq.num + 1 \/ seq.num = Limit]_vars

\* gateway README ("deletes every Redis key matching the expired reqid"): once
\* a chat is out of the ZSet and nobody works on it, no key of it is left.
NothingLeftBehind ==
  /\ tracked = "no" /\ sweep = "idle"
  /\ \A r \in Requests : pc[r] \notin InHandler
  /\ \A j \in DOMAIN jobs : ~Pending(j)
  => ~meta /\ seq = NoKey /\ \A n \in Numbers : content[n] = Nobody /\ final[n] = Nobody

=============================================================================
