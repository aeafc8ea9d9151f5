------------------------------ MODULE TurnStages ------------------------------
(***************************************************************************)
(* One turn after the other of one chat through the three services: the    *)
(* REST dispatcher of the gateway mints the keys and the just-in-time user *)
(* of a call, posts it, repeats it and stops waiting for it; the cipher    *)
(* manager keeps the names of the chat in a cache and under the meta key;  *)
(* the mediator keeps the chat's LLM session in a cache and rebuilds it    *)
(* from the granted keys on a miss.  One action per Redis command, plus    *)
(* the steps on the caches and on the LLM's session.                       *)
(*                                                                         *)
(* A text is what the properties tell apart: whose it is, of which turn,   *)
(* and which names stand in it as tokens.  An LLM mentions everyone that   *)
(* it has been told of.  The next turn begins when the last one has its    *)
(* final content: a client gets the key of the next turn with the answer.  *)
(***************************************************************************)
EXTENDS Integers, Sequences, FiniteSets

SeqExt == INSTANCE SequencesExt

CONSTANTS
  LastTurn,    \* bound on the turns of the chat
  Threads,     \* the gateway's worker threads that may take the chat's message
  MaxCalls,    \* bound on the service calls that run at the same time
  Processes,   \* the cipher's worker processes, each with a cache of its own
  Names,       \* whom the user's texts mention
  Persons,     \* the names the person tagger finds; the others are card
               \* numbers and addresses
  Mentions,    \* the names in each turn's text
  Nobody,      \* no thread, no process
  MaxRepeats,  \* bound on second threads and on calls that are no longer awaited
  MaxFaults    \* bound on processes that die and on commands Redis refuses

Turns == 0 .. LastTurn
Slots == 1 .. MaxCalls
SessionIds == 1 .. MaxCalls + 1

\* The workers of the group, in the order of the configuration; the key of a
\* worker is what it reads, the key of the next one is what it writes.
CipherReq == 0
SendToGemini == 1
DecipherResp == 2
Done == 3

Stages == CipherReq .. DecipherResp
Workers == CipherReq .. Done

ASSUME StagesAssumption ==
  /\ LastTurn \in Nat
  /\ MaxCalls \in Nat \ {0}
  /\ Nobody \notin Threads \cup Processes
  /\ Persons \subseteq Names
  /\ Mentions \in [Turns -> SUBSET Names]
  /\ MaxRepeats \in Nat /\ MaxFaults \in Nat

VARIABLES
  (* the gateway *)
  pos,        \* the turn and the stage whose stream holds the chat's message
  th,         \* the threads: what each has taken up, and whether its password is current
  (* Redis *)
  text,       \* [Turns -> [Workers -> Text]]: seq_<turn>_..._wrkind_<worker>
  saved,      \* the names in the meta key
  rights,     \* the turn that each stage's JIT user was last granted
  (* the services *)
  call,       \* the calls that run
  cache,      \* each cipher process's model of the chat
  cached,     \* the session in the mediator's cache, or 0
  sess,       \* the LLM sessions: as built, and with what was said since
  (* observed *)
  crossed,    \* whether a mediator call ever ran beside another one, or was made
              \* or still to be made when its message moved on
  unsaved,    \* whether a cipher call ever failed with its names only in the cache
  stale,      \* whether a cipher process ever worked with a cached model, or saved
              \* one, that lacked a name another process had saved
  repeats, faults

gatewayVars == <<pos, th>>
redisVars   == <<text, saved, rights>>
memoryVars  == <<cache, cached, sess>>
seenVars    == <<crossed, unsaved, stale>>
boundVars   == <<repeats, faults>>
vars == <<gatewayVars, redisVars, call, memoryVars, seenVars, boundVars>>

Text  == [of : {"user", "ciphered", "reply", "final"}, turn : Turns, tokens : SUBSET Names]
Entry == [role : {"user", "model"}, text : Text]

NoText == [of |-> "none"]
NoTurn == -1

IdleThread == [st |-> "idle", turn |-> NoTurn, stage |-> Done, pwd |-> FALSE]

NoCall == [by |-> Nobody, stage |-> Done, turn |-> NoTurn, pc |-> "none",
           auth |-> FALSE, conn |-> FALSE, proc |-> Nobody, ses |-> 0,
           model |-> {}, dirty |-> FALSE, out |-> NoText]

\* A cache without an entry for the chat, and one with the model of it.
NoModel == [held |-> FALSE, names |-> {}]

Holding(model) == [held |-> TRUE, names |-> model]

NoSession == [built |-> <<>>, said |-> <<>>]

Phases == {"start", "tagged", "meta", "build", "keep", "ask", "asking", "replied",
           "ok", "bad"}

Call == [by : Threads \cup {Nobody}, stage : Stages, turn : Turns, pc : Phases,
         auth : BOOLEAN, conn : BOOLEAN, proc : Processes \cup {Nobody},
         ses : SessionIds \cup {0}, model : SUBSET Names, dirty : BOOLEAN,
         out : Text \cup {NoText}]

Thread == [st : {"grant", "post", "wait"}, turn : Turns, stage : Stages, pwd : BOOLEAN]

Session == [built : Seq(Entry), said : Seq(Entry)]

TypeOK ==
  /\ pos \in [turn : Turns, stage : Workers]
  /\ th \in [Threads -> Thread \cup {IdleThread}]
  /\ text \in [Turns -> [Workers -> Text \cup {NoText}]]
  /\ saved \in SUBSET Names
  /\ rights \in [Stages -> Turns \cup {NoTurn}]
  /\ call \in [Slots -> Call \cup {NoCall}]
  /\ cache \in [Processes -> [held : BOOLEAN, names : SUBSET Names]]
  /\ cached \in SessionIds \cup {0}
  /\ sess \in [SessionIds -> Session]
  /\ crossed \in BOOLEAN /\ unsaved \in BOOLEAN /\ stale \in BOOLEAN
  /\ repeats \in 0 .. MaxRepeats
  /\ faults \in 0 .. MaxFaults

UserText(t) == [of |-> "user", turn |-> t, tokens |-> {}]
Ciphered(t) == [of |-> "ciphered", turn |-> t, tokens |-> Mentions[t]]

\* The first request of the chat is in the first worker's stream.
Init ==
  /\ pos = [turn |-> 0, stage |-> CipherReq]
  /\ th = [h \in Threads |-> IdleThread]
  /\ text = [t \in Turns |-> [w \in Workers |->
               IF t = 0 /\ w = CipherReq THEN UserText(0) ELSE NoText]]
  /\ saved = {}
  /\ rights = [g \in Stages |-> NoTurn]
  /\ call = [s \in Slots |-> NoCall]
  /\ cache = [p \in Processes |-> NoModel]
  /\ cached = 0
  /\ sess = [i \in SessionIds |-> NoSession]
  /\ crossed = FALSE
  /\ unsaved = FALSE
  /\ stale = FALSE
  /\ repeats = 0
  /\ faults = 0

-----------------------------------------------------------------------------
(* The keys of a call *)

Key(t, w) == [turn |-> t, worker |-> w]

\* The keys of worker w for the last n turns up to turn t, the newest first.
GenerateKeysList(w, n, t) ==
  LET end == IF t - n + 1 < 0 THEN 0 ELSE t - n + 1
  IN IF n <= 0 \/ t < 0 THEN <<>> ELSE [i \in 1 .. t - end + 1 |-> Key(t - i + 1, w)]

\* One element of each list in turn, and then what is left of the longer one.
Interleave(userReq, modelResp) ==
  LET u == Len(userReq)
      m == Len(modelResp)
      both == IF u < m THEN u ELSE m
  IN [i \in 1 .. u + m |->
        IF i > 2 * both THEN (IF u > m THEN userReq ELSE modelResp)[i - both]
        ELSE IF i % 2 = 1 THEN userReq[(i + 1) \div 2] ELSE modelResp[i \div 2]]

\* Mutant: what the constructor sets until a reply has been seen.
LlmRepUnset == -1

\* llmRepWorkerIND of a dispatcher that the registry creates: Go's zero value.
LlmRepWorkerInd == 0

\* Mutant: the list of the replies is not one turn shorter.
GeminiKeysSameTurn(t) ==
  Interleave(GenerateKeysList(SendToGemini, 1000, t),
             GenerateKeysList(DecipherResp, 1000, t))

GeminiKeys(t) ==
  IF t > 0
  THEN Interleave(GenerateKeysList(SendToGemini, 1000, t),
                  GenerateKeysList(LlmRepWorkerInd, 1000, t - 1))
  ELSE GenerateKeysList(SendToGemini, 1000, t)

\* Mutant: a call is sent the key of its turn last.
ReadKeysOldestFirst(g, t) ==
  LET keys == IF g = SendToGemini THEN GeminiKeys(t) ELSE GenerateKeysList(g, 1, t)
  IN SeqExt!Reverse(keys)

\* ReadAccessKeys of a call of stage g for turn t.
ReadKeys(g, t) == IF g = SendToGemini THEN GeminiKeys(t) ELSE GenerateKeysList(g, 1, t)

\* WriteAccessKeys.
WriteKey(g, t) == Key(t, g + 1)

KeysOf(list) == {list[i] : i \in DOMAIN list}

\* What a key holds; a key of no worker holds nothing.
Value(k) == IF k.worker \in Workers THEN text[k.turn][k.worker] ELSE NoText

Stored(k) == Value(k) # NoText

\* The text a call works on is under the first of its keys.
Latest(s) == Head(ReadKeys(call[s].stage, call[s].turn))

\* The session is rebuilt from the others.
Earlier(s) == KeysOf(Tail(ReadKeys(call[s].stage, call[s].turn)))

-----------------------------------------------------------------------------
(* The JIT user of a call *)

\* A connection is authenticated when its first command is sent and stays so.
Opens(s) == call[s].conn \/ call[s].auth

MayRead(s, k) ==
  /\ Opens(s)
  /\ rights[call[s].stage] # NoTurn
  /\ k \in KeysOf(ReadKeys(call[s].stage, rights[call[s].stage]))

MayWrite(s, k) ==
  /\ Opens(s)
  /\ rights[call[s].stage] # NoTurn
  /\ k = WriteKey(call[s].stage, rights[call[s].stage])

\* Redis lets the next command of the call pass, and there is something to read.
Allowed(s) ==
  LET c == call[s]
  IN /\ c.pc = "start" /\ c.stage # SendToGemini => MayRead(s, Latest(s)) /\ Stored(Latest(s))
     /\ c.pc = "start" /\ c.stage = DecipherResp => MayWrite(s, WriteKey(c.stage, c.turn))
     /\ c.pc = "build" => \A k \in Earlier(s) : MayRead(s, k) /\ Stored(k)
     /\ c.pc = "ask" => MayRead(s, Latest(s)) /\ Stored(Latest(s))
     /\ c.pc \in {"tagged", "replied"} => MayWrite(s, WriteKey(c.stage, c.turn))

Live(s) == call[s].pc # "none"

AtMediator == {s \in Slots : call[s].stage = SendToGemini}

Goto(s, p) == call' = [call EXCEPT ![s].pc = p]

Write(k, v) == text' = [text EXCEPT ![k.turn][k.worker] = v]

-----------------------------------------------------------------------------
(* The gateway: the message of the turn and the dispatcher *)

\* The user's next request: SetContent and the message to the first worker.
NextTurn ==
  /\ pos.stage = Done
  /\ pos.turn < LastTurn
  /\ pos' = [turn |-> pos.turn + 1, stage |-> CipherReq]
  /\ Write(Key(pos.turn + 1, CipherReq), UserText(pos.turn + 1))
  /\ UNCHANGED <<th, saved, rights, call, memoryVars, seenVars, boundVars>>

\* A thread fetches the message, or reclaims it from one that is slow.
TakeUp(h) ==
  /\ th[h].st = "idle"
  /\ pos.stage # Done
  /\ LET others == {g \in Threads : th[g].turn = pos.turn /\ th[g].stage = pos.stage}
     IN IF others = {} THEN repeats' = repeats
        ELSE repeats < MaxRepeats /\ repeats' = repeats + 1
  /\ th' = [th EXCEPT ![h] = [st |-> "grant", turn |-> pos.turn, stage |-> pos.stage,
                              pwd |-> FALSE]]
  /\ UNCHANGED <<pos, redisVars, call, memoryVars, seenVars, faults>>

\* ACL SETUSER <group>_<worker>_ACL_<chat_id> reset: the keys of this turn, and
\* a new password, so that whoever was given the last one is locked out.
Grant(h) ==
  LET g == th[h].stage
  IN /\ th[h].st = "grant"
     /\ rights' = [rights EXCEPT ![g] = th[h].turn]
     /\ th' = [i \in Threads |->
                 IF i = h THEN [th[i] EXCEPT !.st = "post", !.pwd = TRUE]
                 ELSE IF th[i].stage = g THEN [th[i] EXCEPT !.pwd = FALSE] ELSE th[i]]
     /\ call' = [s \in Slots |->
                   IF call[s].stage = g THEN [call[s] EXCEPT !.auth = FALSE] ELSE call[s]]
     /\ UNCHANGED <<pos, text, saved, memoryVars, seenVars, boundVars>>

\* One attempt of the HTTP client: the same body each time.
Post(h) ==
  /\ th[h].st = "post"
  /\ \E s \in Slots :
       /\ ~Live(s) /\ \A r \in 1 .. s - 1 : Live(r)
       /\ call' = [call EXCEPT ![s] =
                     [NoCall EXCEPT !.by = h, !.stage = th[h].stage, !.turn = th[h].turn,
                                    !.pc = "start", !.auth = th[h].pwd]]
  /\ th' = [th EXCEPT ![h].st = "wait"]
  /\ crossed' = (\/ crossed
                 \/ th[h].stage = SendToGemini /\ AtMediator # {})
  /\ UNCHANGED <<pos, redisVars, memoryVars, unsaved, stale, boundVars>>

\* Mutant: whoever is answered moves the message on, wherever it is by then.
MoveOnAnyway(c) == pos' = [pos EXCEPT !.stage = @ + 1]

\* The message goes to the next worker's stream, unless another thread has
\* acknowledged it before.
MoveOn(c) ==
  pos' = IF c.turn = pos.turn /\ c.stage = pos.stage
         THEN [pos EXCEPT !.stage = @ + 1] ELSE pos

\* 200: Dowork succeeds.
Answered(s) ==
  /\ call[s].pc = "ok" /\ call[s].by # Nobody
  /\ MoveOn(call[s])
  /\ th' = [th EXCEPT ![call[s].by] = IdleThread]
  /\ call' = [call EXCEPT ![s] = NoCall]
  /\ crossed' = (\/ crossed
                 \/ /\ s \in AtMediator
                    /\ \/ AtMediator # {s}
                       \/ \E h \in Threads \ {call[s].by} : th[h].stage = SendToGemini)
  /\ UNCHANGED <<redisVars, memoryVars, unsaved, stale, boundVars>>

\* 500: the HTTP client tries again, or has done so often enough.
Failed(s) ==
  /\ call[s].pc = "bad" /\ call[s].by # Nobody
  /\ \/ th' = [th EXCEPT ![call[s].by].st = "post"]
     \/ th' = [th EXCEPT ![call[s].by] = IdleThread]
  /\ call' = [call EXCEPT ![s] = NoCall]
  /\ UNCHANGED <<pos, redisVars, memoryVars, seenVars, boundVars>>

\* Only send_to_gemini has a timeout; the call goes on without its caller.
TimedOut(s) ==
  /\ call[s].stage = SendToGemini /\ call[s].by # Nobody
  /\ repeats < MaxRepeats
  /\ repeats' = repeats + 1
  /\ \/ th' = [th EXCEPT ![call[s].by].st = "post"]
     \/ th' = [th EXCEPT ![call[s].by] = IdleThread]
  /\ call' = [call EXCEPT ![s].by = Nobody]
  /\ UNCHANGED <<pos, redisVars, memoryVars, seenVars, faults>>

\* The context of a call that nobody awaits is cancelled sooner or later.
Cancelled(s) ==
  /\ Live(s) /\ call[s].by = Nobody
  /\ call' = [call EXCEPT ![s] = NoCall]
  /\ UNCHANGED <<gatewayVars, redisVars, memoryVars, seenVars, boundVars>>

-----------------------------------------------------------------------------
(* Any service *)

\* The call failed after its names were put into the process's model.
Unsaved(s) == unsaved' = (unsaved \/ call[s].pc \in {"tagged", "meta"})

\* Wrong password, no permission, or no such key.
Denied(s) ==
  /\ Live(s) /\ ~Allowed(s)
  /\ Unsaved(s)
  /\ Goto(s, "bad")
  /\ UNCHANGED <<gatewayVars, redisVars, memoryVars, crossed, stale, boundVars>>

\* Redis does not carry out the SET.
Refused(s) ==
  /\ call[s].pc \in {"tagged", "meta", "replied"}
  /\ faults < MaxFaults
  /\ faults' = faults + 1
  /\ Unsaved(s)
  /\ Goto(s, "bad")
  /\ UNCHANGED <<gatewayVars, redisVars, memoryVars, crossed, stale, repeats>>

-----------------------------------------------------------------------------
(* The cipher manager *)

\* A process handles its requests one at a time: the routes are coroutines
\* that never wait.
Free(p) == \A s \in Slots : call[s].proc = p => call[s].pc \in {"none", "ok", "bad"}

\* Mutant: a process that does not know the chat starts from nothing.
LoadModelFresh(p) == IF cache[p].held THEN cache[p].names ELSE {}

\* From the cache, or from the meta key.
LoadModel(p) == IF cache[p].held THEN cache[p].names ELSE saved

\* The process's cached model lacks a name that was saved.
Behind(p) == cache[p].held /\ ~(saved \subseteq cache[p].names)

\* tag_text: the model in the cache is changed in place.  A person counts as a
\* change each time, a card number or an address only when it is new.
Tag(s, p) ==
  LET t == call[s].turn
      model == LoadModel(p) \cup Mentions[t]
  IN /\ call[s].stage = CipherReq /\ call[s].pc = "start"
     /\ Allowed(s)
     /\ Free(p)
     /\ cache' = [cache EXCEPT ![p] = Holding(model)]
     /\ stale' = (stale \/ Behind(p))
     /\ call' = [call EXCEPT ![s].pc = "tagged", ![s].conn = TRUE, ![s].proc = p,
                   ![s].model = model, ![s].out = Ciphered(t),
                   ![s].dirty = Mentions[t] \cap Persons # {}
                                \/ ~(Mentions[t] \subseteq LoadModel(p))]
     /\ UNCHANGED <<gatewayVars, redisVars, cached, sess, crossed, unsaved, boundVars>>

\* SET of the ciphered text, before the names it needs are saved.
SaveText(s) ==
  /\ call[s].pc = "tagged"
  /\ Allowed(s)
  /\ Write(WriteKey(CipherReq, call[s].turn), call[s].out)
  /\ Goto(s, IF call[s].dirty THEN "meta" ELSE "ok")
  /\ UNCHANGED <<gatewayVars, saved, rights, memoryVars, seenVars, boundVars>>

\* SET of the meta key, whatever another process has saved by now.
SaveModel(s) ==
  /\ call[s].pc = "meta"
  /\ saved' = call[s].model
  /\ stale' = (stale \/ ~(saved \subseteq call[s].model))
  /\ cache' = [cache EXCEPT ![call[s].proc] = Holding(call[s].model)]
  /\ Goto(s, "ok")
  /\ UNCHANGED <<gatewayVars, text, rights, cached, sess, crossed, unsaved, boundVars>>

\* The tokens that the model knows are replaced.
Decipher(s, p) ==
  LET model == LoadModel(p)
      reply == Value(Latest(s))
  IN /\ call[s].stage = DecipherResp /\ call[s].pc = "start"
     /\ Allowed(s)
     /\ Free(p)
     /\ cache' = [cache EXCEPT ![p] = Holding(model)]
     /\ stale' = (stale \/ Behind(p))
     /\ Write(WriteKey(DecipherResp, call[s].turn),
              [of |-> "final", turn |-> reply.turn, tokens |-> reply.tokens \ model])
     /\ Goto(s, "ok")
     /\ UNCHANGED <<gatewayVars, saved, rights, cached, sess, crossed, unsaved, boundVars>>

\* The entry of the chat is too old.
Expire(p) ==
  /\ cache[p].held
  /\ cache' = [cache EXCEPT ![p] = NoModel]
  /\ UNCHANGED <<gatewayVars, redisVars, call, cached, sess, seenVars, boundVars>>

\* A process dies and is started again.
ProcessDies(p) ==
  /\ faults < MaxFaults
  /\ faults' = faults + 1
  /\ cache' = [cache EXCEPT ![p] = NoModel]
  /\ call' = [s \in Slots |->
                IF call[s].proc = p /\ call[s].pc \in {"tagged", "meta"}
                THEN [call[s] EXCEPT !.pc = "bad"] ELSE call[s]]
  /\ UNCHANGED <<gatewayVars, redisVars, cached, sess, seenVars, repeats>>

-----------------------------------------------------------------------------
(* The mediator *)

\* sessions.Get
LookUp(s) ==
  /\ call[s].stage = SendToGemini /\ call[s].pc = "start"
  /\ call' = [call EXCEPT ![s].ses = cached,
                          ![s].pc = IF cached # 0 THEN "keep" ELSE "build"]
  /\ UNCHANGED <<gatewayVars, redisVars, memoryVars, seenVars, boundVars>>

\* The history that reconstructChat makes of the keys after the first: in their
\* order, and user, model, user, ... from the first of them on.
History(t) ==
  LET keys == Tail(ReadKeys(SendToGemini, t))
  IN [i \in DOMAIN keys |->
        [role |-> IF i % 2 = 1 THEN "user" ELSE "model", text |-> Value(keys[i])]]

\* Mutant: an empty session, like the one of the mock provider.
RebuiltEmpty(t) == <<>>

\* CreateSession: an empty session for the first turn.
Rebuilt(t) == IF Len(ReadKeys(SendToGemini, t)) > 1 THEN History(t) ELSE <<>>

Build(s) ==
  /\ call[s].pc = "build"
  /\ Allowed(s)
  /\ \E i \in SessionIds \ ({cached} \cup {call[r].ses : r \in Slots}) :
       /\ \A j \in 1 .. i - 1 : j = cached \/ \E r \in Slots : call[r].ses = j
       /\ sess' = [sess EXCEPT ![i] = [built |-> Rebuilt(call[s].turn), said |-> <<>>]]
       /\ call' = [call EXCEPT ![s].pc = "keep", ![s].ses = i,
                               ![s].conn = @ \/ Earlier(s) # {}]
  /\ UNCHANGED <<gatewayVars, redisVars, cache, cached, seenVars, boundVars>>

\* sessions.Set, whatever the cache holds by now.
Keep(s) ==
  /\ call[s].pc = "keep"
  /\ cached' = call[s].ses
  /\ Goto(s, "ask")
  /\ UNCHANGED <<gatewayVars, redisVars, cache, sess, seenVars, boundVars>>

\* Everyone the LLM has been told of in this session.
ToldOf(ses) ==
  (UNION {ses.built[i].text.tokens : i \in DOMAIN ses.built})
    \cup (UNION {ses.said[i].text.tokens : i \in DOMAIN ses.said})

\* GET of the prompt, and the request to the LLM with the session so far.  The
\* connection is not kept while the LLM works (ConnMaxIdleTime), so the reply is
\* stored over a new one.
Ask(s) ==
  LET prompt == Value(Latest(s))
  IN /\ call[s].pc = "ask"
     /\ Allowed(s)
     /\ call' = [call EXCEPT ![s].pc = "asking", ![s].conn = FALSE,
                   ![s].out = [of |-> "reply", turn |-> prompt.turn,
                               tokens |-> prompt.tokens \cup ToldOf(sess[call[s].ses])]]
     /\ UNCHANGED <<gatewayVars, redisVars, memoryVars, seenVars, boundVars>>

\* The reply arrives, and prompt and reply become part of the session.
Reply(s) ==
  LET said == <<[role |-> "user", text |-> Value(Latest(s))],
                [role |-> "model", text |-> call[s].out]>>
  IN /\ call[s].pc = "asking"
     /\ sess' = [sess EXCEPT ![call[s].ses].said = @ \o said]
     /\ Goto(s, "replied")
     /\ UNCHANGED <<gatewayVars, redisVars, cache, cached, seenVars, boundVars>>

\* The LLM fails, or does not answer before the handler's context ends.
LlmFails(s) ==
  /\ call[s].pc = "asking"
  /\ Goto(s, "bad")
  /\ UNCHANGED <<gatewayVars, redisVars, memoryVars, seenVars, boundVars>>

SaveReply(s) ==
  /\ call[s].pc = "replied"
  /\ Allowed(s)
  /\ Write(WriteKey(SendToGemini, call[s].turn), call[s].out)
  /\ Goto(s, "ok")
  /\ UNCHANGED <<gatewayVars, saved, rights, memoryVars, seenVars, boundVars>>

\* Ten minutes without a call, or a new pod.
Evict ==
  /\ cached # 0
  /\ cached' = 0
  /\ UNCHANGED <<gatewayVars, redisVars, call, cache, sess, seenVars, boundVars>>

-----------------------------------------------------------------------------

ThreadStep(h) ==
  \/ TakeUp(h)
  \/ Grant(h)
  \/ Post(h)

CallStep(s) ==
  \/ Answered(s)
  \/ Failed(s)
  \/ TimedOut(s)
  \/ Cancelled(s)
  \/ Denied(s)
  \/ Refused(s)

ProcessRedisContent(s) ==
  \/ LookUp(s)
  \/ Build(s)
  \/ Keep(s)
  \/ Ask(s)
  \/ Reply(s)
  \/ LlmFails(s)
  \/ SaveReply(s)

CipherStep(s) ==
  \/ \E p \in Processes : Tag(s, p)
  \/ SaveText(s)
  \/ SaveModel(s)
  \/ \E p \in Processes : Decipher(s, p)

Next ==
  \/ NextTurn
  \/ \E h \in Threads : ThreadStep(h)
  \/ \E s \in Slots : CallStep(s) \/ ProcessRedisContent(s) \/ CipherStep(s)
  \/ \E p \in Processes : Expire(p) \/ ProcessDies(p)
  \/ Evict

Spec == Init /\ [][Next]_vars

-----------------------------------------------------------------------------
(* Properties *)

\* What the user is shown holds no token: whoever deciphers a reply knows every
\* name the LLM may mention in it, whatever was cached, forgotten or repeated,
\* and whichever process it is.  Two things spoil it: a cipher call that fails
\* half-way (its repetition finds the names in the cache and does not save
\* them), and a process that goes on with a model that another one has outdated.
TokensResolved ==
  \A t \in Turns :
    text[t][Done] # NoText /\ ~unsaved /\ ~stale => text[t][Done].tokens = {}

\* README.md ("regex-substitute every PER_xxx token back to the original name"),
\* whichever of the cipher's processes is asked.
EveryTokenResolved ==
  \A t \in Turns : text[t][Done] # NoText => text[t][Done].tokens = {}

\* The reply stored for a turn, and the content made of it, answer that turn's
\* prompt, however many calls for this and for other turns were under way.
ReplyAnswersTurn ==
  \A t \in Turns : \A w \in {DecipherResp, Done} :
    text[t][w] # NoText => text[t][w].turn = t

\* Every key that a call may read holds something when the call is made: a
\* session can be rebuilt at any time, and no call fails for a missing key.
HistoryKeysExist ==
  \A s \in Slots :
    Live(s) => \A k \in KeysOf(ReadKeys(call[s].stage, call[s].turn)) : Stored(k)

\* A prompt in a session continues the chat: it is the ciphered text of the
\* same turn as the prompt before it or of the next one, the first of the first.
Continues(said, i) ==
  LET turn == said[i].text.turn
  IN /\ said[i].role = "user" /\ said[i].text = Ciphered(turn)
     /\ said[i + 1].role = "model" /\ said[i + 1].text.turn = turn
     /\ IF i = 1 THEN turn = 0 ELSE turn - said[i - 2].text.turn \in {0, 1}

\* As long as the mediator's calls came one by one and in order, a session that was begun
\* with the chat holds the prompts of its turns, in order and without a gap.
ChatRemembered ==
  ~crossed =>
    \A i \in SessionIds : sess[i].built = <<>> =>
      \A k \in DOMAIN sess[i].said : k % 2 = 1 => Continues(sess[i].said, k)

\* What was said until turn t.
ChatUntil(t) ==
  [i \in 1 .. 2 * t |->
     IF i % 2 = 1 THEN [role |-> "user", text |-> text[(i - 1) \div 2][SendToGemini]]
     ELSE [role |-> "model", text |-> text[i \div 2 - 1][DecipherResp]]]

\* mediator README ("sdkHistory=[user_0, model_0, user_1, model_1, ...]"): a
\* session that is rebuilt holds every prior turn, in order and by its speaker.
ReplayIsTheChat ==
  \A i \in SessionIds :
    sess[i].built # <<>> => \E t \in Turns : sess[i].built = ChatUntil(t)

=============================================================================
