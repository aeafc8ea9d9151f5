--------------------------- MODULE TurnMemoryProofs ---------------------------
(* What the services remember of a chat, proved for every instance: the LLM   *)
(* session of a chat whose mediator calls came one by one, and the names that *)
(* the processes of the cipher know.                                          *)
EXTENDS TurnStagesProofs

USE DEF CipherReq, SendToGemini, DecipherResp, Done, Stages, Workers

-----------------------------------------------------------------------------
(* The LLM session. *)

\* The turn of the last prompt in a session.
LastPrompt(said) == said[Len(said) - 1].text.turn

\* A session that began with the chat is told of turn t next.
DueIn(ses, t) ==
  ses.built = <<>> => IF ses.said = <<>> THEN t = 0 ELSE t - LastPrompt(ses.said) \in {0, 1}

\* ... was told of turn t last.
ToldIn(ses, t) == ses.built = <<>> => ses.said # <<>> /\ LastPrompt(ses.said) = t

\* ... holds the turns in order.
InOrder(said) ==
  /\ Len(said) % 2 = 0
  /\ \A k \in DOMAIN said : k % 2 = 1 => Continues(said, k)

\* The mediator has one call at most, and its threads and its call are about the
\* turn that the message is at.
OneByOne ==
  /\ \A s \in Slots, r \in Slots :
       call[s].stage = SendToGemini /\ call[r].stage = SendToGemini => s = r
  /\ \A s \in Slots : call[s].stage = SendToGemini =>
       pos.stage = SendToGemini /\ call[s].turn = pos.turn
  /\ \A h \in Threads : th[h].stage = SendToGemini =>
       pos.stage = SendToGemini /\ th[h].turn = pos.turn

\* The session that a call uses, and the one in the cache, are where the chat is.
CallMemory(s) ==
  /\ call[s].pc \in {"keep", "ask", "asking"} => DueIn(sess[call[s].ses], call[s].turn)
  /\ call[s].pc \in {"replied", "ok"} => ToldIn(sess[call[s].ses], call[s].turn)
  /\ call[s].pc \in {"ask", "asking", "replied", "ok"} => cached \in {0, call[s].ses}

CacheMemory ==
  cached # 0 => /\ pos.stage <= SendToGemini => DueIn(sess[cached], pos.turn)
                /\ pos.stage > SendToGemini => ToldIn(sess[cached], pos.turn)

Memory ==
  /\ \A s \in Slots : call[s].stage = SendToGemini => CallMemory(s)
  /\ CacheMemory
  /\ \A i \in SessionIds : sess[i].built = <<>> => InOrder(sess[i].said)

MemoryInv == ~crossed => OneByOne /\ Memory

\* A session in order goes on in order with a prompt that was due and its reply.
LEMMA SaidGrows ==
  ASSUME NEW said \in Seq(Entry), InOrder(said), NEW a \in Entry, NEW b \in Entry,
         NEW t \in Turns, a.role = "user", a.text = Ciphered(t),
         b.role = "model", b.text.turn = t,
         IF said = <<>> THEN t = 0 ELSE t - LastPrompt(said) \in {0, 1}
  PROVE  /\ InOrder(said \o <<a, b>>)
         /\ said \o <<a, b>> # <<>>
         /\ LastPrompt(said \o <<a, b>>) = t
<1> DEFINE n == Len(said)
           new == said \o <<a, b>>
<1>1. n \in Nat /\ n % 2 = 0 /\ DOMAIN said = 1 .. n
  BY LenProperties DEF InOrder
<1>2. <<a, b>> \in Seq(Entry) /\ Len(<<a, b>>) = 2 /\ <<a, b>>[1] = a /\ <<a, b>>[2] = b
  OBVIOUS
<1>3. /\ new \in Seq(Entry) /\ Len(new) = n + 2
      /\ \A i \in 1 .. n + 2 : new[i] = IF i <= n THEN said[i] ELSE <<a, b>>[i - n]
  BY <1>2, ConcatProperties
<1> HIDE DEF new, n
<1>4. DOMAIN new = 1 .. n + 2
  BY <1>3, LenProperties
<1>5. new[n + 1] = a /\ new[n + 2] = b
  <2>1. n + 1 \in 1 .. n + 2 /\ n + 2 \in 1 .. n + 2 /\ ~(n + 1 <= n) /\ ~(n + 2 <= n)
        /\ (n + 1) - n = 1 /\ (n + 2) - n = 2
    BY <1>1
  <2>2. QED
    BY <1>2, <1>3, <2>1
<1>6. \A i \in 1 .. n : new[i] = said[i]
  BY <1>1, <1>3
<1>7. ASSUME NEW k \in 1 .. n + 2, k % 2 = 1 PROVE Continues(new, k)
  <2>1. CASE k \in 1 .. n
    <3>1. k + 1 \in 1 .. n /\ (k = 1 \/ k - 2 \in 1 .. n)
      BY <1>1, <1>7, <2>1
    <3>2. Continues(said, k)
      BY <1>1, <1>7, <2>1 DEF InOrder
    <3>3. new[k] = said[k] /\ new[k + 1] = said[k + 1] /\ (k # 1 => new[k - 2] = said[k - 2])
      BY <1>6, <2>1, <3>1
    <3>4. QED
      BY <3>2, <3>3 DEF Continues
  <2>2. CASE k \notin 1 .. n
    <3>1. k = n + 1
      BY <1>1, <1>7, <2>2
    <3>2. new[k] = a /\ new[k + 1] = b
      <4>1. k + 1 = n + 2
        BY <1>1, <3>1
      <4>2. QED
        BY <1>5, <3>1, <4>1
    <3>3. a.text.turn = t
      BY DEF Ciphered
    <3>4. k = 1 => t = 0
      <4>1. k = 1 => n = 0
        BY <1>1, <3>1
      <4>2. n = 0 => said = <<>>
        BY EmptySeq DEF n
      <4>3. QED
        BY <4>1, <4>2
    <3>5. k # 1 => t - new[k - 2].text.turn \in {0, 1}
      <4>1. k # 1 => k - 2 \in 1 .. n /\ k - 2 = n - 1 /\ said # <<>>
        BY <1>1, <3>1 DEF n
      <4>2. k # 1 => new[k - 2].text.turn = LastPrompt(said)
        BY <1>6, <4>1 DEF LastPrompt, n
      <4>3. QED
        BY <4>1, <4>2
    <3>6. QED
      BY <3>2, <3>3, <3>4, <3>5 DEF Continues
  <2>3. QED
    BY <2>1, <2>2
<1>8. InOrder(new)
  BY <1>1, <1>3, <1>4, <1>7 DEF InOrder
<1>9. new # <<>> /\ LastPrompt(new) = t
  <2>1. Len(new) - 1 = n + 1 /\ Len(new) # 0
    BY <1>1, <1>3
  <2>2. QED
    BY <1>5, <2>1 DEF LastPrompt, Ciphered
<1>10. QED
  BY <1>8, <1>9 DEF new

\* Once mediator calls have crossed, they have.
LEMMA CrossedStays ==
  ASSUME StageInv, [Next]_vars, ~crossed'
  PROVE  ~crossed
<1>1. ASSUME NEW s \in Slots, Service(s) PROVE UNCHANGED crossed
  BY <1>1, ServiceCalls DEF StageInv
<1>2. ASSUME NEW s \in Slots, Answered(s) PROVE ~crossed
  BY <1>2 DEF Answered
<1>3. ASSUME NEW h \in Threads, Post(h) PROVE ~crossed
  BY <1>3 DEF Post
<1>4. QED
  BY <1>1, <1>2, <1>3, NextSteps DEF NextTurn, TakeUp, Grant, Failed,
    TimedOut, Cancelled, Expire, ProcessDies, Evict, seenVars, vars

\* The steps that leave the message, the threads' work and the calls' places.
QuietGate ==
  /\ UNCHANGED pos
  /\ \A h \in Threads : th'[h].turn = th[h].turn /\ th'[h].stage = th[h].stage
  /\ \A s \in Slots : SameCall(s)

\* A step leaves the message, the threads' work and the calls' places, or takes the
\* message up, posts a call, ends one, or begins the next turn.
LEMMA QuietSteps ==
  ASSUME StageInv, [Next]_vars
  PROVE  \/ QuietGate
         \/ NextTurn \/ (\E h \in Threads : TakeUp(h) \/ Post(h))
         \/ \E s \in Slots : Ends(s)
<1>0. TypeOK /\ PhaseInv
  BY DEF StageInv
<1>1. ASSUME NEW s \in Slots, Service(s) PROVE QuietGate
  BY <1>0, <1>1, ServiceCalls DEF QuietGate, SameCall
<1>2. ASSUME NEW h \in Threads, Grant(h) PROVE QuietGate
  <2>1. UNCHANGED pos
    BY <1>2 DEF Grant
  <2>2. QED
    BY <1>0, <1>2, <2>1, GrantThreads, OthersCalls DEF QuietGate
<1>3. CASE (\E p \in Processes : Expire(p) \/ ProcessDies(p)) \/ Evict \/ UNCHANGED vars
  <2>1. UNCHANGED pos /\ UNCHANGED th /\ (UNCHANGED call \/ \E p \in Processes : ProcessDies(p))
    BY <1>3 DEF Expire, ProcessDies, Evict, vars, gatewayVars
  <2>2. QED
    BY <1>0, <2>1, OthersCalls DEF QuietGate
<1>4. QED
  BY <1>1, <1>2, <1>3, NextSteps DEF Ends

\* As long as nothing crosses, the mediator's calls come one by one.
LEMMA OneByOneStep ==
  ASSUME StageInv, OneByOne, [Next]_vars, ~crossed'
  PROVE  OneByOne'
<1>0. TypeOK /\ GateInv /\ PhaseInv
  BY DEF StageInv
<1>a. NoCall.stage = Done /\ IdleThread.stage = Done
  BY DEF NoCall, IdleThread
<1>1. CASE QuietGate
  BY <1>1 DEF QuietGate, SameCall, OneByOne
<1>2. CASE NextTurn
  BY <1>2 DEF NextTurn, OneByOne
<1>3. ASSUME NEW h \in Threads, TakeUp(h) PROVE OneByOne'
  <2>1. /\ UNCHANGED <<pos, call>>
        /\ th' = [th EXCEPT ![h] = [st |-> "grant", turn |-> pos.turn, stage |-> pos.stage,
                                    pwd |-> FALSE]]
    BY <1>3 DEF TakeUp
  <2>2. /\ th'[h].turn = pos.turn /\ th'[h].stage = pos.stage
        /\ \A i \in Threads \ {h} : th'[i] = th[i]
    BY <1>0, <2>1 DEF TypeOK
  <2>3. QED
    BY <2>1, <2>2 DEF OneByOne
<1>4. ASSUME NEW h \in Threads, Post(h) PROVE OneByOne'
  <2>1. PICK s \in Slots :
          /\ call[s] = NoCall
          /\ call'[s].stage = th[h].stage /\ call'[s].turn = th[h].turn
          /\ \A r \in Slots \ {s} : call'[r] = call[r]
    BY <1>0, <1>4, PostCall
  <2>2. th' = [th EXCEPT ![h].st = "wait"] /\ th[h] \in Thread /\ UNCHANGED pos
    BY <1>0, <1>4, PostCall DEF Post
  <2>3. \A i \in Threads : th'[i].turn = th[i].turn /\ th'[i].stage = th[i].stage
    BY <1>0, <2>2 DEF TypeOK, Thread
  <2>4. th[h].stage = SendToGemini => \A r \in Slots : call[r].stage # SendToGemini
    BY <1>4 DEF Post, AtMediator
  <2>5. \A r \in Slots : call'[r].stage = SendToGemini =>
          \/ r = s /\ th[h].stage = SendToGemini
          \/ r # s /\ call'[r] = call[r] /\ th[h].stage # SendToGemini
    BY <2>1, <2>4
  <2>6. \A r \in Slots, q \in Slots :
          call'[r].stage = SendToGemini /\ call'[q].stage = SendToGemini => r = q
    BY <2>5 DEF OneByOne
  <2>7. \A r \in Slots : call'[r].stage = SendToGemini =>
          pos'.stage = SendToGemini /\ call'[r].turn = pos'.turn
    BY <2>1, <2>2, <2>5 DEF OneByOne
  <2>8. QED
    BY <2>2, <2>3, <2>6, <2>7 DEF OneByOne
<1>5. ASSUME NEW s \in Slots, Ends(s) PROVE OneByOne'
  <2>1. /\ \A r \in Slots : call'[r].stage = SendToGemini =>
             call[r].stage = SendToGemini /\ call'[r].turn = call[r].turn
        /\ \A h \in Threads : th'[h].stage = SendToGemini =>
             th[h].stage = SendToGemini /\ th'[h].turn = th[h].turn
    <3>1. /\ \/ call'[s] = NoCall
             \/ call'[s].stage = call[s].stage /\ call'[s].turn = call[s].turn
          /\ \A r \in Slots \ {s} : call'[r] = call[r]
          /\ \A h \in Threads :
               \/ th'[h] = IdleThread
               \/ th'[h].turn = th[h].turn /\ th'[h].stage = th[h].stage
      BY <1>0, <1>5, EndedCall
    <3>2. QED
      BY <1>a, <3>1
  <2>2. CASE UNCHANGED pos
    BY <2>1, <2>2 DEF OneByOne
  <2>3. CASE Answered(s) /\ pos' # pos
    <3>1. call[s].turn = pos.turn /\ call[s].stage = pos.stage
      BY <2>3 DEF Answered, MoveOn
    <3>2. CASE call[s].stage = SendToGemini
      <4>1. /\ \A r \in Slots \ {s} : call[r].stage # SendToGemini
            /\ \A h \in Threads \ {call[s].by} : th[h].stage # SendToGemini
        BY <2>3, <3>2 DEF Answered, AtMediator
      <4>2. call'[s] = NoCall /\ call[s].by \in Threads /\ th'[call[s].by] = IdleThread
        <5>1. /\ call[s].by # Nobody /\ call' = [call EXCEPT ![s] = NoCall]
              /\ th' = [th EXCEPT ![call[s].by] = IdleThread]
          BY <2>3 DEF Answered
        <5>2. call[s].by \in Threads
          BY <1>0, <5>1, Awaited
        <5>3. QED
          BY <1>0, <5>1, <5>2 DEF TypeOK
      <4>3. /\ \A r \in Slots : call'[r].stage # SendToGemini
            /\ \A h \in Threads : th'[h].stage # SendToGemini
        BY <1>a, <2>1, <4>1, <4>2
      <4>4. QED
        BY <4>3 DEF OneByOne
    <3>3. CASE call[s].stage # SendToGemini
      <4>1. /\ \A r \in Slots : call'[r].stage # SendToGemini
            /\ \A h \in Threads : th'[h].stage # SendToGemini
        BY <2>1, <3>1, <3>3 DEF OneByOne
      <4>2. QED
        BY <4>1 DEF OneByOne
    <3>4. QED
      BY <3>2, <3>3
  <2>4. QED
    BY <1>5, <2>2, <2>3 DEF Ends, Failed, TimedOut, Cancelled, gatewayVars
<1>6. QED
  BY <1>1, <1>2, <1>3, <1>4, <1>5, QuietSteps

\* A call whose session is as it was, or about which nothing is claimed.
SameMemory(s) ==
  \/ call'[s].pc \in {"start", "build", "bad"}
  \/ /\ call[s].stage = SendToGemini
     /\ call'[s].ses = call[s].ses /\ call'[s].turn = call[s].turn
     /\ \/ call'[s].pc = call[s].pc
        \/ call[s].pc = "ask" /\ call'[s].pc = "asking"
        \/ call[s].pc = "replied" /\ call'[s].pc = "ok"

\* The message is where it was, or has moved on without passing the mediator.
SameSide ==
  /\ pos'.turn = pos.turn
  /\ pos'.stage <= SendToGemini <=> pos.stage <= SendToGemini

\* A step that does not touch the sessions keeps what is remembered.
LEMMA QuietMemory ==
  ASSUME StageInv, Memory, UNCHANGED sess, cached' \in {0, cached}, SameSide,
         pos'.stage \in 0 .. 3,
         \A s \in Slots : call'[s].stage = SendToGemini => SameMemory(s)
  PROVE  Memory'
<1>0. pos.stage \in 0 .. 3
  BY Numbers DEF StageInv
<1>1. CacheMemory'
  BY <1>0 DEF Memory, CacheMemory, SameSide
<1>2. ASSUME NEW s \in Slots, call'[s].stage = SendToGemini PROVE CallMemory(s)'
  <2>1. CASE call'[s].pc \in {"start", "build", "bad"}
    BY <2>1 DEF CallMemory
  <2>2. CASE ~(call'[s].pc \in {"start", "build", "bad"})
    <3>1. SameMemory(s) /\ CallMemory(s)
      BY <1>2, <2>2 DEF SameMemory, Memory
    <3>2. QED
      BY <2>2, <3>1 DEF SameMemory, CallMemory
  <2>3. QED
    BY <2>1, <2>2
<1>3. QED
  BY <1>1, <1>2 DEF Memory

\* The steps of the gateway and of the cipher, and those that only forget.
LEMMA QuietMemorySteps ==
  ASSUME StageInv, OneByOne, Memory, [Next]_vars,
         ~NextTurn, \A s \in Slots : ~(Answered(s) /\ call[s].stage = SendToGemini),
         \A s \in Slots : ~LookUp(s) /\ ~Build(s) /\ ~Keep(s) /\ ~Reply(s)
  PROVE  Memory'
<1>0. TypeOK /\ GateInv /\ PhaseInv
  BY DEF StageInv
<1>a. NoCall.stage = Done
  BY DEF NoCall
<1>1. UNCHANGED sess
  BY SessionSteps
<1>2. cached' \in {0, cached}
  <2>1. ASSUME NEW s \in Slots, Service(s) PROVE UNCHANGED cached
    BY <2>1 DEF Service, Denied, Refused, SaveText, SaveModel, Tag, Decipher,
      Ask, LlmFails, SaveReply, memoryVars
  <2>2. QED
    BY <2>1, NextSteps DEF TakeUp, Grant, Post, Answered, Failed,
      TimedOut, Cancelled, Expire, ProcessDies, Evict, memoryVars, vars
<1>3. SameSide /\ pos'.stage \in 0 .. 3
  <2>1. pos.stage \in 0 .. 3
    BY <1>0, Numbers
  <2>2. pos'.stage \in 0 .. 3
    BY <1>0, PosMoves
  <2>3. QED
    BY <1>0, <2>1, <2>2, PosMoves DEF SameSide
<1>4. ASSUME NEW s \in Slots, Service(s), NEW r \in Slots, call'[r].stage = SendToGemini
      PROVE  SameMemory(r)
  <2>1. CASE r # s
    <3>1. call'[r] = call[r]
      BY <1>0, <1>4, <2>1, ServiceCalls
    <3>2. QED
      BY <1>4, <3>1 DEF SameMemory
  <2>2. CASE r = s
    <3>1. Live(s) /\ call[s].stage = SendToGemini /\ PhaseOK(s)
      BY <1>0, <1>4, <2>2, ServiceCalls DEF SameCall, PhaseInv
    <3>2. {"bad", "ok"} \subseteq Phases
      BY DEF Phases
    <3>3. CASE Denied(s) \/ Refused(s) \/ LlmFails(s)
      <4>1. Goto(s, "bad")
        BY <3>3 DEF Denied, Refused, LlmFails
      <4>2. call'[s].pc = "bad"
        BY <1>0, <3>1, <3>2, <4>1, GoesOn
      <4>3. QED
        BY <2>2, <4>2 DEF SameMemory
    <3>4. CASE SaveReply(s)
      <4>1. Goto(s, "ok") /\ call[s].pc = "replied"
        BY <3>4 DEF SaveReply
      <4>2. /\ call'[s].pc = "ok" /\ call'[s].ses = call[s].ses
            /\ call'[s].turn = call[s].turn
        BY <1>0, <3>1, <3>2, <4>1, GoesOn
      <4>3. QED
        BY <2>2, <3>1, <4>1, <4>2 DEF SameMemory
    <3>5. CASE Ask(s)
      <4>1. call[s].pc = "ask" /\ call[s].ses \in SessionIds
        BY <3>1, <3>5 DEF Ask, PhaseOK
      <4>2. /\ call'[s].pc = "asking" /\ call'[s].ses = call[s].ses
            /\ call'[s].turn = call[s].turn
        BY <1>0, <3>5, <4>1, AskCall
      <4>3. QED
        BY <2>2, <3>1, <4>1, <4>2 DEF SameMemory
    <3>6. ~SaveText(s) /\ ~SaveModel(s) /\ \A p \in Processes : ~Tag(s, p) /\ ~Decipher(s, p)
      BY <3>1 DEF SaveText, SaveModel, Tag, Decipher, PhaseOK
    <3>7. QED
      BY <1>4, <3>3, <3>4, <3>5, <3>6 DEF Service
  <2>3. QED
    BY <2>1, <2>2
<1>5. ASSUME NEW h \in Threads, Post(h), NEW r \in Slots, call'[r].stage = SendToGemini
      PROVE  SameMemory(r)
  <2>1. call'[r].pc = "start" \/ call'[r] = call[r]
    BY <1>0, <1>5, PostCall
  <2>2. QED
    BY <1>5, <2>1 DEF SameMemory
<1>6. ASSUME NEW s \in Slots, Ends(s), NEW r \in Slots, call'[r].stage = SendToGemini
      PROVE  SameMemory(r)
  <2>1. CASE call'[r] = call[r]
    BY <1>6, <2>1 DEF SameMemory
  <2>2. CASE r = s /\ call'[s] = [call[s] EXCEPT !.by = Nobody]
    <3>1. call[s] \in Call
      BY <1>0, <1>6, EndedCall, LiveCall
    <3>2. /\ call'[s].pc = call[s].pc /\ call'[s].ses = call[s].ses
          /\ call'[s].turn = call[s].turn /\ call'[s].stage = call[s].stage
      BY <2>2, <3>1 DEF Call
    <3>3. QED
      BY <1>6, <2>2, <3>2 DEF SameMemory
  <2>3. QED
    BY <1>0, <1>6, <1>a, <2>1, <2>2, EndedCall
<1>7. ASSUME NEW r \in Slots, call'[r].stage = SendToGemini,
             \/ UNCHANGED call
             \/ \E h \in Threads : Grant(h)
             \/ \E p \in Processes : ProcessDies(p)
      PROVE  SameMemory(r)
  <2>1. /\ SameCall(r) /\ call'[r].ses = call[r].ses
        /\ call'[r].pc \in {call[r].pc, "bad"}
    BY <1>0, <1>7, OthersCalls
  <2>2. QED
    BY <1>7, <2>1 DEF SameMemory, SameCall
<1>8. ASSUME NEW r \in Slots, call'[r].stage = SendToGemini PROVE SameMemory(r)
  <2>1. CASE \/ \E h \in Threads : TakeUp(h)
             \/ \E p \in Processes : Expire(p)
             \/ Evict \/ UNCHANGED vars
    <3>1. UNCHANGED call
      BY <2>1 DEF TakeUp, Expire, Evict, vars
    <3>2. QED
      BY <1>7, <1>8, <3>1
  <2>2. QED
    BY <1>4, <1>5, <1>6, <1>7, <1>8, <2>1, NextSteps DEF Ends
<1>9. QED
  BY <1>1, <1>2, <1>3, <1>8, QuietMemory

\* The other steps, each on its own.
LEMMA MemoryStep ==
  ASSUME StageInv, OneByOne, Memory, [Next]_vars, ~crossed'
  PROVE  Memory'
<1>0. TypeOK /\ GateInv /\ PhaseInv /\ pos.turn \in Nat /\ pos.stage \in 0 .. 3
  BY Numbers DEF StageInv
<1>1. CASE NextTurn
  <2>1. /\ pos.stage = Done /\ pos'.turn = pos.turn + 1 /\ pos'.stage = CipherReq
        /\ UNCHANGED <<call, cached, sess>>
    BY <1>1 DEF NextTurn, memoryVars
  <2>2. \A s \in Slots : call[s].stage # SendToGemini
    BY <2>1 DEF OneByOne
  <2>3. cached # 0 => ToldIn(sess[cached], pos.turn)
    BY <2>1 DEF Memory, CacheMemory
  <2>4. ASSUME NEW ses, ToldIn(ses, pos.turn) PROVE DueIn(ses, pos.turn + 1)
    BY <1>0, <2>4 DEF ToldIn, DueIn
  <2>5. CacheMemory'
    BY <2>1, <2>3, <2>4 DEF CacheMemory
  <2>6. QED
    BY <2>1, <2>2, <2>5 DEF Memory
<1>2. ASSUME NEW s \in Slots, Answered(s), call[s].stage = SendToGemini PROVE Memory'
  <2>1. /\ pos.stage = SendToGemini /\ call[s].turn = pos.turn /\ call[s].pc = "ok"
        /\ UNCHANGED <<cached, sess>>
    BY <1>2 DEF OneByOne, Answered, memoryVars
  <2>2. pos' = [pos EXCEPT !.stage = @ + 1]
    BY <1>2, <2>1 DEF Answered, MoveOn
  <2>3. pos'.turn = pos.turn /\ pos'.stage = DecipherResp
    BY <1>0, <2>1, <2>2 DEF TypeOK
  <2>4. call'[s] = NoCall /\ \A r \in Slots \ {s} : call'[r] = call[r]
    BY <1>0, <1>2 DEF Answered, TypeOK
  <2>5. \A r \in Slots : call'[r].stage # SendToGemini
    BY <1>2, <2>4 DEF OneByOne, NoCall
  <2>6. cached # 0 => ToldIn(sess[cached], pos.turn)
    BY <1>2, <2>1 DEF Memory, CallMemory
  <2>7. CacheMemory'
    BY <2>1, <2>3, <2>6 DEF CacheMemory
  <2>8. QED
    BY <2>1, <2>5, <2>7 DEF Memory
<1>3. ASSUME NEW s \in Slots, call[s].stage = SendToGemini, Service(s)
      PROVE  /\ pos.stage = SendToGemini /\ call[s].turn = pos.turn /\ UNCHANGED pos
             /\ call'[s].turn = call[s].turn /\ call'[s].stage = SendToGemini
             /\ \A r \in Slots \ {s} : call'[r].stage # SendToGemini
  BY <1>0, <1>3, ServiceCalls DEF OneByOne, SameCall
<1>4. ASSUME NEW s \in Slots, LookUp(s) PROVE Memory'
  <2>1. /\ call[s].stage = SendToGemini /\ Service(s) /\ UNCHANGED <<cached, sess>>
    BY <1>4 DEF LookUp, Service, memoryVars
  <2>2. call'[s].ses = cached /\ call'[s].pc = (IF cached # 0 THEN "keep" ELSE "build")
    BY <1>0, <1>4, LookUpCall
  <2>3. cached # 0 => DueIn(sess[cached], pos.turn)
    BY <1>3, <2>1 DEF Memory, CacheMemory
  <2>4. CallMemory(s)'
    BY <1>3, <2>1, <2>2, <2>3 DEF CallMemory
  <2>5. CacheMemory'
    BY <1>3, <2>1 DEF Memory, CacheMemory
  <2>6. QED
    BY <1>3, <2>1, <2>4, <2>5 DEF Memory
<1>5. ASSUME NEW s \in Slots, Build(s) PROVE Memory'
  <2>1. call[s].stage = SendToGemini /\ Service(s) /\ UNCHANGED cached
    BY <1>0, <1>5 DEF Build, Service, PhaseInv, PhaseOK
  <2> DEFINE i == call'[s].ses
             new == [built |-> Rebuilt(call[s].turn), said |-> <<>>]
  <2>2. /\ i \in SessionIds /\ i # cached /\ sess'[i] = new
        /\ \A j \in SessionIds \ {i} : sess'[j] = sess[j]
    BY <1>5, BuiltSession
  <2>3. call'[s].pc = "keep"
    BY <1>0, <1>5, BuildCall
  <2>4. DueIn(new, call[s].turn)
    BY <1>5, RebuiltSession DEF DueIn
  <2>5. InOrder(<<>>)
    BY EmptySeq DEF InOrder
  <2> HIDE DEF new, i
  <2>6. CallMemory(s)'
    BY <1>3, <2>1, <2>2, <2>3, <2>4 DEF CallMemory, i
  <2>7. CacheMemory'
    <3>1. cached # 0 => sess'[cached] = sess[cached]
      BY <1>0, <2>2 DEF TypeOK
    <3>2. QED
      BY <1>3, <2>1, <3>1 DEF Memory, CacheMemory
  <2>8. \A j \in SessionIds : sess'[j].built = <<>> => InOrder(sess'[j].said)
    <3>1. new.said = <<>>
      BY DEF new
    <3>2. QED
      BY <2>2, <2>5, <3>1 DEF Memory
  <2>9. QED
    BY <1>3, <2>1, <2>6, <2>7, <2>8 DEF Memory
<1>6. ASSUME NEW s \in Slots, Keep(s) PROVE Memory'
  <2>0. Live(s) /\ call[s].pc = "keep"
    BY <1>6 DEF Keep, Live
  <2>1. /\ call[s].stage = SendToGemini /\ Service(s) /\ UNCHANGED sess
        /\ cached' = call[s].ses
    BY <1>0, <1>6, <2>0 DEF Keep, Service, PhaseInv, PhaseOK
  <2>2. call'[s].pc = "ask" /\ call'[s].ses = call[s].ses
    <3>1. "ask" \in Phases /\ Goto(s, "ask")
      BY <1>6 DEF Phases, Keep
    <3>2. QED
      BY <1>0, <2>0, <3>1, GoesOn
  <2>3. DueIn(sess[call[s].ses], call[s].turn)
    BY <2>0, <2>1 DEF Memory, CallMemory
  <2>4. CallMemory(s)'
    BY <1>3, <2>1, <2>2, <2>3 DEF CallMemory
  <2>5. CacheMemory'
    BY <1>3, <2>1, <2>3 DEF CacheMemory
  <2>6. QED
    BY <1>3, <2>1, <2>4, <2>5 DEF Memory
<1>7. ASSUME NEW s \in Slots, Reply(s) PROVE Memory'
  <2>0. Live(s) /\ call[s].pc = "asking"
    BY <1>7 DEF Reply, Live
  <2>1. call[s].stage = SendToGemini /\ Service(s) /\ UNCHANGED cached
    BY <1>0, <1>7, <2>0 DEF Reply, Service, PhaseInv, PhaseOK
  <2>2. call'[s].pc = "replied" /\ call'[s].ses = call[s].ses
    <3>1. "replied" \in Phases /\ Goto(s, "replied")
      BY <1>7 DEF Phases, Reply
    <3>2. QED
      BY <1>0, <2>0, <3>1, GoesOn
  <2> DEFINE j == call[s].ses
             t == call[s].turn
             a == [role |-> "user", text |-> Value(Latest(s))]
             b == [role |-> "model", text |-> call[s].out]
  <2>3. /\ j \in SessionIds
        /\ Value(Latest(s)) = Ciphered(t) /\ Value(Latest(s)) \in Text
        /\ call[s].out \in Text /\ call[s].out.turn = t
        /\ \A i \in SessionIds \ {j} : sess'[i] = sess[i]
        /\ sess'[j].built = sess[j].built
        /\ sess'[j].said = sess[j].said \o <<a, b>>
    BY <1>7, RepliedSession
  <2>4. a \in Entry /\ b \in Entry /\ a.role = "user" /\ b.role = "model"
        /\ a.text = Ciphered(t) /\ b.text.turn = t
    BY <2>3 DEF Entry
  <2>5. t \in Turns /\ sess[j].said \in Seq(Entry)
    BY <1>0, <2>0, <2>3, LiveCall DEF Call, TypeOK, Session
  <2>6. DueIn(sess[j], t) /\ cached \in {0, j}
    BY <2>0, <2>1 DEF Memory, CallMemory
  <2> HIDE DEF a, b, j, t
  <2>7. ASSUME sess[j].built = <<>>
        PROVE  /\ InOrder(sess'[j].said)
               /\ sess'[j].said # <<>>
               /\ LastPrompt(sess'[j].said) = t
    <3>1. InOrder(sess[j].said)
      BY <2>3, <2>7 DEF Memory
    <3>2. IF sess[j].said = <<>> THEN t = 0 ELSE t - LastPrompt(sess[j].said) \in {0, 1}
      BY <2>6, <2>7 DEF DueIn
    <3> DEFINE said == sess[j].said
    <3> HIDE DEF said
    <3>3. /\ said \in Seq(Entry) /\ InOrder(said)
          /\ IF said = <<>> THEN t = 0 ELSE t - LastPrompt(said) \in {0, 1}
      BY <2>5, <3>1, <3>2 DEF said
    <3>4. /\ InOrder(said \o <<a, b>>) /\ said \o <<a, b>> # <<>>
          /\ LastPrompt(said \o <<a, b>>) = t
      BY <2>4, <2>5, <3>3, SaidGrows
    <3>5. QED
      BY <2>3, <3>4 DEF said
  <2>8. ToldIn(sess'[j], t) /\ DueIn(sess'[j], t)
    <3>1. t \in Nat
      BY <1>0, <2>5, Numbers
    <3>2. QED
      BY <2>3, <2>7, <3>1 DEF ToldIn, DueIn
  <2>9. CallMemory(s)'
    BY <1>3, <2>1, <2>2, <2>6, <2>8 DEF CallMemory, j, t
  <2>10. CacheMemory'
    BY <1>3, <2>1, <2>6, <2>8 DEF CacheMemory, t
  <2>11. \A i \in SessionIds : sess'[i].built = <<>> => InOrder(sess'[i].said)
    BY <2>3, <2>7 DEF Memory
  <2>12. QED
    BY <1>3, <2>1, <2>9, <2>10, <2>11 DEF Memory
<1>8. QED
  BY <1>1, <1>2, <1>4, <1>5, <1>6, <1>7, QuietMemorySteps

\* MemoryInv holds when the chat begins.
LEMMA MemoryStart == Init => MemoryInv
<1> SUFFICES ASSUME Init PROVE MemoryInv
  OBVIOUS
<1>1. /\ \A h \in Threads : th[h].stage = Done
      /\ \A s \in Slots : call[s].stage = Done
      /\ cached = 0
  BY DEF Init, IdleThread, NoCall
<1>2. \A i \in SessionIds : sess[i].said = <<>>
  BY DEF Init, NoSession
<1>3. InOrder(<<>>)
  BY EmptySeq DEF InOrder
<1>4. OneByOne /\ Memory
  BY <1>1, <1>2, <1>3 DEF OneByOne, Memory, CacheMemory
<1>5. QED
  BY <1>4 DEF MemoryInv

\* A session that was begun with the chat holds the prompts of its turns, in order
\* and without a gap, as long as the mediator's calls came one by one: each call
\* finds in the cache, or begins, the session in which its turn is the next.
THEOREM SessionsRemember == Spec => []ChatRemembered
<1>1. StageInv /\ MemoryInv /\ [Next]_vars => MemoryInv'
  BY CrossedStays, OneByOneStep, MemoryStep DEF MemoryInv
<1>2. MemoryInv => ChatRemembered
  BY DEF MemoryInv, Memory, InOrder, ChatRemembered
<1>3. QED
  BY <1>1, <1>2, MemoryStart, StageAlways, PTL DEF Spec

-----------------------------------------------------------------------------
(* The names that the cipher knows. *)

\* A call of the cipher that has its names in the model and has not written all of it.
Tagging(s) == call[s].pc \in {"tagged", "meta"}

\* A call that tags has the names of its text in its model.
KnownInv == \A s \in Slots : Tagging(s) => Mentions[call[s].turn] \subseteq call[s].model

\* A name in a process's cache is saved, or a call of the process is about to save it.
KnownAt(p, n) ==
  \/ n \in saved
  \/ \E s \in Slots : Tagging(s) /\ call[s].proc = p /\ call[s].dirty /\ n \in call[s].model

CacheSaved ==
  \A p \in Processes : cache[p].held => \A n \in cache[p].names : KnownAt(p, n)

\* The names of a text are saved when the call that ciphered it is over, and a
\* reply mentions none but saved names.
CallSaved(s) ==
  /\ call[s].pc = "tagged" /\ ~call[s].dirty => Mentions[call[s].turn] \subseteq saved
  /\ call[s].pc = "ok" /\ call[s].stage = CipherReq => Mentions[call[s].turn] \subseteq saved
  /\ call[s].pc \in {"asking", "replied"} => call[s].out.tokens \subseteq saved

\* The names of a turn are saved when it comes to the mediator, a reply mentions
\* saved names only, and a final content shows none as a token.
TextSaved ==
  \A t \in Turns :
    /\ Reached(t, SendToGemini) => Mentions[t] \subseteq saved
    /\ text[t][DecipherResp] # NoText => text[t][DecipherResp].tokens \subseteq saved
    /\ text[t][Done] # NoText => text[t][Done].tokens = {}

\* The tokens in a list of contents stand for names of S.
TokensIn(list, S) == \A i \in DOMAIN list : list[i].text.tokens \subseteq S

\* The LLM was only told of saved names.
SessionSaved ==
  \A i \in SessionIds : TokensIn(sess[i].built, saved) /\ TokensIn(sess[i].said, saved)

\* All of this, unless a call of the cipher failed with its names in the cache only,
\* or a process went on with a model that another one had outdated.
SavedInv ==
  ~unsaved /\ ~stale => CacheSaved /\ (\A s \in Slots : CallSaved(s)) /\ TextSaved /\ SessionSaved

\* A session is told of the names in its entries.
LEMMA ToldWithin ==
  ASSUME NEW ses, NEW S, TokensIn(ses.built, S), TokensIn(ses.said, S)
  PROVE  ToldOf(ses) \subseteq S
<1>1. ASSUME NEW x \in ToldOf(ses) PROVE x \in S
  <2>1. PICK T : /\ x \in T
                 /\ \/ T \in {ses.built[k].text.tokens : k \in DOMAIN ses.built}
                    \/ T \in {ses.said[k].text.tokens : k \in DOMAIN ses.said}
    BY <1>1, Zenon DEF ToldOf
  <2>2. T \subseteq S
    BY <2>1 DEF TokensIn
  <2>3. QED
    BY <2>1, <2>2
<1>2. QED
  BY <1>1

\* A call of the cipher that tags is a live one, of the first stage.
LEMMA TaggingCall ==
  ASSUME StageInv, NEW s \in Slots, Tagging(s)
  PROVE  /\ Live(s) /\ call[s] \in Call /\ call[s].stage = CipherReq
         /\ call[s].proc \in Processes /\ call[s].by # Nobody
         /\ call[s].turn \in Turns /\ call[s].model \in SUBSET Names
<1>1. Live(s) /\ PhaseOK(s) /\ TypeOK
  BY DEF Tagging, Live, StageInv, PhaseInv
<1>2. call[s] \in Call
  BY <1>1, LiveCall
<1>3. QED
  BY <1>1, <1>2 DEF Tagging, PhaseOK, Call

\* A call that tags after a step did so before it, unless it just began to.
LEMMA TaggingBefore ==
  ASSUME StageInv, [Next]_vars, NEW s \in Slots, Tagging(s)', \A p \in Processes : ~Tag(s, p)
  PROVE  /\ Tagging(s)
         /\ call'[s].model = call[s].model /\ call'[s].turn = call[s].turn
         /\ call'[s].dirty = call[s].dirty
         /\ call'[s].pc = call[s].pc \/ call'[s].pc = "meta"
<1>0. TypeOK /\ GateInv /\ PhaseInv /\ call'[s].pc \in {"tagged", "meta"}
  BY DEF StageInv, Tagging
<1>1. CASE call'[s] = call[s]
  BY <1>0, <1>1 DEF Tagging
<1>2. ASSUME NEW r \in Slots, Service(r), call'[s] # call[s]
      PROVE  /\ call[s].pc = "tagged" /\ call'[s].pc = "meta"
             /\ call'[s].model = call[s].model /\ call'[s].turn = call[s].turn
             /\ call'[s].dirty = call[s].dirty
  <2>1. r = s /\ Live(s) /\ Service(s)
    BY <1>0, <1>2, ServiceCalls
  <2>2. {"bad", "meta", "ok", "ask", "replied"} \subseteq Phases
    BY DEF Phases
  <2>3. \A p \in {"bad", "ok", "ask", "replied"} : ~Goto(s, p)
    <3>1. ASSUME NEW p \in {"bad", "ok", "ask", "replied"}, Goto(s, p) PROVE FALSE
      <4>1. call'[s].pc = p
        BY <1>0, <2>1, <2>2, <3>1, GoesOn
      <4>2. QED
        BY <1>0, <3>1, <4>1
    <3>2. QED
      BY <3>1
  <2>4. ~LookUp(s)
    BY <1>0, LookUpCall
  <2>5. ~Build(s)
    BY <1>0, BuildCall
  <2>6. ~Ask(s)
    <3>1. Ask(s) => call[s].ses \in SessionIds
      BY <1>0 DEF Ask, PhaseInv, PhaseOK
    <3>2. QED
      BY <1>0, <3>1, AskCall
  <2>7. SaveText(s)
    BY <2>1, <2>3, <2>4, <2>5, <2>6 DEF Service, Denied, Refused, SaveModel, Decipher,
      Keep,
      Reply, LlmFails, SaveReply
  <2>8. call[s].pc = "tagged" /\ Goto(s, "meta")
    BY <2>3, <2>7 DEF SaveText
  <2>9. QED
    BY <1>0, <2>1, <2>2, <2>8, GoesOn
<1>3. ASSUME NEW h \in Threads, Post(h) PROVE call'[s] = call[s]
  BY <1>0, <1>3, PostCall
<1>4. ASSUME NEW r \in Slots, Ends(r) PROVE call'[s] = call[s]
  <2>1. CASE s # r
    BY <1>0, <1>4, <2>1, EndedCall
  <2>2. CASE s = r
    <3>1. call'[s] # NoCall
      BY <1>0 DEF NoCall
    <3>2. TimedOut(s) /\ call'[s] = [call[s] EXCEPT !.by = Nobody]
      BY <1>0, <1>4, <2>2, <3>1, EndedCall
    <3>3. call[s] \in Call /\ call[s].stage = SendToGemini
      BY <1>0, <1>4, <2>2, <3>2, EndedCall, LiveCall DEF TimedOut
    <3>4. call'[s].pc = call[s].pc
      BY <3>2, <3>3 DEF Call
    <3>5. QED
      BY <1>0, <3>3, <3>4 DEF PhaseInv, PhaseOK
  <2>3. QED
    BY <2>1, <2>2
<1>5. ASSUME \/ UNCHANGED call \/ (\E h \in Threads : Grant(h))
             \/ \E p \in Processes : ProcessDies(p)
      PROVE  /\ call'[s].pc = call[s].pc
             /\ call'[s].model = call[s].model /\ call'[s].turn = call[s].turn
             /\ call'[s].dirty = call[s].dirty
  BY <1>0, <1>5, OthersCalls DEF SameCall
<1>6. CASE \/ NextTurn \/ (\E h \in Threads : TakeUp(h))
           \/ (\E p \in Processes : Expire(p)) \/ Evict \/ UNCHANGED vars
  <2>1. UNCHANGED call
    BY <1>6 DEF NextTurn, TakeUp, Expire, Evict, vars
  <2>2. QED
    BY <1>1, <2>1
<1>7. QED
  BY <1>0, <1>1, <1>2, <1>3, <1>4, <1>5, <1>6, NextSteps DEF Tagging, Ends

\* A call that tags goes on to do so, unless it saves its names, or its process
\* dies, or it fails without having saved them.
LEMMA TaggingAfter ==
  ASSUME StageInv, [Next]_vars, NEW s \in Slots, Tagging(s), call[s].dirty, ~unsaved'
  PROVE  \/ /\ Tagging(s)' /\ call'[s].model = call[s].model /\ call'[s].dirty
            /\ call'[s].proc = call[s].proc
         \/ SaveModel(s)
         \/ ProcessDies(call[s].proc)
<1>0. TypeOK /\ GateInv /\ PhaseInv /\ Live(s) /\ call[s].pc \in {"tagged", "meta"}
  BY TaggingCall DEF StageInv, Tagging
<1>1. CASE call'[s] = call[s]
  BY <1>0, <1>1 DEF Tagging
<1>2. ASSUME NEW r \in Slots, Service(r)
      PROVE  \/ call'[s] = call[s]
             \/ SaveModel(s)
             \/ /\ Tagging(s)' /\ call'[s].model = call[s].model /\ call'[s].dirty
                /\ call'[s].proc = call[s].proc
  <2>1. CASE r # s
    BY <1>0, <1>2, <2>1, ServiceCalls
  <2>2. CASE r = s
    <3>1. ~Denied(s) /\ ~Refused(s)
      BY <1>0 DEF Denied, Refused, Unsaved
    <3>2. SaveModel(s) \/ SaveText(s)
      BY <1>0, <1>2, <2>2, <3>1 DEF Service, Tag, Decipher, LookUp, Build, Keep, Ask,
        Reply,
        LlmFails, SaveReply
    <3>3. CASE SaveText(s)
      <4>1. Goto(s, "meta") /\ "meta" \in Phases
        BY <3>3 DEF SaveText, Phases
      <4>2. /\ call'[s].pc = "meta" /\ call'[s].model = call[s].model
            /\ call'[s].dirty = call[s].dirty /\ call'[s].proc = call[s].proc
        BY <1>0, <4>1, GoesOn
      <4>3. QED
        BY <4>2 DEF Tagging
    <3>4. QED
      BY <3>2, <3>3
  <2>3. QED
    BY <2>1, <2>2
<1>3. ASSUME NEW h \in Threads, Post(h) PROVE call'[s] = call[s]
  BY <1>0, <1>3, PostCall
<1>4. ASSUME NEW r \in Slots, Ends(r) PROVE call'[s] = call[s]
  <2>0. call[s].stage # SendToGemini /\ call[s].by # Nobody
    BY TaggingCall
  <2>1. ~Ends(s)
    BY <1>0, <2>0 DEF Ends, Answered, Failed, TimedOut, Cancelled
  <2>2. QED
    BY <1>0, <1>4, <2>1, EndedCall
<1>5. ASSUME NEW h \in Threads, Grant(h)
      PROVE  /\ Tagging(s)' /\ call'[s].model = call[s].model /\ call'[s].dirty
             /\ call'[s].proc = call[s].proc
  <2>1. call'[s] = IF call[s].stage = th[h].stage THEN [call[s] EXCEPT !.auth = FALSE]
                   ELSE call[s]
    BY <1>5 DEF Grant
  <2>2. call[s] \in Call
    BY TaggingCall
  <2>3. call'[s].pc = call[s].pc
    BY <2>1, <2>2 DEF Call
  <2>4. QED
    BY <1>0, <1>5, <2>3, OthersCalls DEF Tagging
<1>6. ASSUME NEW p \in Processes, ProcessDies(p)
      PROVE  call'[s] = call[s] \/ ProcessDies(call[s].proc)
  BY <1>6 DEF ProcessDies
<1>7. CASE \/ NextTurn \/ (\E h \in Threads : TakeUp(h))
           \/ (\E p \in Processes : Expire(p)) \/ Evict \/ UNCHANGED vars
  <2>1. UNCHANGED call
    BY <1>7 DEF NextTurn, TakeUp, Expire, Evict, vars
  <2>2. QED
    BY <1>1, <2>1
<1>8. QED
  BY <1>1, <1>2, <1>3, <1>4, <1>5, <1>6, <1>7, NextSteps DEF Ends

\* The names that are saved: nothing is forgotten, unless a process saves a model
\* that another one has outdated.
LEMMA SavedGrows ==
  ASSUME [Next]_vars, ~stale'
  PROVE  saved \subseteq saved'
<1>1. ASSUME NEW s \in Slots, SaveModel(s) PROVE saved \subseteq saved'
  BY <1>1 DEF SaveModel
<1>2. QED
  BY <1>1, NameSteps

\* Whoever loads a model that nobody has outdated knows all that is saved.
LEMMA LoadsAll ==
  ASSUME NEW p \in Processes, ~Behind(p)
  PROVE  saved \subseteq LoadModel(p)
BY DEF Behind, LoadModel

\* Once names were left in the cache only, they were.
LEMMA UnsavedStays ==
  ASSUME StageInv, [Next]_vars, ~unsaved'
  PROVE  ~unsaved
<1>1. ASSUME NEW s \in Slots, Service(s) PROVE ~unsaved
  BY <1>1 DEF Service, Denied, Refused, Unsaved, SaveText, SaveModel, Tag, Decipher,
    LookUp,
    Build, Keep, Ask, Reply, LlmFails, SaveReply, seenVars
<1>2. QED
  BY <1>1, NextSteps DEF NextTurn, TakeUp, Grant, Post, Answered, Failed,
    TimedOut, Cancelled, Expire, ProcessDies, Evict, seenVars, vars

\* Once a process went on with an outdated model, one did.
LEMMA StaleStays ==
  ASSUME StageInv, [Next]_vars, ~stale'
  PROVE  ~stale
<1>1. ASSUME NEW s \in Slots, Service(s) PROVE ~stale
  BY <1>1 DEF Service, Denied, Refused, SaveText, SaveModel, Tag, Decipher, LookUp,
    Build, Keep, Ask, Reply, LlmFails, SaveReply, seenVars
<1>2. QED
  BY <1>1, NextSteps DEF NextTurn, TakeUp, Grant, Post, Answered, Failed,
    TimedOut, Cancelled, Expire, ProcessDies, Evict, seenVars, vars

\* A call that tags keeps its model.
LEMMA KnownStep ==
  ASSUME StageInv, KnownInv, [Next]_vars
  PROVE  KnownInv'
<1>0. TypeOK
  BY DEF StageInv
<1>1. ASSUME NEW s \in Slots, NEW p \in Processes, Tag(s, p) PROVE KnownInv'
  <2>1. /\ call'[s].turn = call[s].turn
        /\ call'[s].model = LoadModel(p) \cup Mentions[call[s].turn]
        /\ \A r \in Slots \ {s} : call'[r] = call[r]
    BY <1>0, <1>1, TagCall
  <2>2. QED
    BY <2>1 DEF KnownInv, Tagging
<1>2. ASSUME \A s \in Slots, p \in Processes : ~Tag(s, p) PROVE KnownInv'
  <2>1. \A s \in Slots : Tagging(s)' =>
          /\ Tagging(s)
          /\ call'[s].model = call[s].model /\ call'[s].turn = call[s].turn
    BY <1>2, TaggingBefore
  <2>2. QED
    BY <2>1 DEF KnownInv
<1>3. QED
  BY <1>1, <1>2

\* A process that handles its next request has saved what it knows.
LEMMA FreeSaved ==
  ASSUME CacheSaved, NEW p \in Processes, Free(p)
  PROVE  LoadModel(p) \subseteq saved
<1>1. \A s \in Slots : ~(Tagging(s) /\ call[s].proc = p)
  BY DEF Free, Tagging
<1>2. cache[p].held => cache[p].names \subseteq saved
  BY <1>1 DEF CacheSaved, KnownAt
<1>3. QED
  BY <1>2 DEF LoadModel

\* A name in a cache is saved, or about to be.
LEMMA CacheStep ==
  ASSUME StageInv, CacheSaved, [Next]_vars, ~unsaved', ~stale'
  PROVE  CacheSaved'
<1>0. TypeOK /\ saved \subseteq saved'
      /\ cache \in [Processes -> [held : BOOLEAN, names : SUBSET Names]]
  BY SavedGrows DEF StageInv, TypeOK
<1>1. ASSUME NEW q \in Processes, cache'[q].held, NEW n, KnownAt(q, n) PROVE KnownAt(q, n)'
  <2>1. CASE n \in saved
    BY <1>0, <2>1 DEF KnownAt
  <2>2. ASSUME NEW s \in Slots, Tagging(s), call[s].proc = q, call[s].dirty,
               n \in call[s].model
        PROVE  KnownAt(q, n)'
    <3>1. CASE Tagging(s)' /\ call'[s].model = call[s].model /\ call'[s].dirty
               /\ call'[s].proc = call[s].proc
      BY <2>2, <3>1 DEF KnownAt
    <3>2. CASE SaveModel(s)
      BY <2>2, <3>2 DEF SaveModel, KnownAt
    <3>3. ~ProcessDies(q)
      BY <1>0, <1>1 DEF ProcessDies, NoModel
    <3>4. QED
      BY <2>2, <3>1, <3>2, <3>3, TaggingAfter
  <2>3. QED
    BY <1>1, <2>1, <2>2 DEF KnownAt
<1> DEFINE Same(q) == cache'[q] = cache[q] \/ ~cache'[q].held
<1>2. ASSUME NEW q \in Processes, Same(q), cache'[q].held, NEW n \in cache'[q].names
      PROVE  KnownAt(q, n)'
  <2>1. KnownAt(q, n)
    BY <1>2 DEF CacheSaved
  <2>2. QED
    BY <1>1, <1>2, <2>1
<1>3. ASSUME NEW p \in Processes, \A q \in Processes \ {p} : Same(q),
             \A n \in cache'[p].names : KnownAt(p, n)'
      PROVE  CacheSaved'
  <2> HIDE DEF Same
  <2>1. QED
    BY <1>2, <1>3 DEF CacheSaved
<1>4. CASE UNCHANGED cache
  <2> HIDE DEF KnownAt
  <2>1. \A q \in Processes : Same(q)
    BY <1>4
  <2> HIDE DEF Same
  <2>2. QED
    BY <1>2, <2>1 DEF CacheSaved
<1>5. ASSUME NEW s \in Slots, SaveModel(s) PROVE CacheSaved'
  <2>1. /\ call[s].pc = "meta" /\ saved' = call[s].model
        /\ cache' = [cache EXCEPT ![call[s].proc] = Holding(call[s].model)]
    BY <1>5 DEF SaveModel
  <2>2. PICK p \in Processes : p = call[s].proc
    BY <2>1, TaggingCall DEF Tagging
  <2>3. cache'[p].names = saved' /\ \A q \in Processes \ {p} : cache'[q] = cache[q]
    BY <1>0, <2>1, <2>2 DEF Holding
  <2>4. \A n \in cache'[p].names : KnownAt(p, n)'
    BY <2>3 DEF KnownAt
  <2>5. QED
    BY <1>3, <2>3, <2>4
<1>6. ASSUME NEW s \in Slots, NEW p \in Processes, Tag(s, p) PROVE CacheSaved'
  <2>1. LoadModel(p) \subseteq saved
    BY <1>6, FreeSaved DEF Tag
  <2>2. /\ call'[s].model = LoadModel(p) \cup Mentions[call[s].turn]
        /\ call'[s].pc = "tagged" /\ call'[s].proc = p
        /\ ~call'[s].dirty => Mentions[call[s].turn] \subseteq LoadModel(p)
    BY <1>0, <1>6, TagCall
  <2>3. cache'[p].names = call'[s].model /\ \A q \in Processes \ {p} : cache'[q] = cache[q]
    <3>1. cache' = [cache EXCEPT ![p] = Holding(LoadModel(p) \cup Mentions[call[s].turn])]
      BY <1>6 DEF Tag
    <3>2. QED
      BY <1>0, <2>2, <3>1 DEF Holding
  <2>4. \A n \in cache'[p].names : KnownAt(p, n)'
    BY <1>0, <2>1, <2>2, <2>3 DEF KnownAt, Tagging
  <2>5. QED
    BY <1>3, <2>3, <2>4
<1>7. ASSUME NEW s \in Slots, NEW p \in Processes, Decipher(s, p) PROVE CacheSaved'
  <2>1. cache' = [cache EXCEPT ![p] = Holding(LoadModel(p))]
    BY <1>7 DEF Decipher
  <2>2. /\ cache'[p].names = LoadModel(p) /\ cache'[p].held
        /\ \A q \in Processes \ {p} : cache'[q] = cache[q]
    BY <1>0, <2>1 DEF Holding
  <2>3. \A n \in LoadModel(p) : KnownAt(p, n)
    BY DEF LoadModel, CacheSaved, KnownAt
  <2>4. \A n \in cache'[p].names : KnownAt(p, n)'
    <3> HIDE DEF KnownAt
    <3>1. QED
      BY <1>1, <2>2, <2>3
  <2>5. QED
    BY <1>3, <2>2, <2>4
<1>8. ASSUME NEW p \in Processes, Expire(p) \/ ProcessDies(p) PROVE CacheSaved'
  <2>1. cache' = [cache EXCEPT ![p] = NoModel]
    BY <1>8 DEF Expire, ProcessDies
  <2>2. \A q \in Processes : Same(q)
    BY <1>0, <2>1 DEF NoModel
  <2> HIDE DEF Same
  <2>3. QED
    BY <1>2, <2>2 DEF CacheSaved
<1>9. QED
  BY <1>4, <1>5, <1>6, <1>7, <1>8, NameSteps

\* The calls.
LEMMA CallSavedStep ==
  ASSUME StageInv, KnownInv, CacheSaved, \A s \in Slots : CallSaved(s),
         TextSaved, SessionSaved, [Next]_vars, ~stale', NEW s \in Slots
  PROVE  CallSaved(s)'
<1>0. TypeOK /\ GateInv /\ PhaseInv /\ CallSaved(s) /\ saved \subseteq saved'
  BY SavedGrows DEF StageInv
<1>1. ASSUME \/ call'[s].pc \in {"none", "start", "meta", "build", "keep", "ask", "bad"}
             \/ /\ call'[s].pc = call[s].pc /\ call'[s].dirty = call[s].dirty
                /\ call'[s].turn = call[s].turn /\ call'[s].stage = call[s].stage
                /\ call'[s].out = call[s].out
      PROVE  CallSaved(s)'
  BY <1>0, <1>1 DEF CallSaved
<1>2. {"bad", "meta", "ok", "ask", "replied"} \subseteq Phases
  BY DEF Phases
<1>3. ASSUME Service(s) PROVE CallSaved(s)'
  <2>0. Live(s) /\ PhaseOK(s) /\ call'[s].stage = call[s].stage /\ call'[s].turn = call[s].turn
    BY <1>0, <1>3, ServiceCalls DEF SameCall, PhaseInv
  <2>1. CASE Denied(s) \/ Refused(s) \/ LlmFails(s) \/ Keep(s)
    <3>1. Goto(s, "bad") \/ Goto(s, "ask")
      BY <2>1 DEF Denied, Refused, LlmFails, Keep
    <3>2. call'[s].pc \in {"bad", "ask"}
      BY <1>0, <1>2, <2>0, <3>1, GoesOn
    <3>3. QED
      BY <1>1, <3>2
  <2>2. CASE LookUp(s) \/ Build(s)
    <3>1. call'[s].pc \in {"keep", "build"}
      BY <1>0, <2>2, LookUpCall, BuildCall
    <3>2. QED
      BY <1>1, <3>1
  <2>3. CASE SaveText(s)
    <3>1. /\ call[s].dirty => Goto(s, "meta")
          /\ ~call[s].dirty => Goto(s, "ok")
      BY <2>3 DEF SaveText
    <3>2. CASE call[s].dirty
      <4>1. call'[s].pc = "meta"
        BY <1>0, <1>2, <2>0, <3>1, <3>2, GoesOn
      <4>2. QED
        BY <1>1, <4>1
    <3>3. CASE ~call[s].dirty
      <4>1. call'[s].pc = "ok"
        BY <1>0, <1>2, <2>0, <3>1, <3>3, GoesOn
      <4>2. Mentions[call[s].turn] \subseteq saved
        BY <1>0, <2>3, <3>3 DEF CallSaved, SaveText
      <4>3. QED
        BY <1>0, <2>0, <4>1, <4>2 DEF CallSaved
    <3>4. QED
      BY <3>2, <3>3
  <2>4. CASE SaveModel(s)
    <3>1. call[s].pc = "meta" /\ Goto(s, "ok") /\ saved' = call[s].model
      BY <2>4 DEF SaveModel
    <3>2. call'[s].pc = "ok"
      BY <1>0, <1>2, <2>0, <3>1, GoesOn
    <3>3. Mentions[call[s].turn] \subseteq call[s].model
      BY <3>1 DEF KnownInv, Tagging
    <3>4. QED
      BY <2>0, <3>1, <3>2, <3>3 DEF CallSaved
  <2>5. ASSUME NEW p \in Processes, Tag(s, p) PROVE CallSaved(s)'
    <3>2. LoadModel(p) \subseteq saved
      BY <2>5, FreeSaved DEF Tag
    <3>3. /\ call'[s].pc = "tagged"
          /\ ~call'[s].dirty => Mentions[call[s].turn] \subseteq LoadModel(p)
      BY <1>0, <2>5, TagCall
    <3>4. QED
      BY <1>0, <2>0, <3>2, <3>3 DEF CallSaved
  <2>6. CASE SaveReply(s) \/ \E p \in Processes : Decipher(s, p)
    <3>0. Goto(s, "ok") /\ (call[s].pc = "replied" \/ call[s].stage = DecipherResp)
      BY <2>6 DEF SaveReply, Decipher
    <3>1. Goto(s, "ok") /\ call[s].stage # CipherReq
      BY <2>0, <3>0 DEF PhaseOK
    <3>2. call'[s].pc = "ok"
      BY <1>0, <1>2, <2>0, <3>1, GoesOn
    <3>3. QED
      BY <2>0, <3>1, <3>2 DEF CallSaved
  <2>7. CASE Ask(s)
    <3>1. call[s].stage = SendToGemini /\ call[s].ses \in SessionIds
      BY <2>0, <2>7 DEF Ask, PhaseOK
    <3>2. /\ call'[s].pc = "asking"
          /\ call'[s].out.tokens = Value(Latest(s)).tokens \cup ToldOf(sess[call[s].ses])
      BY <1>0, <2>7, <3>1, AskCall
    <3>3. ToldOf(sess[call[s].ses]) \subseteq saved
      BY <3>1, ToldWithin DEF SessionSaved
    <3>4. Value(Latest(s)).tokens \subseteq saved
      <4>1. /\ call[s].turn \in Turns /\ Latest(s) = Key(call[s].turn, SendToGemini)
            /\ Latest(s) \in Keys
        BY <1>0, <2>0, <3>1, LiveCall DEF Call
      <4>2. Value(Latest(s)) = text[call[s].turn][SendToGemini] /\ Stored(Latest(s))
        BY <1>0, <2>0, <4>1, StoredText, LatestStored DEF Key
      <4>3. Value(Latest(s)) = Ciphered(call[s].turn)
        BY <4>1, <4>2 DEF Stored, StageInv, TextInv
      <4>4. Reached(call[s].turn, SendToGemini)
        BY <1>0, <3>1 DEF GateInv
      <4>5. QED
        BY <4>1, <4>3, <4>4 DEF Ciphered, TextSaved
    <3>5. QED
      BY <1>0, <3>2, <3>3, <3>4 DEF CallSaved
  <2>8. CASE Reply(s)
    <3>1. Goto(s, "replied") /\ call[s].pc = "asking"
      BY <2>8 DEF Reply
    <3>2. call'[s].pc = "replied" /\ call'[s].out = call[s].out
      BY <1>0, <1>2, <2>0, <3>1, GoesOn
    <3>3. QED
      BY <1>0, <3>1, <3>2 DEF CallSaved
  <2>9. QED
    BY <1>3, <2>1, <2>2, <2>3, <2>4, <2>5, <2>6, <2>7, <2>8 DEF Service
<1>4. ASSUME NEW r \in Slots, Service(r) PROVE CallSaved(s)'
  <2>1. CASE r # s
    BY <1>0, <1>1, <1>4, <2>1, ServiceCalls
  <2>2. QED
    BY <1>3, <1>4, <2>1
<1>5. ASSUME NEW h \in Threads, Post(h) PROVE CallSaved(s)'
  <2>1. call'[s] = call[s] \/ call'[s].pc = "start"
    BY <1>0, <1>5, PostCall
  <2>2. QED
    BY <1>1, <2>1
<1>6. ASSUME NEW r \in Slots, Ends(r) PROVE CallSaved(s)'
  <2>1. CASE call'[s] = call[s]
    BY <1>1, <2>1
  <2>2. CASE call'[s] = NoCall
    BY <1>1, <2>2 DEF NoCall
  <2>3. CASE r = s /\ call'[s] = [call[s] EXCEPT !.by = Nobody]
    <3>1. call[s] \in Call
      BY <1>0, <1>6, <2>3, EndedCall, LiveCall
    <3>2. /\ call'[s].pc = call[s].pc /\ call'[s].dirty = call[s].dirty
          /\ call'[s].turn = call[s].turn /\ call'[s].stage = call[s].stage
          /\ call'[s].out = call[s].out
      BY <2>3, <3>1 DEF Call
    <3>3. QED
      BY <1>1, <3>2
  <2>4. QED
    BY <1>0, <1>6, <2>1, <2>2, <2>3, EndedCall
<1>7. ASSUME \/ UNCHANGED call \/ (\E h \in Threads : Grant(h))
             \/ \E p \in Processes : ProcessDies(p)
      PROVE  CallSaved(s)'
  BY <1>0, <1>1, <1>7, OthersCalls DEF SameCall
<1>8. CASE \/ NextTurn \/ (\E h \in Threads : TakeUp(h))
           \/ (\E p \in Processes : Expire(p)) \/ Evict \/ UNCHANGED vars
  <2>1. UNCHANGED call
    BY <1>8 DEF NextTurn, TakeUp, Expire, Evict, vars
  <2>2. QED
    BY <1>7, <2>1
<1>9. QED
  BY <1>4, <1>5, <1>6, <1>7, <1>8, NextSteps DEF Ends

\* The replies and the final contents that a step stores.
LEMMA ReplyTexts ==
  ASSUME StageInv, [Next]_vars, NEW t \in Turns
  PROVE  /\ \/ text'[t][DecipherResp] = text[t][DecipherResp]
            \/ \E s \in Slots :
                 call[s].pc = "replied" /\ text'[t][DecipherResp] = call[s].out
         /\ \/ text'[t][Done] = text[t][Done]
            \/ \E s \in Slots, p \in Processes :
                 /\ Decipher(s, p) /\ Live(s) /\ call[s].stage = DecipherResp
                 /\ text'[t][Done].tokens = Value(Latest(s)).tokens \ LoadModel(p)
<1>0. TypeOK /\ PhaseInv /\ text \in [Turns -> [Workers -> Text \cup {NoText}]]
  BY DEF StageInv, TypeOK
<1>1. ASSUME NEW u \in Turns, NEW w \in Workers, NEW v, text' = [text EXCEPT ![u][w] = v]
      PROVE  \A x \in Workers : text'[t][x] = IF t = u /\ x = w THEN v ELSE text[t][x]
  BY <1>0, <1>1
<1>2. CASE NextTurn
  <2>1. /\ text' = [text EXCEPT ![pos.turn + 1][CipherReq] = UserText(pos.turn + 1)]
        /\ pos.turn + 1 \in Turns
    <3>1. pos.turn \in Turns /\ pos.turn < LastTurn /\ LastTurn \in Nat
      BY <1>0, <1>2, StagesAssumption DEF NextTurn, TypeOK
    <3>2. QED
      BY <1>2, <3>1 DEF NextTurn, Write, Key, Turns
  <2>2. QED
    BY <1>1, <2>1
<1>3. ASSUME NEW s \in Slots, SaveText(s)
      PROVE  \A x \in {DecipherResp, Done} : text'[t][x] = text[t][x]
  <2>1. Live(s) /\ call[s].turn \in Turns
    <3>1. Live(s)
      BY <1>3 DEF SaveText, Live
    <3>2. QED
      BY <1>0, <3>1, LiveCall DEF Call
  <2>2. text' = [text EXCEPT ![call[s].turn][SendToGemini] = call[s].out]
    BY <1>3 DEF SaveText, Write, WriteKey, Key
  <2>3. QED
    BY <1>1, <2>1, <2>2
<1>4. ASSUME NEW s \in Slots, SaveReply(s)
      PROVE  /\ text'[t][Done] = text[t][Done] /\ call[s].pc = "replied"
             /\ text'[t][DecipherResp] \in {text[t][DecipherResp], call[s].out}
  <2>1. Live(s) /\ call[s].turn \in Turns
    <3>1. Live(s)
      BY <1>4 DEF SaveReply, Live
    <3>2. QED
      BY <1>0, <3>1, LiveCall DEF Call
  <2>2. text' = [text EXCEPT ![call[s].turn][DecipherResp] = call[s].out]
    BY <1>4 DEF SaveReply, Write, WriteKey, Key
  <2>3. QED
    BY <1>1, <1>4, <2>1, <2>2 DEF SaveReply
<1>5. ASSUME NEW s \in Slots, NEW p \in Processes, Decipher(s, p)
      PROVE  /\ text'[t][DecipherResp] = text[t][DecipherResp]
             /\ Live(s) /\ call[s].stage = DecipherResp
             /\ \/ text'[t][Done] = text[t][Done]
                \/ text'[t][Done].tokens = Value(Latest(s)).tokens \ LoadModel(p)
  <2> DEFINE reply == Value(Latest(s))
             v == [of |-> "final", turn |-> reply.turn, tokens |-> reply.tokens \ LoadModel(p)]
  <2>1. Live(s) /\ call[s].stage = DecipherResp
    BY <1>5 DEF Decipher, Live
  <2>2. call[s].turn \in Turns
    BY <1>0, <2>1, LiveCall DEF Call
  <2>3. text' = [text EXCEPT ![call[s].turn][Done] = v]
    BY <1>5 DEF Decipher, Write, WriteKey, Key
  <2>4. v.tokens = Value(Latest(s)).tokens \ LoadModel(p)
    OBVIOUS
  <2> HIDE DEF v
  <2>5. QED
    BY <1>1, <2>1, <2>2, <2>3, <2>4
<1>6. ASSUME ~NextTurn, \A s \in Slots : ~SaveText(s) /\ ~SaveReply(s),
             \A s \in Slots, p \in Processes : ~Decipher(s, p)
      PROVE  UNCHANGED text
  <2>1. ASSUME NEW s \in Slots, Service(s) PROVE UNCHANGED text
    BY <1>6, <2>1 DEF Service, Denied, Refused, SaveModel, Tag, LookUp, Build,
      Keep, Ask, Reply, LlmFails, redisVars
  <2>2. QED
    BY <1>6, <2>1, NextSteps DEF TakeUp, Grant, Post, Answered, Failed, TimedOut,
      Cancelled,
      Expire, ProcessDies, Evict, redisVars, vars
<1>7. QED
  BY <1>2, <1>3, <1>4, <1>5, <1>6

\* The texts.
LEMMA TextSavedStep ==
  ASSUME StageInv, \A s \in Slots : CallSaved(s), TextSaved, [Next]_vars, ~stale'
  PROVE  TextSaved'
<1>0. TypeOK /\ PhaseInv /\ saved \subseteq saved' /\ pos.turn \in Nat /\ pos.stage \in 0 .. 3
  BY SavedGrows, Numbers DEF StageInv
<1>1. ASSUME NEW t \in Turns, Reached(t, SendToGemini)' PROVE Mentions[t] \subseteq saved'
  <2>0. t \in Nat
    BY <1>0, Numbers
  <2>1. CASE Reached(t, SendToGemini)
    BY <1>0, <2>1 DEF TextSaved
  <2>2. ASSUME NEW s \in Slots, Answered(s), ~Reached(t, SendToGemini),
               call[s].turn = pos.turn, call[s].stage = pos.stage,
               pos'.turn = pos.turn, pos'.stage = pos.stage + 1
        PROVE  Mentions[t] \subseteq saved'
    <3>1. t = call[s].turn /\ call[s].stage = CipherReq
      BY <1>0, <1>1, <2>0, <2>2 DEF Reached
    <3>2. call[s].pc = "ok"
      BY <2>2 DEF Answered
    <3>3. QED
      BY <1>0, <3>1, <3>2 DEF CallSaved
  <2>3. CASE pos' = pos
    BY <1>1, <2>1, <2>3 DEF Reached
  <2>4. CASE pos.stage = Done /\ pos'.turn = pos.turn + 1 /\ pos'.stage = CipherReq
    <3>1. Reached(t, SendToGemini)
      BY <1>0, <1>1, <2>0, <2>4 DEF Reached
    <3>2. QED
      BY <2>1, <3>1
  <2>5. QED
    BY <1>0, <2>1, <2>2, <2>3, <2>4, PosMoves
<1>2. ASSUME NEW t \in Turns, text'[t][DecipherResp] # NoText
      PROVE  text'[t][DecipherResp].tokens \subseteq saved'
  <2>1. CASE text'[t][DecipherResp] = text[t][DecipherResp]
    BY <1>0, <1>2, <2>1 DEF TextSaved
  <2>2. ASSUME NEW s \in Slots, call[s].pc = "replied", text'[t][DecipherResp] = call[s].out
        PROVE  text'[t][DecipherResp].tokens \subseteq saved'
    BY <1>0, <2>2 DEF CallSaved
  <2>3. QED
    BY <2>1, <2>2, ReplyTexts
<1>3. ASSUME NEW t \in Turns, text'[t][Done] # NoText
      PROVE  text'[t][Done].tokens = {}
  <2>1. CASE text'[t][Done] = text[t][Done]
    BY <1>3, <2>1 DEF TextSaved
  <2>2. ASSUME NEW s \in Slots, NEW p \in Processes, Decipher(s, p), Live(s),
               call[s].stage = DecipherResp,
               text'[t][Done].tokens = Value(Latest(s)).tokens \ LoadModel(p)
        PROVE  text'[t][Done].tokens = {}
    <3>1. /\ call[s].turn \in Turns /\ Latest(s) = Key(call[s].turn, DecipherResp)
          /\ Latest(s) \in Keys
      BY <1>0, <2>2, LiveCall DEF Call
    <3>2. Value(Latest(s)) = text[call[s].turn][DecipherResp] /\ Stored(Latest(s))
      BY <1>0, <2>2, <3>1, StoredText, LatestStored DEF Key
    <3>3. Value(Latest(s)).tokens \subseteq saved
      BY <3>1, <3>2 DEF Stored, TextSaved
    <3>4. saved \subseteq LoadModel(p)
      BY <2>2, LoadsAll DEF Decipher
    <3>5. QED
      BY <2>2, <3>3, <3>4
  <2>3. QED
    BY <2>1, <2>2, ReplyTexts
<1>4. QED
  BY <1>1, <1>2, <1>3 DEF TextSaved

\* The sessions.
LEMMA SessionSavedStep ==
  ASSUME StageInv, \A s \in Slots : CallSaved(s), TextSaved, SessionSaved,
         [Next]_vars, ~stale'
  PROVE  SessionSaved'
<1>0. TypeOK /\ GateInv /\ PhaseInv /\ saved \subseteq saved' /\ sess \in [SessionIds -> Session]
  BY SavedGrows DEF StageInv, TypeOK
<1>1. ASSUME NEW i \in SessionIds, sess'[i] = sess[i]
      PROVE  TokensIn(sess'[i].built, saved') /\ TokensIn(sess'[i].said, saved')
  BY <1>0, <1>1 DEF SessionSaved, TokensIn
<1>2. ASSUME NEW s \in Slots, Build(s) PROVE SessionSaved'
  <2>0. /\ Live(s) /\ call[s] \in Call
    <3>1. Live(s)
      BY <1>2 DEF Build, Live
    <3>2. QED
      BY <1>0, <3>1, LiveCall
  <2> DEFINE i == call'[s].ses
             b == Rebuilt(call[s].turn)
  <2>1. /\ i \in SessionIds
        /\ sess'[i] = [built |-> b, said |-> <<>>]
        /\ \A j \in SessionIds \ {i} : sess'[j] = sess[j]
    BY <1>2, BuiltSession
  <2>2. ASSUME NEW k \in Earlier(s) PROVE Value(k).tokens \subseteq saved
    <3>1. /\ k \in Keys /\ k.turn < call[s].turn /\ k.worker \in {CipherReq, SendToGemini}
          /\ k \in KeysOf(ReadKeys(call[s].stage, call[s].turn)) \/ Stored(k)
      BY <1>0, <1>2, <2>0, LiveCall DEF Build, Allowed
    <3>2. k.turn \in Turns /\ Stored(k) /\ Value(k) = text[k.turn][k.worker]
      BY <1>0, <1>2, <3>1, StoredText DEF Build, Allowed, Keys
    <3>3. Value(k) # NoText
      BY <3>2 DEF Stored
    <3>4. CASE k.worker = CipherReq
      BY <3>2, <3>3, <3>4 DEF StageInv, TextInv, UserText
    <3>5. CASE k.worker = SendToGemini
      <4>1. Value(k) = Ciphered(k.turn)
        BY <3>2, <3>3, <3>5 DEF StageInv, TextInv
      <4>2. Reached(k.turn, SendToGemini)
        <5>1. k.turn \in Nat /\ call[s].turn \in Int /\ pos.turn \in Nat
          BY <1>0, <3>2, Numbers
        <5>2. Reached(call[s].turn, call[s].stage)
          BY <1>0 DEF GateInv
        <5>3. QED
          BY <3>1, <5>1, <5>2 DEF Reached
      <4>3. QED
        BY <3>2, <4>1, <4>2 DEF Ciphered, TextSaved
    <3>6. QED
      BY <3>1, <3>4, <3>5
  <2>3. \A k \in DOMAIN b : \E e \in Earlier(s) : b[k].text = Value(e)
    BY <1>2, RebuiltSession
  <2>4. TokensIn(b, saved')
    BY <1>0, <2>2, <2>3 DEF TokensIn
  <2>5. TokensIn(<<>>, saved')
    BY EmptySeq DEF TokensIn
  <2> HIDE DEF b, i
  <2>6. TokensIn(sess'[i].built, saved') /\ TokensIn(sess'[i].said, saved')
    <3>1. sess'[i].built = b /\ sess'[i].said = <<>>
      BY <2>1
    <3>2. QED
      BY <2>4, <2>5, <3>1
  <2>7. QED
    BY <1>1, <2>1, <2>6 DEF SessionSaved
<1>3. ASSUME NEW s \in Slots, Reply(s) PROVE SessionSaved'
  <2> DEFINE j == call[s].ses
             t == call[s].turn
             a == [role |-> "user", text |-> Value(Latest(s))]
             b == [role |-> "model", text |-> call[s].out]
             said == sess[j].said
  <2>0. /\ Live(s) /\ call[s].pc = "asking" /\ t \in Turns
    <3>1. Live(s) /\ call[s].pc = "asking"
      BY <1>3 DEF Reply, Live
    <3>2. QED
      BY <1>0, <3>1, LiveCall DEF Call
  <2>1. /\ j \in SessionIds
        /\ Value(Latest(s)) = Ciphered(t) /\ Value(Latest(s)) \in Text
        /\ call[s].out \in Text
        /\ \A i \in SessionIds \ {j} : sess'[i] = sess[i]
        /\ sess'[j].built = sess[j].built
        /\ sess'[j].said = said \o <<a, b>>
    BY <1>3, RepliedSession
  <2>2. a.text.tokens \subseteq saved'
    <3>1. call[s].stage = SendToGemini
      BY <1>0, <2>0 DEF PhaseInv, PhaseOK
    <3>2. Reached(t, SendToGemini)
      BY <1>0, <3>1 DEF GateInv
    <3>3. a.text.tokens = Mentions[t]
      BY <2>1 DEF Ciphered
    <3> HIDE DEF a, t
    <3>4. Mentions[t] \subseteq saved
      BY <1>0, <2>0, <3>2 DEF TextSaved
    <3>5. QED
      BY <1>0, <3>3, <3>4
  <2>3. b.text.tokens \subseteq saved'
    BY <1>0, <2>0 DEF CallSaved
  <2>4. said \in Seq(Entry) /\ a \in Entry /\ b \in Entry
    BY <1>0, <2>1 DEF Session, Entry
  <2>5. TokensIn(said, saved') /\ TokensIn(sess[j].built, saved')
    BY <1>0, <2>1 DEF SessionSaved, TokensIn
  <2> HIDE DEF a, b, said, j, t
  <2>6. TokensIn(said \o <<a, b>>, saved')
    <3>1. <<a, b>> \in Seq(Entry) /\ Len(<<a, b>>) = 2 /\ <<a, b>>[1] = a /\ <<a, b>>[2] = b
      BY <2>4
    <3>2. /\ said \o <<a, b>> \in Seq(Entry)
          /\ Len(said \o <<a, b>>) = Len(said) + 2
          /\ \A i \in 1 .. Len(said) + 2 :
               (said \o <<a, b>>)[i] = IF i <= Len(said) THEN said[i] ELSE <<a, b>>[i - Len(said)]
      BY <2>4, <3>1, ConcatProperties
    <3>3. Len(said) \in Nat /\ DOMAIN said = 1 .. Len(said)
          /\ DOMAIN (said \o <<a, b>>) = 1 .. Len(said) + 2
      BY <2>4, <3>2, LenProperties
    <3>4. ASSUME NEW i \in 1 .. Len(said) + 2
          PROVE  (said \o <<a, b>>)[i].text.tokens \subseteq saved'
      <4>1. CASE i <= Len(said)
        <5>1. i \in DOMAIN said
          BY <3>3, <4>1
        <5>2. QED
          BY <2>5, <3>2, <4>1, <5>1 DEF TokensIn
      <4>2. CASE ~(i <= Len(said))
        <5>1. i - Len(said) \in {1, 2}
          BY <3>3, <4>2
        <5>2. (said \o <<a, b>>)[i] \in {a, b}
          BY <3>1, <3>2, <4>2, <5>1
        <5>3. QED
          BY <2>2, <2>3, <5>2
      <4>3. QED
        BY <4>1, <4>2
    <3>5. QED
      BY <3>3, <3>4 DEF TokensIn
  <2>7. QED
    BY <1>1, <2>1, <2>5, <2>6 DEF SessionSaved
<1>4. QED
  BY <1>1, <1>2, <1>3, SessionSteps DEF SessionSaved

\* No name is known and nothing is stored but the first request when the chat begins.
LEMMA KnownStart == Init => KnownInv /\ SavedInv
<1> SUFFICES ASSUME Init PROVE KnownInv /\ SavedInv
  OBVIOUS
<1>1. /\ \A s \in Slots : call[s].pc = "none"
      /\ \A p \in Processes : ~cache[p].held
      /\ \A i \in SessionIds : sess[i].built = <<>> /\ sess[i].said = <<>>
  BY DEF Init, NoCall, NoModel, NoSession
<1>2. \A t \in Turns : ~Reached(t, SendToGemini)
  <2>1. \A t \in Turns : t \in Nat
    BY StagesAssumption DEF Turns
  <2>2. pos.turn = 0 /\ pos.stage = CipherReq
    BY DEF Init
  <2>3. QED
    BY <2>1, <2>2 DEF Reached
<1>3. \A t \in Turns, w \in {DecipherResp, Done} : text[t][w] = NoText
  BY DEF Init
<1>4. TokensIn(<<>>, saved)
  BY EmptySeq DEF TokensIn
<1>5. KnownInv
  BY <1>1 DEF KnownInv, Tagging
<1>6. CacheSaved /\ TextSaved /\ SessionSaved /\ \A s \in Slots : CallSaved(s)
  BY <1>1, <1>2, <1>3, <1>4 DEF CacheSaved, TextSaved, SessionSaved, CallSaved
<1>7. QED
  BY <1>5, <1>6 DEF SavedInv

\* The user is shown no token, however many processes the cipher has, unless a call
\* of the cipher failed with its names in the cache only, or a process went on with a
\* model that another one had outdated: but for these, whoever deciphers a reply knows
\* every name the LLM was told of.
THEOREM NoTokenIsShown == Spec => []TokensResolved
<1>1. StageInv /\ KnownInv /\ SavedInv /\ [Next]_vars => KnownInv' /\ SavedInv'
  <2> SUFFICES ASSUME StageInv, KnownInv, SavedInv, [Next]_vars PROVE KnownInv' /\ SavedInv'
    OBVIOUS
  <2>1. KnownInv'
    BY KnownStep
  <2>2. ASSUME ~unsaved', ~stale'
        PROVE  (CacheSaved /\ (\A s \in Slots : CallSaved(s)) /\ TextSaved /\ SessionSaved)'
    <3>1. CacheSaved /\ (\A s \in Slots : CallSaved(s)) /\ TextSaved /\ SessionSaved
      BY <2>2, UnsavedStays, StaleStays DEF SavedInv
    <3>2. CacheSaved'
      BY <2>2, <3>1, CacheStep
    <3>3. (\A s \in Slots : CallSaved(s))'
      BY <2>2, <3>1, CallSavedStep
    <3>4. TextSaved' /\ SessionSaved'
      BY <2>2, <3>1, TextSavedStep, SessionSavedStep
    <3>5. QED
      BY <3>2, <3>3, <3>4
  <2>3. QED
    BY <2>1, <2>2 DEF SavedInv
<1>2. SavedInv => TokensResolved
  BY DEF SavedInv, TextSaved, TokensResolved
<1>3. QED
  BY <1>1, <1>2, KnownStart, StageAlways, PTL DEF Spec

-----------------------------------------------------------------------------
(* One process. *)

\* The cipher has one process.
OneProcess == \A p \in Processes, q \in Processes : p = q

\* Whoever knows the chat knows every name that was saved, one call at a time adds
\* to them, and no model is ever outdated.
FreshInv ==
  /\ ~stale
  /\ \A p \in Processes : cache[p].held => saved \subseteq cache[p].names
  /\ \A s \in Slots : Tagging(s) => saved \subseteq call[s].model
  /\ \A s \in Slots, r \in Slots : Tagging(s) /\ Tagging(r) => s = r

\* The steps that touch the models.
LEMMA StaleSteps ==
  ASSUME [Next]_vars, \A s \in Slots : ~SaveModel(s),
         \A s \in Slots, p \in Processes : ~Tag(s, p) /\ ~Decipher(s, p)
  PROVE  UNCHANGED stale
<1>1. ASSUME NEW s \in Slots, Service(s) PROVE UNCHANGED stale
  BY <1>1 DEF Service, Denied, Refused, SaveText, LookUp, Build, Keep, Ask, Reply,
    LlmFails, SaveReply, seenVars
<1>2. QED
  BY <1>1, NextSteps DEF NextTurn, TakeUp, Grant, Post, Answered, Failed,
    TimedOut, Cancelled, Expire, ProcessDies, Evict, seenVars, vars

\* FreshInv is kept.
LEMMA FreshStep ==
  ASSUME OneProcess, StageInv, FreshInv, [Next]_vars
  PROVE  FreshInv'
<1>0. TypeOK /\ PhaseInv
      /\ cache \in [Processes -> [held : BOOLEAN, names : SUBSET Names]]
  BY DEF StageInv, TypeOK
<1>1. ASSUME NEW s \in Slots, NEW p \in Processes, Tag(s, p) PROVE FreshInv'
  <2>1. \A r \in Slots : ~Tagging(r)
    <3>1. ASSUME NEW r \in Slots, Tagging(r) PROVE FALSE
      <4>1. call[r].proc = p
        BY <3>1, TaggingCall DEF OneProcess
      <4>2. QED
        BY <1>1, <3>1, <4>1 DEF Tag, Free, Tagging
    <3>2. QED
      BY <3>1
  <2>2. saved \subseteq LoadModel(p) /\ ~Behind(p)
    BY DEF LoadModel, Behind, FreshInv
  <2>3. UNCHANGED saved /\ ~stale'
    BY <1>1, <2>2 DEF Tag, redisVars, FreshInv
  <2>4. /\ call'[s].model = LoadModel(p) \cup Mentions[call[s].turn]
        /\ \A r \in Slots \ {s} : call'[r] = call[r]
    BY <1>0, <1>1, TagCall
  <2>5. \A q \in Processes : cache'[q].names = LoadModel(p) \cup Mentions[call[s].turn]
    <3>1. cache' = [cache EXCEPT ![p] = Holding(LoadModel(p) \cup Mentions[call[s].turn])]
      BY <1>1 DEF Tag
    <3>2. QED
      BY <1>0, <3>1 DEF OneProcess, Holding
  <2>6. \A q \in Processes : cache'[q].held => saved' \subseteq cache'[q].names
    BY <2>2, <2>3, <2>5
  <2>7. \A r \in Slots : Tagging(r)' => r = s
    BY <2>1, <2>4 DEF Tagging
  <2>8. saved' \subseteq call'[s].model
    BY <2>2, <2>3, <2>4
  <2>9. QED
    BY <2>3, <2>6, <2>7, <2>8 DEF FreshInv
<1>2. ASSUME NEW s \in Slots, SaveModel(s) PROVE FreshInv'
  <2>1. call[s].pc = "meta" /\ Tagging(s) /\ Goto(s, "ok") /\ saved' = call[s].model
    BY <1>2 DEF SaveModel, Tagging
  <2>2. call'[s].pc = "ok" /\ \A r \in Slots \ {s} : call'[r] = call[r]
    <3>1. "ok" \in Phases /\ Live(s)
      BY <2>1 DEF Phases, Live
    <3>2. QED
      BY <1>0, <2>1, <3>1, GoesOn
  <2>3. \A r \in Slots : ~Tagging(r)'
    BY <2>1, <2>2 DEF FreshInv, Tagging
  <2>4. \A q \in Processes : cache'[q].names = saved'
    <3>1. cache' = [cache EXCEPT ![call[s].proc] = Holding(call[s].model)]
          /\ call[s].proc \in Processes
      BY <1>2, <2>1, TaggingCall DEF SaveModel
    <3>2. QED
      BY <1>0, <2>1, <3>1 DEF OneProcess, Holding
  <2>5. ~stale'
    BY <1>2, <2>1 DEF SaveModel, FreshInv
  <2>6. QED
    BY <2>3, <2>4, <2>5 DEF FreshInv
<1>3. ASSUME \A s \in Slots : ~SaveModel(s), \A s \in Slots, p \in Processes : ~Tag(s, p)
      PROVE  FreshInv'
  <2> DEFINE AllFresh == \A q \in Processes : cache'[q].held => saved \subseteq cache'[q].names
  <2>1. UNCHANGED saved
    BY <1>3, NameSteps
  <2>2. \A s \in Slots : Tagging(s)' => Tagging(s) /\ call'[s].model = call[s].model
    BY <1>3, TaggingBefore
  <2>3. ASSUME NEW s \in Slots, NEW p \in Processes, Decipher(s, p)
        PROVE  ~stale' /\ AllFresh
    <3>1. cache' = [cache EXCEPT ![p] = Holding(LoadModel(p))]
          /\ stale' = (stale \/ Behind(p))
      BY <2>3 DEF Decipher
    <3>2. saved \subseteq LoadModel(p) /\ ~Behind(p)
      BY DEF LoadModel, Behind, FreshInv
    <3>3. QED
      BY <1>0, <3>1, <3>2 DEF Holding, FreshInv
  <2>4. ASSUME NEW p \in Processes, Expire(p) \/ ProcessDies(p) PROVE AllFresh
    <3>1. cache' = [cache EXCEPT ![p] = NoModel]
      BY <2>4 DEF Expire, ProcessDies
    <3>2. QED
      BY <1>0, <3>1 DEF NoModel, FreshInv
  <2>5. UNCHANGED cache => AllFresh
    BY DEF FreshInv
  <2>6. ~stale' /\ AllFresh
    <3> HIDE DEF AllFresh
    <3>1. CASE \A s \in Slots, p \in Processes : ~Decipher(s, p)
      <4>1. ~stale'
        BY <1>3, <3>1, StaleSteps DEF FreshInv
      <4>2. AllFresh
        BY <1>3, <2>4, <2>5, <3>1, NameSteps
      <4>3. QED
        BY <4>1, <4>2
    <3>2. QED
      BY <2>3, <3>1
  <2>7. QED
    BY <2>1, <2>2, <2>6 DEF FreshInv
<1>4. QED
  BY <1>1, <1>2, <1>3

\* A cipher of one process never goes on with an outdated model: there, a name is shown
\* as a token only after a call of the cipher failed half-way.
THEOREM OneProcessStaysFresh ==
  ASSUME \A p \in Processes, q \in Processes : p = q
  PROVE  Spec => []~stale
<1>0. OneProcess
  BY DEF OneProcess
<1>1. Init => FreshInv
  BY DEF Init, FreshInv, Tagging, NoCall, NoModel
<1>2. StageInv /\ FreshInv /\ [Next]_vars => FreshInv'
  BY <1>0, FreshStep
<1>3. FreshInv => ~stale
  BY DEF FreshInv
<1>4. QED
  BY <1>1, <1>2, <1>3, StageAlways, PTL DEF Spec

=============================================================================
