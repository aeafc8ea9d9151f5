------------------------- MODULE AdapterSessionsProofs -------------------------
(***************************************************************************)
(* Theorems about AdapterSessions, for any number of chats, messages and   *)
(* users and for any two lifetimes that AdapterOutlivesGateway allows.     *)
(***************************************************************************)
EXTENDS AdapterSessions, TLAPS

USE LifetimesAssumption

(* Type correctness. *)

Sessions == [owner : Users \cup {Nobody}, age : Ages(AdapterTTL + 1)]
Calls    == [pc : MsgPhases, chat : Chats, user : Users \cup {Nobody},
             took : Ages(ForwardTicks)]
InitCalls == [pc : InitPhases, user : Users \cup {Nobody}]

\* Saturated ages stay in their range.
LEMMA OlderType ==
  ASSUME NEW n \in Nat, NEW a \in 0 .. n
  PROVE  Older(a, n) \in 0 .. n
BY DEF Older

\* The records that stand for nothing.
LEMMA NothingType ==
  /\ NoSession \in Sessions
  /\ Ended.pc = "ended" /\ Ended.user = Nobody /\ Ended.took = 0
  /\ NoMessage.pc = "none" /\ NoMessage.user = Nobody /\ NoMessage.took = 0
BY DEF NoSession, Sessions, Ages, Ended, NoMessage

\* Before the first call every variable has its type.
LEMMA InitTypeOK == Init => TypeOK
BY NothingType DEF Init, TypeOK, Sessions, InitPhases, KeyKinds, Ages, None, NoMessage

\* The parts of the state that a step of /init_chat leaves as they are or
\* changes within their types.
LEMMA InitStepType ==
  ASSUME TypeOK, NEW c \in Chats,
         \/ \E u \in Users : InitChat(c, u)
         \/ InitGoesOn(c) \/ InitFails(c) \/ InitHangUp(c)
  PROVE  TypeOK'
<1> USE DEF TypeOK, InitPhases, KeyKinds, InitStep, WriteKey
<1>1. ASSUME NEW u \in Users, InitChat(c, u) PROVE TypeOK'
  BY <1>1 DEF InitChat, gatewayVars, adapterVars, boundVars
<1>2. CASE SetSequanceKey(c)
  BY <1>2 DEF SetSequanceKey, adapterVars, boundVars
<1>3. CASE InitRequest(c)
  BY <1>3 DEF InitRequest, adapterVars, boundVars
<1>4. CASE CreateStream(c)
  BY <1>4 DEF CreateStream, adapterVars, boundVars
<1>5. CASE GrantAdapter(c)
  BY <1>5 DEF GrantAdapter, adapterVars, boundVars
<1>6. CASE Track(c)
  BY <1>6 DEF Track, setSessionTimestamp, adapterVars, boundVars, Ages
<1>7. CASE Put(c)
  BY <1>7 DEF Put, gatewayVars, boundVars, Ages
<1>8. CASE ReplyLost(c)
  BY <1>8 DEF ReplyLost, gatewayVars, adapterVars, boundVars
<1>9. CASE InitFails(c)
  BY <1>9 DEF InitFails, Fault, gatewayVars, adapterVars
<1>10. CASE InitHangUp(c)
  BY <1>10 DEF InitHangUp, gatewayVars, adapterVars
<1> QED
  BY <1>1, <1>2, <1>3, <1>4, <1>5, <1>6, <1>7, <1>8, <1>9, <1>10 DEF InitGoesOn

\* A lookup leaves the store as it is, touches the session or forgets it.
LEMMA LookupStore ==
  ASSUME NEW m \in Messages, NEW c \in Chats, NEW u \in Users, SendMessage(m, c, u)
  PROVE  \/ UNCHANGED sessions
         \/ Live(c) /\ sessions' = [sessions EXCEPT ![c].age = 0]
         \/ sessions' = [sessions EXCEPT ![c] = NoSession]
BY DEF SendMessage, Get, Forget

\* A message that is sent becomes a call or ends at once.
LEMMA LookupMessage ==
  ASSUME NEW m \in Messages, NEW c \in Chats, NEW u \in Users, SendMessage(m, c, u)
  PROVE  \E r \in {Ended} \cup Calls : msg' = [msg EXCEPT ![m] = r]
<1> DEFINE asked == [pc |-> "check", chat |-> c, user |-> u, took |-> 0]
<1>1. 0 \in Ages(ForwardTicks) /\ "check" \in MsgPhases
  BY DEF Ages, MsgPhases
<1>2. asked \in Calls
  BY <1>1 DEF Calls
<1>3. msg' = [msg EXCEPT ![m] = asked] \/ msg' = [msg EXCEPT ![m] = Ended]
  BY DEF SendMessage, Get, End
<1> HIDE DEF asked
<1> QED BY <1>2, <1>3

\* A message that is at the gateway or awaits its answer is a call.
LEMMA CallType ==
  ASSUME TypeOK, NEW m \in Messages, msg[m].pc \in MsgPhases
  PROVE  msg[m] \in Calls
BY NothingType DEF TypeOK, Calls, MsgPhases

\* The same of the steps of /chat/message, where the record of the call changes.
LEMMA MessageStepType ==
  ASSUME TypeOK, NEW m \in Messages,
         \/ \E c \in Chats, u \in Users : SendMessage(m, c, u)
         \/ MessageGoesOn(m) \/ ForwardFails(m) \/ HangUp(m)
  PROVE  TypeOK'
<1> USE DEF TypeOK
<1>1. ASSUME NEW c \in Chats, NEW u \in Users, SendMessage(m, c, u) PROVE TypeOK'
  <2>1. sessions' \in [Chats -> Sessions]
    <3>1. sessions \in [Chats -> Sessions] /\ NoSession \in Sessions
      BY NothingType DEF Sessions
    <3>2. \A x \in Sessions : [x EXCEPT !.age = 0] \in Sessions
      BY DEF Sessions, Ages
    <3> HIDE DEF TypeOK
    <3> QED BY <1>1, <3>1, <3>2, LookupStore
  <2>2. msg' \in [Messages -> {NoMessage, Ended} \cup Calls]
    <3>1. msg \in [Messages -> {NoMessage, Ended} \cup Calls]
      BY DEF Calls
    <3> HIDE DEF TypeOK
    <3> QED BY <1>1, <3>1, LookupMessage
  <2>3. UNCHANGED <<init, keys, pwds, active, sweep, handed, missed, restarts, faults>>
    BY <1>1 DEF SendMessage, gatewayVars, boundVars
  <2> QED BY <2>1, <2>2, <2>3 DEF Sessions, Calls
<1>2. CASE CheckChat(m)
  <2>1. msg[m] \in Calls BY <1>2, CallType DEF CheckChat, MsgPhases
  <2>2. msg' \in [Messages -> {NoMessage, Ended} \cup Calls]
    BY <1>2, <2>1 DEF CheckChat, MsgTo, End, Calls, MsgPhases
  <2> QED BY <1>2, <2>2 DEF CheckChat, gatewayVars, adapterVars, boundVars, Calls
<1>3. CASE WriteTurn(m)
  <2>1. msg[m] \in Calls BY <1>3, CallType DEF WriteTurn, MsgPhases
  <2>2. msg' \in [Messages -> {NoMessage, Ended} \cup Calls]
    BY <1>3, <2>1 DEF WriteTurn, MsgTo, Calls, MsgPhases
  <2>3. keys' \in [Chats -> SUBSET KeyKinds]
    BY <1>3, <2>1 DEF WriteTurn, WriteKey, Calls, KeyKinds
  <2>4. missed' \in SUBSET Chats BY <1>3, <2>1 DEF WriteTurn, Calls
  <2> QED BY <1>3, <2>2, <2>3, <2>4 DEF WriteTurn, adapterVars, boundVars, Calls
<1>4. CASE Touch(m)
  <2>1. msg[m] \in Calls BY <1>4, CallType DEF Touch, MsgPhases
  <2>2. msg' \in [Messages -> {NoMessage, Ended} \cup Calls]
    <3>1. [msg[m] EXCEPT !.pc = "await", !.took = 0] \in Calls
      <4>1. 0 \in Ages(ForwardTicks) /\ "await" \in MsgPhases
        BY DEF Ages, MsgPhases
      <4> QED BY <2>1, <4>1 DEF Calls
    <3> QED BY <1>4, <3>1 DEF Touch, Calls
  <2>3. active' \in [Chats -> Ages(GatewayTTL) \cup {None}]
    BY <1>4, <2>1 DEF Touch, setSessionTimestamp, Calls, Ages
  <2> QED BY <1>4, <2>2, <2>3 DEF Touch, adapterVars, boundVars, Calls
<1>5. CASE Answer(m)
  BY <1>5 DEF Answer, End, gatewayVars, adapterVars, boundVars
<1>6. CASE ForwardFails(m)
  BY <1>6 DEF ForwardFails, Fault, End, gatewayVars, adapterVars
<1>7. CASE HangUp(m)
  <2>1. msg[m] \in Calls BY <1>7, CallType DEF HangUp, Forwarding, MsgPhases
  <2>2. msg' \in [Messages -> {NoMessage, Ended} \cup Calls]
    BY <1>7, <2>1 DEF HangUp, Left, Calls
  <2> QED BY <1>7, <2>2 DEF HangUp, gatewayVars, adapterVars, Calls
<1> QED
  BY <1>1, <1>2, <1>3, <1>4, <1>5, <1>6, <1>7 DEF MessageGoesOn

\* The same of restarts, cleanups, the sweep and time.
LEMMA OtherStepType ==
  ASSUME TypeOK, AdapterRestart \/ AdapterCleanup \/ SweepGoesOn \/ Tick
  PROVE  TypeOK'
<1> USE DEF TypeOK
<1>1. CASE AdapterRestart
  <2>1. \A m \in Messages : Left(msg[m]) \in {NoMessage, Ended} \cup Calls
    BY DEF Left, Calls, NoMessage, Ended
  <2>2. init' \in [Chats -> InitCalls]
    BY <1>1 DEF AdapterRestart, InitCalls
  <2>3. sessions' \in [Chats -> Sessions]
    BY <1>1, NothingType DEF AdapterRestart
  <2> QED BY <1>1, <2>1, <2>2, <2>3 DEF AdapterRestart, gatewayVars, Calls, InitCalls, Sessions
<1>2. CASE AdapterCleanup
  <2>1. sessions' \in [Chats -> Sessions]
    BY <1>2, NothingType DEF AdapterCleanup, Sessions
  <2> QED BY <1>2, <2>1 DEF AdapterCleanup, gatewayVars, boundVars, Sessions
<1>3. CASE SweepFind
  BY <1>3 DEF SweepFind, checkExpiredSessions, adapterVars, boundVars
<1>4. CASE SweepUnlink
  <2>1. missed' \in SUBSET Chats /\ faults' \in 0 .. MaxFaults
    BY <1>4 DEF SweepUnlink, Fault
  <2> QED BY <1>4, <2>1 DEF SweepUnlink, adapterVars, KeyKinds
<1>5. CASE SweepForget
  BY <1>5 DEF SweepForget, Fault, adapterVars
<1>6. CASE Tick
  <2>1. active' \in [Chats -> Ages(GatewayTTL) \cup {None}]
    BY <1>6, OlderType DEF Tick, Ages
  <2>2. sessions' \in [Chats -> Sessions]
    <3>1. \A c \in Chats : Older(sessions[c].age, AdapterTTL + 1) \in Ages(AdapterTTL + 1)
      BY OlderType DEF Ages
    <3> QED BY <1>6, <3>1, NothingType DEF Tick, Sessions
  <2>3. msg' \in [Messages -> {NoMessage, Ended} \cup Calls]
    <3>1. ASSUME NEW m \in Messages, Forwarding(m)
          PROVE  [msg[m] EXCEPT !.took = @ + 1] \in Calls
      <4>1. msg[m] \in Calls BY <3>1, CallType DEF Forwarding, MsgPhases
      <4>2. msg[m].took \in Ages(ForwardTicks) BY <4>1 DEF Calls
      <4>3. msg[m].took < ForwardTicks BY <1>6, <3>1 DEF Tick
      <4>4. msg[m].took + 1 \in Ages(ForwardTicks) BY <4>2, <4>3 DEF Ages
      <4> QED BY <4>1, <4>4 DEF Calls
    <3> QED BY <1>6, <3>1 DEF Tick, Calls
  <2> QED BY <1>6, <2>1, <2>2, <2>3 DEF Tick, boundVars, Calls, Sessions
<1> QED
  BY <1>1, <1>2, <1>3, <1>4, <1>5, <1>6 DEF SweepGoesOn

\* Every step keeps the types.
LEMMA NextTypeOK ==
  ASSUME TypeOK, [Next]_vars
  PROVE  TypeOK'
<1>1. CASE Next
  BY <1>1, InitStepType, MessageStepType, OtherStepType DEF Next
<1>2. CASE UNCHANGED vars
  BY <1>2 DEF TypeOK, vars, gatewayVars, adapterVars, boundVars
<1> QED BY <1>1, <1>2

\* Every variable keeps its type, whatever the lifetimes and bounds are.
THEOREM TypeCorrect == Spec => []TypeOK
BY InitTypeOK, NextTypeOK, PTL DEF Spec

--------------------------------------------------------------------------------
(* Whose chat it is. *)

\* What holds of every call of /chat/message: its chat is open, and as long as
\* somebody waits for it, it is the one who opened it.
CallsInv ==
  \A m \in Messages :
    /\ msg[m].pc \in MsgPhases => init[msg[m].chat].pc = "open"
    /\ msg[m].user # Nobody => /\ msg[m].pc \in MsgPhases
                               /\ msg[m].user = init[msg[m].chat].user

OpenInv ==
  /\ \A c \in Chats : init[c].pc \in {"track", "reply", "open"} => c \in pwds
  /\ \A c \in handed : init[c].pc = "open"
  /\ \A c \in Chats : Live(c) => init[c].pc = "open" /\ sessions[c].owner = init[c].user
  /\ CallsInv

\* Nothing is open at first.
LEMMA InitOpenInv == Init => OpenInv
BY NothingType DEF Init, OpenInv, CallsInv, Live, MsgPhases

\* Neither a chat that is open nor who opened it changes.
OpenKept == \A c \in Chats : init[c].pc = "open" => init'[c] = init[c]

\* The steps of /init_chat open a chat once and for all.
LEMMA OpenKeptByInit ==
  ASSUME TypeOK, NEW c \in Chats,
         \/ \E u \in Users : InitChat(c, u)
         \/ InitGoesOn(c) \/ InitFails(c) \/ InitHangUp(c)
  PROVE  OpenKept
BY DEF OpenKept, TypeOK, InitChat, InitGoesOn, InitFails, InitHangUp, InitStep,
   SetSequanceKey, InitRequest, CreateStream, GrantAdapter, Track, Put, ReplyLost

\* A step that does not touch the messages keeps what holds of them.
LEMMA CallsInvKept ==
  ASSUME TypeOK, CallsInv, OpenKept, UNCHANGED msg
  PROVE  CallsInv'
<1> SUFFICES ASSUME NEW m \in Messages
             PROVE  /\ msg[m].pc \in MsgPhases => init'[msg[m].chat].pc = "open"
                    /\ msg[m].user # Nobody => /\ msg[m].pc \in MsgPhases
                                               /\ msg[m].user = init'[msg[m].chat].user
  BY DEF CallsInv
<1>1. msg[m].pc \in MsgPhases => msg[m].chat \in Chats
  BY CallType DEF Calls
<1> QED BY <1>1 DEF CallsInv, OpenKept

\* A chat opens after its password is accepted, and for the one who asked.
LEMMA OpenInvInitStep ==
  ASSUME TypeOK, OpenInv, NEW c \in Chats,
         \/ \E u \in Users : InitChat(c, u)
         \/ InitGoesOn(c) \/ InitFails(c) \/ InitHangUp(c)
  PROVE  OpenInv'
<1>1. UNCHANGED msg
  BY DEF InitChat, InitGoesOn, InitFails, InitHangUp,
     SetSequanceKey, InitRequest, CreateStream, GrantAdapter, Track, Put, ReplyLost
<1>2. CallsInv'
  BY <1>1, OpenKeptByInit, CallsInvKept DEF OpenInv
<1> USE <1>2 DEF TypeOK, OpenInv, InitStep, Live
<1>3. ASSUME NEW u \in Users, InitChat(c, u) PROVE OpenInv'
  BY <1>3 DEF InitChat, gatewayVars, adapterVars
<1>4. CASE SetSequanceKey(c)
  BY <1>4 DEF SetSequanceKey, adapterVars
<1>5. CASE InitRequest(c)
  BY <1>5 DEF InitRequest, adapterVars
<1>6. CASE CreateStream(c)
  BY <1>6 DEF CreateStream, adapterVars
<1>7. CASE GrantAdapter(c)
  BY <1>7 DEF GrantAdapter, adapterVars
<1>8. CASE Track(c)
  BY <1>8 DEF Track, adapterVars
<1>9. CASE Put(c)
  BY <1>9 DEF Put, gatewayVars
<1>10. CASE ReplyLost(c)
  BY <1>10 DEF ReplyLost, gatewayVars, adapterVars
<1>11. CASE InitFails(c)
  BY <1>11 DEF InitFails, gatewayVars, adapterVars
<1>12. CASE InitHangUp(c)
  BY <1>12 DEF InitHangUp, gatewayVars, adapterVars
<1> QED
  BY <1>3, <1>4, <1>5, <1>6, <1>7, <1>8, <1>9, <1>10, <1>11, <1>12 DEF InitGoesOn

\* A message step leaves the message as it is, ends it, moves it within its
\* phases, or loses its user.
LEMMA CallsInvMessageStep ==
  ASSUME TypeOK, CallsInv, UNCHANGED init, NEW m \in Messages, NEW r,
         msg' = [msg EXCEPT ![m] = r],
         \/ r = Ended
         \/ /\ msg[m].pc \in MsgPhases /\ r.pc \in MsgPhases
            /\ r.chat = msg[m].chat /\ r.user \in {msg[m].user, Nobody}
  PROVE  CallsInv'
BY NothingType DEF CallsInv, TypeOK, MsgPhases

\* The store lets a message through for the owner it keeps, and later steps of the
\* call do not change whose it is.
LEMMA OpenInvMessageStep ==
  ASSUME TypeOK, OpenInv, NEW m \in Messages,
         \/ \E c \in Chats, u \in Users : SendMessage(m, c, u)
         \/ MessageGoesOn(m) \/ ForwardFails(m) \/ HangUp(m)
  PROVE  OpenInv'
<1> USE DEF MsgTo, End
<1>1. ASSUME NEW c \in Chats, NEW u \in Users, SendMessage(m, c, u) PROVE OpenInv'
  <2>1. UNCHANGED <<init, pwds, handed>>
    BY <1>1 DEF SendMessage, gatewayVars
  <2>2. CallsInv'
    <3>1. CASE Get(m, c, u)
      <4>1. msg' = [msg EXCEPT ![m] = [pc |-> "check", chat |-> c, user |-> u, took |-> 0]]
            /\ Live(c) /\ sessions[c].owner = u
        BY <3>1 DEF Get
      <4>2. init[c].pc = "open" /\ init[c].user = u
        BY <4>1 DEF OpenInv
      <4> QED BY <2>1, <4>1, <4>2 DEF OpenInv, CallsInv, TypeOK, MsgPhases
    <3>2. CASE msg' = [msg EXCEPT ![m] = Ended]
      BY <2>1, <3>2, CallsInvMessageStep DEF OpenInv
    <3> QED BY <1>1, <3>1, <3>2 DEF SendMessage
  <2>3. \A d \in Chats : (Live(d))' => Live(d) /\ sessions'[d].owner = sessions[d].owner
    <3>1. sessions \in [Chats -> Sessions]
      BY DEF TypeOK, Sessions
    <3>2. \A x \in Sessions : [x EXCEPT !.age = 0].owner = x.owner
      BY DEF Sessions
    <3> SUFFICES ASSUME NEW d \in Chats, (Live(d))'
                 PROVE  Live(d) /\ sessions'[d].owner = sessions[d].owner
      OBVIOUS
    <3>3. CASE UNCHANGED sessions
      BY <3>3 DEF Live
    <3>4. CASE Live(c) /\ sessions' = [sessions EXCEPT ![c].age = 0]
      <4>1. sessions'[d] = IF d = c THEN [sessions[c] EXCEPT !.age = 0] ELSE sessions[d]
        BY <3>1, <3>4
      <4> QED BY <3>1, <3>2, <3>4, <4>1 DEF Live
    <3>5. CASE sessions' = [sessions EXCEPT ![c] = NoSession]
      <4>1. sessions'[d] = IF d = c THEN NoSession ELSE sessions[d]
        BY <3>1, <3>5
      <4> QED BY <4>1 DEF Live
    <3> QED BY <1>1, <3>3, <3>4, <3>5, LookupStore
  <2> QED BY <2>1, <2>2, <2>3 DEF OpenInv
<1>2. CASE CheckChat(m) \/ WriteTurn(m) \/ Touch(m) \/ Answer(m) \/ ForwardFails(m) \/ HangUp(m)
  <2>1. UNCHANGED <<init, pwds, handed, sessions>>
    BY <1>2 DEF CheckChat, WriteTurn, Touch, Answer, ForwardFails, HangUp,
       gatewayVars, adapterVars
  <2>2. msg[m] \in Calls
    BY <1>2, CallType
    DEF CheckChat, WriteTurn, Touch, Answer, ForwardFails, HangUp, Forwarding, MsgPhases
  <2>3. PICK r : /\ msg' = [msg EXCEPT ![m] = r]
                 /\ \/ r = Ended
                    \/ /\ msg[m].pc \in MsgPhases /\ r.pc \in MsgPhases
                       /\ r.chat = msg[m].chat /\ r.user \in {msg[m].user, Nobody}
    <3>1. CASE CheckChat(m)
      BY <3>1, <2>2 DEF CheckChat, Calls, MsgPhases
    <3>2. CASE WriteTurn(m)
      <4>1. [msg[m] EXCEPT !.pc = "touch"].chat = msg[m].chat
            /\ [msg[m] EXCEPT !.pc = "touch"].user = msg[m].user
            /\ [msg[m] EXCEPT !.pc = "touch"].pc = "touch"
        BY <2>2 DEF Calls
      <4> QED BY <3>2, <4>1 DEF WriteTurn, MsgPhases
    <3>3. CASE Touch(m)
      <4> DEFINE waits == [msg[m] EXCEPT !.pc = "await", !.took = 0]
      <4>1. waits.chat = msg[m].chat /\ waits.user = msg[m].user /\ waits.pc = "await"
        BY <2>2 DEF Calls
      <4>2. \/ msg' = [msg EXCEPT ![m] = Ended]
            \/ msg' = [msg EXCEPT ![m] = waits]
        BY <3>3 DEF Touch
      <4> HIDE DEF waits
      <4> QED BY <3>3, <4>1, <4>2 DEF Touch, MsgPhases
    <3>4. CASE Answer(m)
      BY <3>4 DEF Answer
    <3>5. CASE ForwardFails(m)
      BY <3>5 DEF ForwardFails
    <3>6. CASE HangUp(m)
      BY <3>6, <2>2 DEF HangUp, Left, Calls
    <3> QED BY <1>2, <3>1, <3>2, <3>3, <3>4, <3>5, <3>6
  <2>4. CallsInv'
    BY <2>1, <2>3, CallsInvMessageStep DEF OpenInv
  <2> QED BY <2>1, <2>4 DEF OpenInv, Live
<1> QED
  BY <1>1, <1>2 DEF MessageGoesOn

\* Restarts and cleanups only take sessions and callers away.
LEMMA OpenInvOtherStep ==
  ASSUME TypeOK, OpenInv, AdapterRestart \/ AdapterCleanup \/ SweepGoesOn \/ Tick
  PROVE  OpenInv'
<1>1. CASE AdapterRestart
  <2>1. OpenKept
    BY <1>1 DEF AdapterRestart, OpenKept
  <2>2. CallsInv'
    <3> SUFFICES ASSUME NEW m \in Messages
                 PROVE  /\ msg'[m].pc \in MsgPhases => init'[msg'[m].chat].pc = "open"
                        /\ msg'[m].user = Nobody
      BY DEF CallsInv
    <3>1. msg'[m] = Left(msg[m]) BY <1>1 DEF AdapterRestart
    <3>2. msg'[m].user = Nobody
      BY <3>1, NothingType DEF Left, TypeOK, NoMessage, Ended
    <3>3. ASSUME msg'[m].pc \in MsgPhases
          PROVE  msg[m].pc \in MsgPhases /\ msg'[m].chat = msg[m].chat
      BY <3>1, <3>3, NothingType DEF Left, TypeOK, MsgPhases, NoMessage, Ended
    <3>4. msg[m].pc \in MsgPhases => msg[m].chat \in Chats
      BY CallType DEF Calls
    <3> QED BY <2>1, <3>2, <3>3, <3>4 DEF OpenInv, CallsInv, OpenKept
  <2>3. \A c \in Chats : ~(Live(c))'
    BY <1>1 DEF AdapterRestart, Live
  <2>4. \A c \in Chats : init'[c].pc = init[c].pc
    BY <1>1 DEF AdapterRestart, TypeOK
  <2> QED BY <1>1, <2>2, <2>3, <2>4 DEF AdapterRestart, OpenInv, gatewayVars
<1>2. CASE AdapterCleanup
  BY <1>2 DEF AdapterCleanup, OpenInv, CallsInv, Live, gatewayVars
<1>3. CASE SweepGoesOn
  BY <1>3 DEF SweepGoesOn, SweepFind, SweepUnlink, SweepForget, OpenInv, CallsInv, Live,
    adapterVars
<1>4. CASE Tick
  <2>1. UNCHANGED <<init, pwds, handed>>
    BY <1>4 DEF Tick
  <2>2. \A m \in Messages : /\ msg'[m].pc = msg[m].pc /\ msg'[m].user = msg[m].user
                            /\ msg'[m].chat = msg[m].chat
    BY <1>4 DEF Tick, TypeOK, NoMessage, Ended
  <2>3. \A c \in Chats : (Live(c))' => Live(c) /\ sessions'[c].owner = sessions[c].owner
    BY <1>4 DEF Tick, Live, TypeOK
  <2> QED BY <2>1, <2>2, <2>3 DEF OpenInv, CallsInv
<1> QED BY <1>1, <1>2, <1>3, <1>4

\* Every step keeps OpenInv.
LEMMA NextOpenInv ==
  ASSUME TypeOK, OpenInv, [Next]_vars
  PROVE  OpenInv'
<1>1. CASE Next
  BY <1>1, OpenInvInitStep, OpenInvMessageStep, OpenInvOtherStep DEF Next
<1>2. CASE UNCHANGED vars
  BY <1>2 DEF OpenInv, CallsInv, Live, vars, gatewayVars, adapterVars
<1> QED BY <1>1, <1>2

\* What OpenInv says of the calls and of the passwords is the property.
LEMMA OpenInvCredentials ==
  ASSUME TypeOK, OpenInv
  PROVE  StreamCredentials
<1> SUFFICES ASSUME NEW m \in Messages, msg[m].user # Nobody
             PROVE  msg[m].user = init[msg[m].chat].user /\ msg[m].chat \in pwds
  BY DEF StreamCredentials
<1>1. msg[m].pc \in MsgPhases /\ init[msg[m].chat].pc = "open"
  BY DEF OpenInv, CallsInv
<1>2. msg[m].chat \in Chats BY <1>1, CallType DEF Calls
<1> QED BY <1>1, <1>2 DEF OpenInv, CallsInv

\* Every message under way is its chat's owner's, with a password that works.
THEOREM CredentialsHold == Spec => []StreamCredentials
<1>1. Init => TypeOK /\ OpenInv
  BY InitTypeOK, InitOpenInv
<1>2. TypeOK /\ OpenInv /\ [Next]_vars => (TypeOK /\ OpenInv)'
  BY NextTypeOK, NextOpenInv
<1>3. TypeOK /\ OpenInv => StreamCredentials
  BY OpenInvCredentials
<1> QED BY <1>1, <1>2, <1>3, PTL DEF Spec

--------------------------------------------------------------------------------
(* The two lifetimes. *)

\* The session of a chat is known and was used at most n ticks ago.
Known(c, n) == Live(c) /\ sessions[c].age =< n

\* The adapter touches a session before the gateway sets the chat's score: while
\* the request is on its way the session is no older than the request, and
\* afterwards it is at most ForwardTicks older than the score.
ScoreInv ==
  \A c \in handed :
    active[c] \in 0 .. GatewayTTL - 1 => Known(c, active[c] + ForwardTicks)

RequestInv ==
  \A m \in Messages :
    Forwarding(m) /\ msg[m].chat \in handed => Known(msg[m].chat, msg[m].took)

LifeInv == ScoreInv /\ RequestInv

\* No chat is handed out at first.
LEMMA InitLifeInv == Init => LifeInv
BY NothingType DEF Init, LifeInv, ScoreInv, RequestInv, Forwarding

\* What the invariant knows of has not expired: the two lifetimes are matched here.
LEMMA NotExpired ==
  ASSUME TypeOK, LifeInv, NEW c \in handed,
         \/ active[c] \in 0 .. GatewayTTL - 1
         \/ \E m \in Messages : Forwarding(m) /\ msg[m].chat = c
  PROVE  Live(c) /\ ~Expired(c)
<1>1. c \in Chats /\ sessions[c].age \in Ages(AdapterTTL + 1)
  BY DEF TypeOK
<1>2. CASE active[c] \in 0 .. GatewayTTL - 1
  BY <1>1, <1>2, AdapterOutlivesGateway DEF LifeInv, ScoreInv, Known, Expired, Ages
<1>3. ASSUME NEW m \in Messages, Forwarding(m), msg[m].chat = c
      PROVE  Live(c) /\ ~Expired(c)
  <2>1. msg[m].took \in Ages(ForwardTicks)
    BY <1>3, CallType DEF Forwarding, Calls, MsgPhases
  <2> QED
    BY <1>1, <1>3, <2>1, AdapterOutlivesGateway
    DEF LifeInv, RequestInv, Known, Expired, Ages
<1> QED BY <1>2, <1>3

\* A step of the adapter's store that touches sessions and drops expired ones.
Younger(c) ==
  \/ Expired(c) \/ ~Live(c)
  \/ (Live(c))' /\ sessions'[c].age =< sessions[c].age

\* It is enough that sessions get no older, that scores are left alone or removed,
\* and that calls that are forwarded have been so before.
LEMMA LifeInvKept ==
  ASSUME TypeOK, TypeOK', LifeInv, \A c \in handed : Younger(c), handed' \subseteq handed,
         \A c \in handed : active'[c] = active[c] \/ active'[c] = None,
         \A m \in Messages : (Forwarding(m))' =>
           Forwarding(m) /\ msg'[m].chat = msg[m].chat /\ msg'[m].took = msg[m].took
  PROVE  LifeInv'
<1> USE DEF Known
<1>1. ScoreInv'
  <2> SUFFICES ASSUME NEW c \in handed, active'[c] \in 0 .. GatewayTTL - 1
               PROVE  (Live(c))' /\ sessions'[c].age =< active'[c] + ForwardTicks
    BY DEF ScoreInv
  <2>1. active'[c] = active[c] BY DEF None
  <2>2. Live(c) /\ ~Expired(c) /\ sessions[c].age =< active[c] + ForwardTicks
    BY <2>1, NotExpired DEF LifeInv, ScoreInv
  <2>3. /\ c \in Chats /\ active[c] \in Int
        /\ sessions[c].age \in Int /\ sessions'[c].age \in Int
    BY <2>1 DEF TypeOK, Ages
  <2>4. (Live(c))' /\ sessions'[c].age =< sessions[c].age
    BY <2>2 DEF Younger
  <2> QED BY <2>1, <2>2, <2>3, <2>4
<1>2. RequestInv'
  <2> SUFFICES ASSUME NEW m \in Messages, (Forwarding(m))', msg'[m].chat \in handed
               PROVE  (Live(msg[m].chat))' /\ sessions'[msg[m].chat].age =< msg[m].took
    BY DEF RequestInv
  <2> DEFINE c == msg[m].chat
  <2>1. Forwarding(m) /\ c \in handed
    OBVIOUS
  <2>2. Live(c) /\ ~Expired(c) /\ sessions[c].age =< msg[m].took
    BY <2>1, NotExpired DEF LifeInv, RequestInv
  <2>3. /\ c \in Chats /\ msg[m].took \in Int
        /\ sessions[c].age \in Int /\ sessions'[c].age \in Int
    <3>1. msg[m] \in Calls BY <2>1, CallType DEF Forwarding, MsgPhases
    <3> QED BY <3>1 DEF Calls, TypeOK, Ages
  <2>4. (Live(c))' /\ sessions'[c].age =< sessions[c].age
    BY <2>1, <2>2 DEF Younger
  <2> QED BY <2>2, <2>3, <2>4
<1> QED BY <1>1, <1>2 DEF LifeInv

\* A session that a step leaves alone gets no older.
LEMMA SameAge ==
  ASSUME TypeOK, NEW c \in handed, sessions'[c] = sessions[c]
  PROVE  Younger(c)
BY DEF TypeOK, Younger, Live, Ages

\* A chat is tracked before it is put into the store: when it gets there, the
\* session is new.
LEMMA LifeInvInitStep ==
  ASSUME TypeOK, TypeOK', OpenInv, LifeInv, NEW c \in Chats,
         \/ \E u \in Users : InitChat(c, u)
         \/ InitGoesOn(c) \/ InitFails(c) \/ InitHangUp(c)
  PROVE  LifeInv'
<1>1. CASE ~Track(c) /\ ~Put(c)
  <2>1. UNCHANGED <<active, sessions, handed, msg>>
    BY <1>1 DEF InitChat, InitGoesOn, InitFails, InitHangUp, SetSequanceKey, InitRequest,
       CreateStream, GrantAdapter, ReplyLost, gatewayVars, adapterVars
  <2> QED BY <2>1, SameAge, LifeInvKept DEF Forwarding
<1>2. CASE Track(c)
  <2>1. c \notin handed
    BY <1>2 DEF Track, InitStep, OpenInv
  <2>2. UNCHANGED <<sessions, handed, msg>> /\ \A d \in handed : active'[d] = active[d]
    BY <1>2, <2>1 DEF Track, setSessionTimestamp, adapterVars, TypeOK
  <2> QED BY <2>2, SameAge, LifeInvKept DEF Forwarding
<1>3. CASE Put(c)
  <2>1. /\ init[c].pc = "reply"
        /\ UNCHANGED <<active, msg>> /\ handed' = handed \cup {c}
        /\ sessions' = [sessions EXCEPT ![c] = [owner |-> init[c].user, age |-> 0]]
        /\ init[c].user # Nobody
    BY <1>3 DEF Put, InitStep, gatewayVars
  <2>2. c \notin handed /\ \A m \in Messages : Forwarding(m) => msg[m].chat # c
    BY <2>1 DEF OpenInv, CallsInv, Forwarding, MsgPhases
  <2>3. \A d \in Chats \ {c} : sessions'[d] = sessions[d]
    BY <2>1 DEF TypeOK
  <2>4. (Live(c))' /\ sessions'[c].age = 0
    BY <2>1 DEF TypeOK, Live, NoSession
  <2>5. ScoreInv'
    <3> SUFFICES ASSUME NEW d \in handed', active[d] \in 0 .. GatewayTTL - 1
                 PROVE  (Known(d, active[d] + ForwardTicks))'
      BY <2>1 DEF ScoreInv, Known
    <3>1. CASE d = c
      BY <3>1, <2>1, <2>4 DEF Known
    <3>2. CASE d # c
      BY <3>2, <2>1, <2>3 DEF Known, Live, LifeInv, ScoreInv, TypeOK
    <3> QED BY <3>1, <3>2
  <2>6. RequestInv'
    <3> SUFFICES ASSUME NEW m \in Messages, Forwarding(m), msg[m].chat \in handed'
                 PROVE  (Known(msg[m].chat, msg[m].took))'
      BY <2>1 DEF RequestInv, Forwarding
    <3>1. msg[m].chat \in handed /\ msg[m].chat \in Chats \ {c}
      BY <2>1, <2>2 DEF TypeOK
    <3> QED BY <2>1, <2>3, <3>1 DEF Known, Live, LifeInv, RequestInv
  <2> QED BY <2>5, <2>6 DEF LifeInv
<1> QED BY <1>1, <1>2, <1>3

\* Get makes the session new; the score that Touch sets is newer than the session by
\* at most the time the request has taken.
LEMMA LifeInvMessageStep ==
  ASSUME TypeOK, TypeOK', OpenInv, LifeInv, NEW m \in Messages,
         \/ \E c \in Chats, u \in Users : SendMessage(m, c, u)
         \/ MessageGoesOn(m) \/ ForwardFails(m) \/ HangUp(m)
  PROVE  LifeInv'
<1>1. ASSUME NEW c \in Chats, NEW u \in Users, SendMessage(m, c, u) PROVE LifeInv'
  <2>1. UNCHANGED <<active, handed>>
    BY <1>1 DEF SendMessage, gatewayVars
  <2>2. CASE Get(m, c, u)
    <3>1. /\ \A d \in Chats \ {c} : sessions'[d] = sessions[d]
          /\ (Live(c))' /\ sessions'[c].age = 0
      BY <2>2, LifetimesAssumption DEF Get, TypeOK, Live, NoSession
    <3>2. /\ \A n \in Messages \ {m} : msg'[n] = msg[n]
          /\ msg'[m].chat = c /\ msg'[m].took = 0
      BY <2>2 DEF Get, TypeOK
    <3>3. ScoreInv'
      <4> SUFFICES ASSUME NEW d \in handed, active[d] \in 0 .. GatewayTTL - 1
                   PROVE  (Known(d, active[d] + ForwardTicks))'
        BY <2>1 DEF ScoreInv, Known
      <4>1. CASE d = c
        BY <4>1, <2>1, <3>1 DEF Known
      <4>2. CASE d # c
        BY <4>2, <2>1, <3>1 DEF Known, Live, LifeInv, ScoreInv, TypeOK
      <4> QED BY <4>1, <4>2
    <3>4. RequestInv'
      <4> SUFFICES ASSUME NEW n \in Messages, (Forwarding(n))', msg'[n].chat \in handed
                   PROVE  (Known(msg[n].chat, msg[n].took))'
        BY <2>1 DEF RequestInv, Known
      <4>1. CASE msg'[n].chat = c
        <5>1. msg'[n].took \in Ages(ForwardTicks)
          <6>1. msg'[n] \in {NoMessage, Ended} \cup Calls BY DEF TypeOK, Calls
          <6> QED BY <6>1, NothingType DEF Calls, Ages
        <5> QED BY <4>1, <5>1, <3>1 DEF Known, Ages
      <4>2. CASE msg'[n].chat # c
        BY <4>2, <3>1, <3>2 DEF Known, Live, Forwarding, LifeInv, RequestInv, TypeOK
      <4> QED BY <4>1, <4>2
    <3> QED BY <3>3, <3>4 DEF LifeInv
  <2>3. CASE ~Get(m, c, u)
    <3>1. End(m) /\ (UNCHANGED sessions \/ (Expired(c) /\ Forget(c)))
      BY <1>1, <2>3 DEF SendMessage
    <3>2. ASSUME NEW d \in handed PROVE Younger(d)
      <4>1. Expired(d) \/ sessions'[d] = sessions[d]
        BY <3>1 DEF Forget, TypeOK
      <4>2. CASE Expired(d)
        BY <4>2 DEF Younger
      <4>3. CASE sessions'[d] = sessions[d]
        BY <4>3, SameAge
      <4> QED BY <4>1, <4>2, <4>3
    <3>3. \A n \in Messages : (Forwarding(n))' => msg'[n] = msg[n]
      BY <3>1 DEF End, Forwarding, TypeOK, Ended
    <3> QED BY <2>1, <3>2, <3>3, LifeInvKept DEF Forwarding
  <2> QED BY <2>2, <2>3
<1>2. CASE CheckChat(m) \/ WriteTurn(m) \/ Answer(m) \/ ForwardFails(m) \/ HangUp(m)
  <2>1. UNCHANGED <<active, sessions, handed>>
    BY <1>2 DEF CheckChat, WriteTurn, Answer, ForwardFails, HangUp, gatewayVars,
      adapterVars
  <2>2. \A n \in Messages \ {m} : msg'[n] = msg[n]
    BY <1>2 DEF CheckChat, WriteTurn, Answer, ForwardFails, HangUp, MsgTo, End, TypeOK
  <2>3. (Forwarding(m))' =>
          Forwarding(m) /\ msg'[m].chat = msg[m].chat /\ msg'[m].took = msg[m].took
    <3>1. msg[m] \in Calls
      BY <1>2, CallType
      DEF CheckChat, WriteTurn, Answer, ForwardFails, HangUp, Forwarding, MsgPhases
    <3>2. \/ Forwarding(m) /\ msg' = [msg EXCEPT ![m].pc = "write"]
          \/ Forwarding(m) /\ msg' = [msg EXCEPT ![m].pc = "touch"]
          \/ msg' = [msg EXCEPT ![m] = Ended]
          \/ Forwarding(m) /\ msg' = [msg EXCEPT ![m].user = Nobody]
      BY <1>2, <3>1
      DEF CheckChat, WriteTurn, Answer, ForwardFails, HangUp, MsgTo, End, Left, Forwarding, TypeOK
    <3>3. CASE Forwarding(m) /\ msg' = [msg EXCEPT ![m].pc = "write"]
      BY <3>1, <3>3 DEF TypeOK, Calls
    <3>4. CASE Forwarding(m) /\ msg' = [msg EXCEPT ![m].pc = "touch"]
      BY <3>1, <3>4 DEF TypeOK, Calls
    <3>5. CASE msg' = [msg EXCEPT ![m] = Ended]
      BY <3>5, NothingType DEF Forwarding, TypeOK
    <3>6. CASE Forwarding(m) /\ msg' = [msg EXCEPT ![m].user = Nobody]
      BY <3>1, <3>6 DEF TypeOK, Calls
    <3> QED BY <3>2, <3>3, <3>4, <3>5, <3>6
  <2>4. \A d \in handed : Younger(d)
    BY <2>1, SameAge
  <2> QED BY <2>1, <2>2, <2>3, <2>4, LifeInvKept DEF Forwarding
<1>3. CASE Touch(m)
  <2>1. msg[m] \in Calls /\ Forwarding(m)
    BY <1>3, CallType DEF Touch, Forwarding, MsgPhases
  <2>2. /\ UNCHANGED <<sessions, handed>> /\ ~(Forwarding(m))'
        /\ \A n \in Messages \ {m} : msg'[n] = msg[n]
    BY <1>3, <2>1 DEF Touch, adapterVars, Forwarding, TypeOK, Calls, Ended
  <2>3. /\ \A d \in Chats \ {msg[m].chat} : active'[d] = active[d]
        /\ active'[msg[m].chat] = 0
    BY <1>3, <2>1 DEF Touch, setSessionTimestamp, TypeOK, Calls
  <2>4. ScoreInv'
    <3> SUFFICES ASSUME NEW d \in handed, active'[d] \in 0 .. GatewayTTL - 1
                 PROVE  Live(d) /\ sessions[d].age =< active'[d] + ForwardTicks
      BY <2>2 DEF ScoreInv, Known, Live
    <3>1. CASE d = msg[m].chat
      <4>1. Live(d) /\ sessions[d].age =< msg[m].took
        BY <2>1, <3>1 DEF LifeInv, RequestInv, Known
      <4>2. sessions[d].age \in Int /\ msg[m].took \in Int /\ msg[m].took =< ForwardTicks
        BY <2>1 DEF Calls, Ages, TypeOK
      <4> QED BY <2>3, <3>1, <4>1, <4>2
    <3>2. CASE d # msg[m].chat
      BY <2>3, <3>2 DEF LifeInv, ScoreInv, Known, TypeOK
    <3> QED BY <3>1, <3>2
  <2>5. RequestInv'
    BY <2>2 DEF RequestInv, LifeInv, Known, Live, Forwarding
  <2> QED BY <2>4, <2>5 DEF LifeInv
<1> QED
  BY <1>1, <1>2, <1>3 DEF MessageGoesOn

\* The cleanups drop only what NotExpired says is not known, and time makes all ages
\* grow alike.
LEMMA LifeInvOtherStep ==
  ASSUME TypeOK, TypeOK', LifeInv, AdapterRestart \/ AdapterCleanup \/ SweepGoesOn \/ Tick
  PROVE  LifeInv'
<1>1. CASE AdapterRestart
  BY <1>1 DEF AdapterRestart, LifeInv, ScoreInv, RequestInv
<1>2. CASE AdapterCleanup
  <2>1. UNCHANGED <<active, handed, msg>> /\ \A c \in handed : Expired(c) \/ sessions'[c] = sessions[c]
    BY <1>2 DEF AdapterCleanup, gatewayVars, TypeOK
  <2>2. ASSUME NEW c \in handed PROVE Younger(c)
    <3>1. CASE Expired(c)
      BY <3>1 DEF Younger
    <3>2. CASE sessions'[c] = sessions[c]
      BY <3>2, SameAge
    <3> QED BY <2>1, <3>1, <3>2
  <2> QED BY <2>1, <2>2, LifeInvKept DEF Forwarding
<1>3. CASE SweepGoesOn
  <2>1. UNCHANGED <<sessions, handed, msg>>
    BY <1>3 DEF SweepGoesOn, SweepFind, SweepUnlink, SweepForget, adapterVars
  <2>2. \A c \in handed : active'[c] = active[c] \/ active'[c] = None
    BY <1>3 DEF SweepGoesOn, SweepFind, SweepUnlink, SweepForget, TypeOK
  <2> QED BY <2>1, <2>2, SameAge, LifeInvKept DEF Forwarding
<1>4. CASE Tick
  <2>1. \A c \in handed : Live(c) => (Live(c))' /\ sessions'[c].age =< sessions[c].age + 1
    BY <1>4 DEF Tick, TypeOK, Live, NoSession, Older, Ages
  <2>2. ScoreInv'
    <3> SUFFICES ASSUME NEW c \in handed, active'[c] \in 0 .. GatewayTTL - 1
                 PROVE  (Live(c))' /\ sessions'[c].age =< active'[c] + ForwardTicks
      BY <1>4 DEF Tick, ScoreInv, Known
    <3>1. active[c] \in 0 .. GatewayTTL - 1 /\ active'[c] = active[c] + 1
      BY <1>4 DEF Tick, TypeOK, Older, None, Ages
    <3>2. Live(c) /\ sessions[c].age =< active[c] + ForwardTicks
      BY <3>1 DEF LifeInv, ScoreInv, Known
    <3>3. sessions[c].age \in Int /\ sessions'[c].age \in Int
      BY DEF TypeOK, Ages
    <3> QED BY <2>1, <3>1, <3>2, <3>3
  <2>3. RequestInv'
    <3> SUFFICES ASSUME NEW m \in Messages, (Forwarding(m))', msg'[m].chat \in handed
                 PROVE  (Known(msg[m].chat, msg[m].took))'
      BY <1>4 DEF Tick, RequestInv, Known
    <3>1. msg[m] \in Calls /\ Forwarding(m) /\ msg'[m] = [msg[m] EXCEPT !.took = @ + 1]
      <4>1. Forwarding(m) BY <1>4 DEF Tick, Forwarding
      <4> QED BY <1>4, <4>1, CallType DEF Tick, Forwarding, MsgPhases
    <3>2. msg'[m].chat = msg[m].chat /\ msg'[m].took = msg[m].took + 1 /\ msg[m].took \in Int
      BY <3>1 DEF Calls, Ages
    <3>3. Live(msg[m].chat) /\ sessions[msg[m].chat].age =< msg[m].took
      BY <3>1, <3>2 DEF LifeInv, RequestInv, Known
    <3>4. sessions[msg[m].chat].age \in Int /\ sessions'[msg[m].chat].age \in Int
      BY <3>1 DEF Calls, TypeOK, Ages
    <3>5. (Live(msg[m].chat))' /\ sessions'[msg[m].chat].age =< sessions[msg[m].chat].age + 1
      BY <2>1, <3>2, <3>3
    <3> QED BY <3>2, <3>3, <3>4, <3>5 DEF Known, Live
  <2> QED BY <2>2, <2>3 DEF LifeInv
<1> QED BY <1>1, <1>2, <1>3, <1>4

\* Every step keeps LifeInv.
LEMMA NextLifeInv ==
  ASSUME TypeOK, TypeOK', OpenInv, LifeInv, [Next]_vars
  PROVE  LifeInv'
<1>1. CASE Next
  BY <1>1, LifeInvInitStep, LifeInvMessageStep, LifeInvOtherStep DEF Next
<1>2. CASE UNCHANGED vars
  BY <1>2 DEF LifeInv, ScoreInv, RequestInv, Known, Live, Forwarding,
     vars, gatewayVars, adapterVars, boundVars
<1> QED BY <1>1, <1>2

\* The adapter never lets a chat expire that the gateway counts as active.
THEOREM ActiveIsKnown == Spec => []AdapterKnowsActive
<1>1. Init => TypeOK /\ OpenInv /\ LifeInv
  BY InitTypeOK, InitOpenInv, InitLifeInv
<1>2. TypeOK /\ OpenInv /\ LifeInv /\ [Next]_vars => (TypeOK /\ OpenInv /\ LifeInv)'
  BY NextTypeOK, NextOpenInv, NextLifeInv
<1>3. TypeOK /\ LifeInv => AdapterKnowsActive
  <2> SUFFICES ASSUME TypeOK, LifeInv, NEW c \in handed, active[c] \in 0 .. GatewayTTL - 1
               PROVE  Live(c) /\ sessions[c].age =< AdapterTTL
    BY DEF AdapterKnowsActive
  <2> QED BY NotExpired DEF Expired, TypeOK, Ages
<1> QED BY <1>1, <1>2, <1>3, PTL DEF Spec

================================================================================
