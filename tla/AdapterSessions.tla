---------------------------- MODULE AdapterSessions ----------------------------
(***************************************************************************)
(* How long a chat lives, and who may use it: the web adapter's session    *)
(* store beside the gateway's active-sessions ZSet.  The adapter opens a   *)
(* chat at the gateway, keeps its owner and its stream password in memory, *)
(* and looks both up for every message; the gateway creates a chat in five *)
(* Redis commands, notes when it was last used and sweeps it away when     *)
(* that was SessionTTL ago.  Each side has a clock, an expiry and a        *)
(* cleanup of its own, and only the adapter's pod can lose everything.     *)
(*                                                                         *)
(* Time is in ticks: a time stamp is kept as its age, which stops growing  *)
(* where no comparison tells it apart from an older one.  What becomes of  *)
(* a turn after the gateway has accepted it is the matter of ChatTurns and *)
(* WorkerPipeline.                                                         *)
(***************************************************************************)
EXTENDS Integers, FiniteSets

CONSTANTS
  Chats,         \* bound on the chats that are opened
  Messages,      \* bound on the messages that are sent
  Users,         \* the names in the adapter's tokens
  Nobody,        \* no user: the caller of a request that no longer exists
  GatewayTTL,    \* session_ttl_sec, in ticks
  AdapterTTL,    \* sessions.ttl_seconds, in ticks
  ForwardTicks,  \* the longest a request to the gateway takes until its handler ends
  MaxRestarts,   \* bound on restarts of the adapter and on clients that hang up
  MaxFaults      \* bound on gateway handlers that end early and on Redis commands
                 \* of the sweep that fail

ASSUME LifetimesAssumption ==
  /\ GatewayTTL \in Nat /\ AdapterTTL \in Nat /\ ForwardTicks \in Nat
  /\ Nobody \notin Users
  /\ MaxRestarts \in Nat /\ MaxFaults \in Nat

\* What the two configurations have to agree on: nothing in the code compares
\* the two lifetimes (600 s and 3600 s as shipped).
ASSUME AdapterOutlivesGateway == GatewayTTL + ForwardTicks =< AdapterTTL

VARIABLES
  init,      \* the /init_chat call of each chat: where it is, and who makes it
  keys,      \* each chat's keys in the sync Redis
  pwds,      \* the chats whose password the adapter's ACL user accepts
  active,    \* the age of each chat's score in the ZSet, or None
  sweep,     \* the sweep that runs, and the chats it found
  sessions,  \* Store.entries: the owner of each chat and the age of its LastUsed
  msg,       \* the /chat/message calls
  handed,    \* observed: chats put into the store since the adapter started
  missed,    \* observed: chats that the last sweep passed over, and those written
             \* to between its UNLINK and the next ZADD
  restarts, faults

gatewayVars == <<keys, pwds, active, sweep>>
adapterVars == <<sessions, handed>>
boundVars   == <<restarts, faults>>
vars == <<init, gatewayVars, adapterVars, msg, missed, boundVars>>

KeyKinds == {"SEQ_", "METADATA_", "STREAM_"}

None == -1          \* no member of the ZSet
Ages(ttl) == 0 .. ttl
NoSession == [owner |-> Nobody, age |-> 0]
NoMessage == [pc |-> "none", chat |-> Nobody, user |-> Nobody, took |-> 0]
Ended == [NoMessage EXCEPT !.pc = "ended"]

InitPhases == {"none", "seq", "meta", "stream", "acl", "track", "reply", "open", "cut"}
MsgPhases  == {"check", "write", "touch", "await"}

TypeOK ==
  /\ init \in [Chats -> [pc : InitPhases, user : Users \cup {Nobody}]]
  /\ keys \in [Chats -> SUBSET KeyKinds]
  /\ pwds \in SUBSET Chats
  /\ active \in [Chats -> Ages(GatewayTTL) \cup {None}]
  /\ sweep \in [pc : {"idle", "unlink", "forget"}, found : SUBSET Chats]
  /\ sessions \in [Chats -> [owner : Users \cup {Nobody}, age : Ages(AdapterTTL + 1)]]
  /\ msg \in [Messages -> {NoMessage, Ended} \cup
                  [pc : MsgPhases, chat : Chats, user : Users \cup {Nobody},
                   took : Ages(ForwardTicks)]]
  /\ handed \in SUBSET Chats
  /\ missed \in SUBSET Chats
  /\ restarts \in 0 .. MaxRestarts /\ faults \in 0 .. MaxFaults

Init ==
  /\ init = [c \in Chats |-> [pc |-> "none", user |-> Nobody]]
  /\ keys = [c \in Chats |-> {}]
  /\ pwds = {}
  /\ active = [c \in Chats |-> None]
  /\ sweep = [pc |-> "idle", found |-> {}]
  /\ sessions = [c \in Chats |-> NoSession]
  /\ msg = [m \in Messages |-> NoMessage]
  /\ handed = {} /\ missed = {}
  /\ restarts = 0 /\ faults = 0

(* Shared by the steps. *)

Live(c) == sessions[c] # NoSession

Expired(c) == Live(c) /\ sessions[c].age > AdapterTTL

\* The gateway's handler has the request and has not ended.
Forwarding(m) == msg[m].pc \in {"check", "write", "touch"}

Fault == faults < MaxFaults /\ faults' = faults + 1

--------------------------------------------------------------------------------
(* POST /init_chat, from the adapter's handler through the gateway's. *)

InitChat(c, u) ==
  /\ init[c].pc = "none"
  /\ init' = [init EXCEPT ![c] = [pc |-> "seq", user |-> u]]
  /\ UNCHANGED <<gatewayVars, adapterVars, msg, missed, boundVars>>

InitStep(c, from, to) ==
  /\ init[c].pc = from
  /\ init' = [init EXCEPT ![c].pc = to]

WriteKey(c, kind) == keys' = [keys EXCEPT ![c] = @ \cup {kind}]

SetSequanceKey(c) ==
  /\ InitStep(c, "seq", "meta")
  /\ WriteKey(c, "SEQ_")
  /\ UNCHANGED <<pwds, active, sweep, adapterVars, msg, missed, boundVars>>

InitRequest(c) ==
  /\ InitStep(c, "meta", "stream")
  /\ WriteKey(c, "METADATA_")
  /\ UNCHANGED <<pwds, active, sweep, adapterVars, msg, missed, boundVars>>

CreateStream(c) ==
  /\ InitStep(c, "stream", "acl")
  /\ WriteKey(c, "STREAM_")
  /\ UNCHANGED <<pwds, active, sweep, adapterVars, msg, missed, boundVars>>

\* Mutant: SETUSER starts with reset, as the one for a JIT user does.
GrantAdapterReset(c) ==
  /\ InitStep(c, "acl", "track")
  /\ pwds' = {c}
  /\ UNCHANGED <<keys, active, sweep, adapterVars, msg, missed, boundVars>>

\* One ACL user per adapter: every chat adds a password and a key pattern to it,
\* and nothing takes them away again.
GrantAdapter(c) ==
  /\ InitStep(c, "acl", "track")
  /\ pwds' = pwds \cup {c}
  /\ UNCHANGED <<keys, active, sweep, adapterVars, msg, missed, boundVars>>

\* Mutant: A score in another unit than the one the sweep compares with.
setSessionTimestampMillis(c) == active' = [active EXCEPT ![c] = GatewayTTL + 1]

setSessionTimestamp(c) == active' = [active EXCEPT ![c] = 0]

Track(c) ==
  /\ InitStep(c, "track", "reply")
  /\ setSessionTimestamp(c)
  /\ UNCHANGED <<keys, pwds, sweep, adapterVars, msg, missed, boundVars>>

\* A command is refused or the gateway's pod dies: what was written stays.
InitFails(c) ==
  /\ init[c].pc \in {"seq", "meta", "stream", "acl", "track"}
  /\ init' = [init EXCEPT ![c].pc = "cut"]
  /\ Fault
  /\ UNCHANGED <<gatewayVars, adapterVars, msg, missed, restarts>>

Put(c) ==
  /\ init[c].user # Nobody
  /\ InitStep(c, "reply", "open")
  /\ sessions' = [sessions EXCEPT ![c] = [owner |-> init[c].user, age |-> 0]]
  /\ handed' = handed \cup {c}
  /\ UNCHANGED <<gatewayVars, msg, missed, boundVars>>

\* Nobody is left to take the reply: the chat is open at the gateway only.
ReplyLost(c) ==
  /\ init[c].user = Nobody
  /\ InitStep(c, "reply", "open")
  /\ UNCHANGED <<gatewayVars, adapterVars, msg, missed, boundVars>>

--------------------------------------------------------------------------------
(* POST /chat/message. *)

Forget(c) == sessions' = [sessions EXCEPT ![c] = NoSession]

\* Mutant: Get does not touch LastUsed.
GetWithoutTouch(m, c, u) ==
  /\ Live(c) /\ ~Expired(c) /\ sessions[c].owner = u
  /\ msg' = [msg EXCEPT ![m] = [pc |-> "check", chat |-> c, user |-> u, took |-> 0]]
  /\ UNCHANGED sessions

\* Store.Get finds the session: it is touched and the request goes out.
Get(m, c, u) ==
  /\ Live(c) /\ ~Expired(c) /\ sessions[c].owner = u
  /\ sessions' = [sessions EXCEPT ![c].age = 0]
  /\ msg' = [msg EXCEPT ![m] = [pc |-> "check", chat |-> c, user |-> u, took |-> 0]]

End(m) == msg' = [msg EXCEPT ![m] = Ended]

SendMessage(m, c, u) ==
  /\ msg[m].pc = "none"
  /\ \/ Get(m, c, u)
     \/ ~Live(c) /\ End(m) /\ UNCHANGED sessions
     \/ Expired(c) /\ End(m) /\ Forget(c)
     \/ Live(c) /\ ~Expired(c) /\ sessions[c].owner # u /\ End(m) /\ UNCHANGED sessions
  /\ UNCHANGED <<init, gatewayVars, handed, missed, boundVars>>

MsgTo(m, pc) == msg' = [msg EXCEPT ![m].pc = pc]

\* METADATA_ has to be there, and SEQ_ has to hold the key that was sent.
CheckChat(m) ==
  /\ msg[m].pc = "check"
  /\ \/ {"METADATA_", "SEQ_"} \subseteq keys[msg[m].chat] /\ MsgTo(m, "write")
     \/ End(m)
  /\ UNCHANGED <<init, gatewayVars, adapterVars, missed, boundVars>>

\* The sweep has deleted the chat's keys, or forgotten it altogether.
Swept(c) == active[c] = None \/ (sweep.pc = "forget" /\ c \in sweep.found)

\* SetWorker0Atomic: the key of the next turn, whether SEQ_ is still there or not.
WriteTurn(m) ==
  /\ msg[m].pc = "write"
  /\ MsgTo(m, "touch")
  /\ WriteKey(msg[m].chat, "SEQ_")
  /\ missed' = IF Swept(msg[m].chat) THEN missed \cup {msg[m].chat} ELSE missed
  /\ UNCHANGED <<init, pwds, active, sweep, adapterVars, boundVars>>

Touch(m) ==
  /\ msg[m].pc = "touch"
  /\ msg' = [msg EXCEPT ![m] =
       IF @.user = Nobody THEN Ended ELSE [@ EXCEPT !.pc = "await", !.took = 0]]
  /\ setSessionTimestamp(msg[m].chat)
  /\ UNCHANGED <<init, keys, pwds, sweep, adapterVars, missed, boundVars>>

ForwardFails(m) ==
  /\ Forwarding(m)
  /\ End(m)
  /\ Fault
  /\ UNCHANGED <<init, gatewayVars, adapterVars, missed, restarts>>

\* AwaitContent returns, with an answer, an error or its timeout.
Answer(m) ==
  /\ msg[m].pc = "await"
  /\ End(m)
  /\ UNCHANGED <<init, gatewayVars, adapterVars, missed, boundVars>>

--------------------------------------------------------------------------------
(* The adapter loses its callers, or everything. *)

\* The request's context is cancelled; what the gateway has begun, it goes on with.
Left(r) == IF r.pc = "await" THEN Ended ELSE [r EXCEPT !.user = Nobody]

InitHangUp(c) ==
  /\ init[c].user # Nobody /\ init[c].pc \notin {"open", "cut"}
  /\ restarts < MaxRestarts /\ restarts' = restarts + 1
  /\ init' = [init EXCEPT ![c].user = Nobody]
  /\ UNCHANGED <<gatewayVars, adapterVars, msg, missed, faults>>

HangUp(m) ==
  /\ msg[m].user # Nobody /\ (Forwarding(m) \/ msg[m].pc = "await")
  /\ restarts < MaxRestarts /\ restarts' = restarts + 1
  /\ msg' = [msg EXCEPT ![m] = Left(@)]
  /\ UNCHANGED <<init, gatewayVars, adapterVars, missed, faults>>

AdapterRestart ==
  /\ restarts < MaxRestarts /\ restarts' = restarts + 1
  /\ sessions' = [c \in Chats |-> NoSession]
  /\ handed' = {}
  /\ msg' = [m \in Messages |-> Left(msg[m])]
  /\ init' = [c \in Chats |->
       IF init[c].pc = "open" THEN init[c] ELSE [init[c] EXCEPT !.user = Nobody]]
  /\ UNCHANGED <<gatewayVars, missed, faults>>

--------------------------------------------------------------------------------
(* The two cleanups, and time. *)

AdapterCleanup ==
  /\ \E c \in Chats : Expired(c)
  /\ sessions' = [c \in Chats |-> IF Expired(c) THEN NoSession ELSE sessions[c]]
  /\ UNCHANGED <<init, gatewayVars, handed, msg, missed, boundVars>>

checkExpiredSessions == {c \in Chats : active[c] # None /\ active[c] >= GatewayTTL}

SweepFind ==
  /\ sweep.pc = "idle" /\ checkExpiredSessions # {}
  /\ sweep' = [pc |-> "unlink", found |-> checkExpiredSessions]
  /\ UNCHANGED <<init, keys, pwds, active, adapterVars, msg, missed, boundVars>>

\* Mutant: only the session's keys are deleted, not its stream.
SweepUnlinkKeepsStream ==
  /\ sweep.pc = "unlink"
  /\ sweep' = [sweep EXCEPT !.pc = "forget"]
  /\ keys' = [c \in Chats |-> IF c \in sweep.found THEN keys[c] \cap {"STREAM_"} ELSE keys[c]]
  /\ missed' = missed \ sweep.found
  /\ UNCHANGED <<init, pwds, active, adapterVars, msg, boundVars>>

\* PerformCleanup; a failed SCAN passes over the chat, which is forgotten all the same.
SweepUnlink ==
  /\ sweep.pc = "unlink"
  /\ sweep' = [sweep EXCEPT !.pc = "forget"]
  /\ \E failed \in {{}} \cup {{c} : c \in sweep.found} :
       /\ keys' = [c \in Chats |-> IF c \in sweep.found \ failed THEN {} ELSE keys[c]]
       /\ missed' = (missed \ sweep.found) \cup failed
       /\ IF failed = {} THEN UNCHANGED faults ELSE Fault
  /\ UNCHANGED <<init, pwds, active, adapterVars, msg, restarts>>

\* ZREM; when it fails the next sweep finds the chats again.
SweepForget ==
  /\ sweep.pc = "forget"
  /\ sweep' = [pc |-> "idle", found |-> {}]
  /\ \/ /\ active' = [c \in Chats |-> IF c \in sweep.found THEN None ELSE active[c]]
        /\ UNCHANGED faults
     \/ Fault /\ UNCHANGED active
  /\ UNCHANGED <<init, keys, pwds, adapterVars, msg, missed, restarts>>

Older(age, last) == IF age < last THEN age + 1 ELSE age

Tick ==
  /\ \A m \in Messages : Forwarding(m) => msg[m].took < ForwardTicks
  /\ active' = [c \in Chats |->
       IF active[c] = None THEN None ELSE Older(active[c], GatewayTTL)]
  /\ sessions' = [c \in Chats |->
       IF Live(c) THEN [sessions[c] EXCEPT !.age = Older(@, AdapterTTL + 1)] ELSE NoSession]
  /\ msg' = [m \in Messages |->
       IF Forwarding(m) THEN [msg[m] EXCEPT !.took = @ + 1] ELSE msg[m]]
  /\ UNCHANGED <<init, keys, pwds, sweep, handed, missed, boundVars>>

--------------------------------------------------------------------------------

InitGoesOn(c) ==
  \/ SetSequanceKey(c) \/ InitRequest(c) \/ CreateStream(c) \/ GrantAdapter(c)
  \/ Track(c) \/ Put(c) \/ ReplyLost(c)

MessageGoesOn(m) == CheckChat(m) \/ WriteTurn(m) \/ Touch(m) \/ Answer(m)

SweepGoesOn == SweepFind \/ SweepUnlink \/ SweepForget

Next ==
  \/ \E c \in Chats : (\E u \in Users : InitChat(c, u)) \/ InitGoesOn(c) \/ InitFails(c)
                     \/ InitHangUp(c)
  \/ \E m \in Messages :
       \/ \E c \in Chats, u \in Users : SendMessage(m, c, u)
       \/ MessageGoesOn(m) \/ ForwardFails(m) \/ HangUp(m)
  \/ AdapterRestart \/ AdapterCleanup \/ SweepGoesOn \/ Tick

\* Time passes, the two tickers fire, and a handler that has begun goes on.
Fairness ==
  /\ WF_vars(Tick) /\ WF_vars(SweepGoesOn) /\ WF_vars(AdapterCleanup)
  /\ \A c \in Chats : WF_vars(InitGoesOn(c))
  /\ \A m \in Messages : WF_vars(MessageGoesOn(m))

Spec == Init /\ [][Next]_vars

FairSpec == Spec /\ Fairness

--------------------------------------------------------------------------------
(* Properties. *)

\* A message that the adapter has let through is of the user who opened the
\* chat, and the stream password that goes with it is one the adapter's ACL user
\* still accepts, whatever chats were opened or swept in between
\* (sessions.go:80, synchronizer.go:150).
StreamCredentials ==
  \A m \in Messages : msg[m].user # Nobody =>
    /\ msg[m].user = init[msg[m].chat].user
    /\ msg[m].chat \in pwds

\* While the gateway counts a chat as active, the adapter that opened it has not
\* let it expire: a user is never told to open the chat anew when the gateway
\* would still take the message (sessions.go:65-67, workerhandlers.go:161).
AdapterKnowsActive ==
  \A c \in handed :
    active[c] \in 0 .. GatewayTTL - 1 => Live(c) /\ sessions[c].age =< AdapterTTL

Gone(c) == /\ ~Live(c) /\ active[c] = None
           /\ keys[c] = {} \/ c \in missed

\* A chat that was opened does not stay: once it is used no more, both sides
\* drop it and its keys are deleted, also when its opener never got the reply or
\* the adapter was restarted.  Left over is only what the last scan for the chat
\* failed to find, and what a request wrote after the scan without getting the
\* chat into the ZSet again (workerhandlers.go:75, main.go:81).
EveryChatGoes == <>[](\A c \in Chats : init[c].pc = "open" => Gone(c))

================================================================================
