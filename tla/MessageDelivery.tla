--------------------------- MODULE MessageDelivery ---------------------------
(***************************************************************************)
(* What the worker pipeline promises for each accepted message, without    *)
(* streams, threads or pods: it passes the stages one after the other, a   *)
(* stage at a time, never back, and is let go only with an outcome, with   *)
(* its chat, or when the store fails to take it or the report about it.    *)
(***************************************************************************)
EXTENDS Naturals

CONSTANTS Messages, LastStage

VARIABLES
  pos,        \* [Messages -> 0 .. LastStage + 1]: how many stages it has entered
  owed,       \* messages the stage they are in still has to deal with
  done,       \* [0 .. LastStage -> SUBSET Messages]: carried out by the service
  notified,   \* messages reported to their adapter as failed
  closed,     \* messages whose chat has ended
  refused,    \* messages the store refused to hand over
  unreported  \* messages whose report as failed could not be written

vars == <<pos, owed, done, notified, closed, refused, unreported>>

Init ==
  /\ pos = [m \in Messages |-> 0]
  /\ owed = {}
  /\ done = [s \in 0 .. LastStage |-> {}]
  /\ notified = {}
  /\ closed = {}
  /\ refused = {}
  /\ unreported = {}

Submit(m) ==
  /\ pos[m] = 0 /\ m \notin closed
  /\ pos' = [pos EXCEPT ![m] = 1]
  /\ owed' = owed \cup {m}
  /\ UNCHANGED <<done, notified, closed, refused, unreported>>

\* Services may repeat themselves, and a slow one may finish a message its
\* stage has already let go.
Carry(m, s) ==
  /\ s < pos[m]
  /\ done' = [done EXCEPT ![s] = @ \cup {m}]
  /\ UNCHANGED <<pos, owed, notified, closed, refused, unreported>>

Forward(m) ==
  /\ m \in owed
  /\ pos[m] \in 1 .. LastStage
  /\ m \in done[pos[m] - 1]
  /\ pos' = [pos EXCEPT ![m] = @ + 1]
  /\ UNCHANGED <<owed, done, notified, closed, refused, unreported>>

\* Without an outcome the message stays owed; a report that could not be
\* written is not repeated.
Leave(m) ==
  /\ m \in owed
  /\ \/ m \in notified \cup unreported \cup closed
     \/ pos[m] = LastStage + 1 /\ m \in done[LastStage]
  /\ owed' = owed \ {m}
  /\ UNCHANGED <<pos, done, notified, closed, refused, unreported>>

Refuse(m) ==
  /\ m \in owed
  /\ pos[m] \in 1 .. LastStage
  /\ m \in done[pos[m] - 1]
  /\ refused' = refused \cup {m}
  /\ owed' = owed \ {m}
  /\ UNCHANGED <<pos, done, notified, closed, unreported>>

Notify(m) ==
  /\ pos[m] > 0 /\ m \notin closed
  /\ notified' = notified \cup {m}
  /\ UNCHANGED <<pos, owed, done, closed, refused, unreported>>

FailToNotify(m) ==
  /\ pos[m] > 0 /\ m \notin closed
  /\ unreported' = unreported \cup {m}
  /\ UNCHANGED <<pos, owed, done, notified, closed, refused>>

CloseChat(M) ==
  /\ closed' = closed \cup M
  /\ UNCHANGED <<pos, owed, done, notified, refused, unreported>>

Next ==
  \/ \E m \in Messages :
       Submit(m) \/ Forward(m) \/ Leave(m) \/ Refuse(m) \/ Notify(m)
         \/ FailToNotify(m)
  \/ \E m \in Messages, s \in 0 .. LastStage : Carry(m, s)
  \/ \E M \in SUBSET Messages : CloseChat(M)

Spec == Init /\ [][Next]_vars

=============================================================================
