---------------------------- MODULE ChatTurnsProofs ----------------------------
(***************************************************************************)
(* Theorems about ChatTurns, for any number of requests, any number base,  *)
(* any number of faults and of deliveries: the types, the order of the     *)
(* turns, and that a key opens one turn.  The answers are the subject of   *)
(* ChatAnswersProofs.                                                      *)
(***************************************************************************)
EXTENDS ChatTurns, TLAPS

-----------------------------------------------------------------------------
(* Facts about the operators of the model *)

\* A number base has at least two digits, so that the first number with three,
\* read by its first two, is one of the numbers that two digits hold.
LEMMA ReadNumber ==
  /\ Base \in Nat /\ Limit \in Nat
  /\ Limit \div Base \in Nat
  /\ Limit \div Base + 1 <= Limit
<1>1. Base \in Nat /\ Limit \in Nat /\ Base >= 2 /\ Limit >= 2 BY ChatAssumption
<1>2. Limit \div Base \in Nat /\ Base * (Limit \div Base) <= Limit BY <1>1
<1>3. 2 * (Limit \div Base) <= Base * (Limit \div Base) BY <1>1, <1>2
<1> QED BY <1>1, <1>2, <1>3

\* The turn of a key is its number, up to the last number, which is read as a
\* smaller one; the number of the next key never leaves the range.
LEMMA TurnNumber ==
  ASSUME NEW k \in Key
  PROVE  /\ TurnOf(k) \in Numbers
         /\ TurnOf(k) + 1 \in Numbers
         /\ k.num # Limit => TurnOf(k) = k.num
<1>1. k.num \in 0 .. Limit BY DEF Key, Numbers
<1>2. CASE k.num < Limit BY <1>1, <1>2, ReadNumber DEF TurnOf, Numbers
<1>3. CASE k.num = Limit BY <1>3, ReadNumber DEF TurnOf, Numbers
<1> QED BY <1>1, <1>2, <1>3, ReadNumber

\* The key made for the turn after r's is a key, and r is its issuer.
LEMMA NextKeyType ==
  ASSUME NEW r \in Requests, key[r] \in Key
  PROVE  /\ NextKey(r) \in Key /\ NextKey(r) # NoKey /\ NextKey(r).by = r
         /\ key[r].num # Limit => NextKey(r).num = key[r].num + 1
<1>1. TurnOf(key[r]) + 1 \in Numbers /\ (key[r].num # Limit => TurnOf(key[r]) = key[r].num)
  BY TurnNumber
<1> QED BY <1>1, ChatAssumption DEF NextKey, Key

\* A turn that has been published and not served yet.
LEMMA QueuedType ==
  ASSUME NEW n \in Numbers
  PROVE  /\ Queued(n) \in Job
         /\ Queued(n).seq = n /\ Queued(n).st = "queued"
         /\ Queued(n).text = Nobody /\ Queued(n).next = NoKey
BY DEF Queued, Job, JobStates, Texts

\* A turn whose finalization is handed out once more.
LEMMA RepeatedType ==
  ASSUME NEW n \in Numbers
  PROVE  /\ [Queued(n) EXCEPT !.st = "served"] \in Job
         /\ [Queued(n) EXCEPT !.st = "served"]
              = [seq |-> n, st |-> "served", text |-> Nobody, next |-> NoKey]
         /\ [Queued(n) EXCEPT !.st = "served"].st = "served"
BY DEF Queued, Job, JobStates, Texts

\* What a job is that has been given another state, and another next key.
LEMMA JobChange ==
  ASSUME NEW x \in Job, NEW s \in JobStates, NEW k \in Key \cup {NoKey}
  PROVE  /\ [x EXCEPT !.st = s] = [seq |-> x.seq, st |-> s, text |-> x.text, next |-> x.next]
         /\ [x EXCEPT !.st = s, !.next = k] = [seq |-> x.seq, st |-> s, text |-> x.text, next |-> k]
         /\ [x EXCEPT !.st = s] \in Job
         /\ [x EXCEPT !.st = s, !.next = k] \in Job
<1> DEFINE y == [seq |-> x.seq, st |-> s, text |-> x.text, next |-> x.next]
           z == [seq |-> x.seq, st |-> s, text |-> x.text, next |-> k]
<1>1. [x EXCEPT !.st = s] = y BY DEF Job
<1>2. [x EXCEPT !.st = s, !.next = k] = [[x EXCEPT !.st = s] EXCEPT !.next = k]
  BY Zenon
<1>3. [y EXCEPT !.next = k] = z OBVIOUS
<1>4. y \in Job /\ z \in Job BY DEF Job
<1> HIDE DEF y, z
<1>5. [x EXCEPT !.st = s, !.next = k] = z BY <1>1, <1>2, <1>3, Zenon
<1> QED BY <1>1, <1>4, <1>5 DEF y, z

\* Every job but j stays what it is; j becomes x.
Replaced(j, x) == jobs' = [jobs EXCEPT ![j] = x]

\* A job that is replaced leaves the others and the number of jobs alone.
LEMMA ReplacedJobs ==
  ASSUME jobs \in Seq(Job), NEW j \in DOMAIN jobs, NEW x \in Job, Replaced(j, x)
  PROVE  /\ jobs' \in Seq(Job)
         /\ DOMAIN jobs' = DOMAIN jobs
         /\ jobs'[j] = x
         /\ \A i \in DOMAIN jobs : i # j => jobs'[i] = jobs[i]
BY DEF Replaced

\* A new delivery joins the jobs at the end.
LEMMA AppendedJobs ==
  ASSUME jobs \in Seq(Job), NEW x \in Job, jobs' = Append(jobs, x)
  PROVE  /\ jobs' \in Seq(Job)
         /\ Len(jobs) + 1 \notin DOMAIN jobs
         /\ DOMAIN jobs' = DOMAIN jobs \cup {Len(jobs) + 1}
         /\ jobs'[Len(jobs) + 1] = x
         /\ \A i \in DOMAIN jobs : jobs'[i] = jobs[i]
OBVIOUS

\* The position of a job.
LEMMA JobType ==
  ASSUME jobs \in Seq(Job), NEW j \in DOMAIN jobs
  PROVE  /\ j \in Nat \ {0} /\ jobs[j] \in Job
         /\ jobs[j].seq \in Numbers /\ jobs[j].st \in JobStates
         /\ jobs[j].text \in Texts /\ jobs[j].next \in Key \cup {NoKey}
<1>1. jobs[j] \in Job /\ j \in 1 .. Len(jobs) OBVIOUS
<1> QED BY <1>1 DEF Job

\* Advance gives a job a state and nothing else.
LEMMA AdvanceFacts ==
  ASSUME jobs \in Seq(Job), NEW j \in DOMAIN jobs, NEW s \in JobStates, Advance(j, s)
  PROVE  LET x == [seq |-> jobs[j].seq, st |-> s, text |-> jobs[j].text, next |-> jobs[j].next]
         IN  Replaced(j, x) /\ x \in Job
<1>1. jobs[j] \in Job BY JobType
<1>2. jobs' = [jobs EXCEPT ![j] = [jobs[j] EXCEPT !.st = s]] BY DEF Advance
<1>3. /\ [jobs[j] EXCEPT !.st = s] = [seq |-> jobs[j].seq, st |-> s, text |-> jobs[j].text, next |-> jobs[j].next]
      /\ [seq |-> jobs[j].seq, st |-> s, text |-> jobs[j].text, next |-> jobs[j].next] \in Job
  <2>1. NoKey \in Key \cup {NoKey} OBVIOUS
  <2> QED BY <1>1, <2>1, JobChange
<1> QED BY <1>2, <1>3 DEF Replaced

\* The same of the steps that also give the job a text, or take it away ...
LEMMA TextFacts ==
  ASSUME jobs \in Seq(Job), NEW j \in DOMAIN jobs, NEW s \in JobStates, NEW t \in Texts,
         Carry(j, s, t)
  PROVE  LET x == [seq |-> jobs[j].seq, st |-> s, text |-> t, next |-> jobs[j].next]
         IN  Replaced(j, x) /\ x \in Job
<1> DEFINE x == jobs[j]
           y == [seq |-> x.seq, st |-> s, text |-> x.text, next |-> x.next]
           z == [seq |-> x.seq, st |-> s, text |-> t, next |-> x.next]
<1>1. x \in Job OBVIOUS
<1>2. [jobs EXCEPT ![j].st = s] = [jobs EXCEPT ![j] = y]
  <2>1. [x EXCEPT !.st = s] = y BY <1>1 DEF Job
  <2> QED BY <2>1
<1>3. jobs' = [[jobs EXCEPT ![j].st = s] EXCEPT ![j].text = t] BY DEF Carry
<1>4. jobs' = [[jobs EXCEPT ![j] = y] EXCEPT ![j].text = t] BY <1>2, <1>3
<1>5. [y EXCEPT !.text = t] = z OBVIOUS
<1>6. [jobs EXCEPT ![j] = y][j] = y OBVIOUS
<1>7. jobs' = [[jobs EXCEPT ![j] = y] EXCEPT ![j] = z] BY <1>4, <1>5, <1>6
<1>8. z \in Job BY <1>1 DEF Job
<1> QED BY <1>7, <1>8 DEF Replaced

\* ... and of Stamp and Abort, which give it the next key.
LEMMA NextFacts ==
  ASSUME jobs \in Seq(Job), NEW j \in DOMAIN jobs, NEW s \in JobStates, NEW k \in Key \cup {NoKey},
         jobs' = [jobs EXCEPT ![j].st = s, ![j].next = k]
  PROVE  LET x == [seq |-> jobs[j].seq, st |-> s, text |-> jobs[j].text, next |-> k]
         IN  Replaced(j, x) /\ x \in Job
<1> DEFINE x == jobs[j]
           y == [seq |-> x.seq, st |-> s, text |-> x.text, next |-> x.next]
           z == [seq |-> x.seq, st |-> s, text |-> x.text, next |-> k]
<1>1. x \in Job OBVIOUS
<1>2. [jobs EXCEPT ![j].st = s] = [jobs EXCEPT ![j] = y]
  <2>1. [x EXCEPT !.st = s] = y BY <1>1 DEF Job
  <2> QED BY <2>1
<1>3. jobs' = [[jobs EXCEPT ![j].st = s] EXCEPT ![j].next = k] OBVIOUS
<1>4. jobs' = [[jobs EXCEPT ![j] = y] EXCEPT ![j].next = k] BY <1>2, <1>3
<1>5. [y EXCEPT !.next = k] = z OBVIOUS
<1>6. [jobs EXCEPT ![j] = y][j] = y OBVIOUS
<1>7. jobs' = [[jobs EXCEPT ![j] = y] EXCEPT ![j] = z] BY <1>4, <1>5, <1>6
<1>8. z \in Job BY <1>1 DEF Job
<1> QED BY <1>7, <1>8 DEF Replaced

-----------------------------------------------------------------------------
(* Type correctness *)

\* A call that was sent has a key.
HasKey == \A r \in Requests : pc[r] # "new" => key[r] \in Key

\* An answer and an error are posted with a next key.
HasNext ==
  \A j \in DOMAIN jobs : jobs[j].st \in {"stamped", "aborting"} => jobs[j].next \in Key

\* A reader that was woken up has an entry.
HasEntry == \A r \in Requests : pc[r] = "read" => inbox[r] \in Entry

\* The types, with what keys and entries are in the places that are read.
TypeInv == TypeOK /\ HasKey /\ HasNext /\ HasEntry

\* Where a call can be.
Phases == {"new"} \cup InHandler \cup Waiting \cup Ended

\* The key of InitReq is a key, and a request is a text.
LEMMA ConstantTypes ==
  /\ FirstKey \in Key /\ FirstKey # NoKey /\ FirstKey.by = Nobody
  /\ Nobody \in Texts /\ Requests \subseteq Texts
  /\ \A r \in Requests : r \in Nat /\ r # Nobody
<1>1. FirstKey \in Key BY ReadNumber DEF FirstKey, Key, Numbers
<1>2. FirstKey.by = Nobody BY DEF FirstKey
<1> QED BY <1>1, <1>2, ChatAssumption DEF Texts, Requests, Nobody

\* A call that goes on leaves the other calls where they are.
LEMMA GotoFacts ==
  ASSUME pc \in [Requests -> Phases], NEW r \in Requests, NEW p \in Phases, Goto(r, p)
  PROVE  /\ pc' \in [Requests -> Phases]
         /\ pc'[r] = p
         /\ \A q \in Requests : q # r => pc'[q] = pc[q]
BY DEF Goto

\* The chat that InitReq leaves behind has the types.
LEMMA InitTypeInv == Init => TypeInv
<1> SUFFICES ASSUME Init PROVE TypeInv OBVIOUS
<1>1. jobs = <<>> /\ jobs \in Seq(Job) /\ DOMAIN jobs = {} BY DEF Init
<1>2. TypeOK BY <1>1, ConstantTypes, ChatAssumption DEF Init, TypeOK
<1> QED BY <1>1, <1>2 DEF Init, TypeInv, HasKey, HasNext, HasEntry

\* The client, the handler and the reader keep the types.
LEMMA CallStepType ==
  ASSUME TypeInv, NEW r \in Requests, CallStep(r)
  PROVE  TypeInv'
<1> USE DEF TypeInv, redisVars, historyVars
<1>0. pc \in [Requests -> Phases] BY DEF TypeOK, Phases
<1> DEFINE Moves(p) == p \in Phases /\ Goto(r, p)
<1>1. ASSUME NEW p, Moves(p), pc[r] # "new", p # "read",
             UNCHANGED <<key, inbox, answer, clientKey, jobs, sweep, opened, redelivered>>,
             meta' \in BOOLEAN, seq' \in Key \cup {NoKey},
             content' \in [Numbers -> Texts], UNCHANGED final, UNCHANGED acl,
             tracked' \in {"fresh", "stale", "no"}, faults' \in 0 .. MaxFaults
      PROVE  TypeInv'
  <2>1. /\ pc' \in [Requests -> Phases] /\ pc'[r] = p
        /\ \A q \in Requests : q # r => pc'[q] = pc[q]
    BY <1>0, <1>1, GotoFacts
  <2>2. TypeOK' BY <2>1, <1>1 DEF TypeOK, Phases
  <2> QED BY <2>1, <2>2, <1>1 DEF HasKey, HasNext, HasEntry
<1> HIDE DEF Moves
<1>2. \A p \in Phases : Goto(r, p) => Moves(p) BY DEF Moves
<1> USE DEF Phases, InHandler, Waiting, Ended
<1>3. CASE Send(r)
  <2>1. /\ pc' \in [Requests -> Phases] /\ pc'[r] = "meta"
        /\ \A q \in Requests : q # r => pc'[q] = pc[q]
    <3>1. Goto(r, "meta") /\ "meta" \in Phases BY <1>3 DEF Send
    <3> QED BY <3>1, <1>0, GotoFacts
  <2>2. key'[r] \in Key /\ key' \in [Requests -> Key \cup {NoKey}]
        /\ \A q \in Requests : q # r => key'[q] = key[q]
    BY <1>3 DEF Send, TypeOK
  <2>3. TypeOK' BY <1>3, <2>1, <2>2 DEF Send, TypeOK
  <2> QED BY <1>3, <2>1, <2>2, <2>3 DEF Send, HasKey, HasNext, HasEntry
<1>4. CASE CheckMeta(r)
  BY <1>1, <1>2, <1>4 DEF CheckMeta, TypeOK
<1>5. CASE CheckKey(r)
  BY <1>1, <1>2, <1>5 DEF CheckKey, TypeOK
<1>6. CASE SetContent(r)
  <2>1. content' \in [Numbers -> Texts]
    BY <1>6, ConstantTypes DEF SetContent, TypeOK
  <2> QED BY <1>1, <1>2, <1>6, <2>1 DEF SetContent, TypeOK
<1>7. CASE Publish(r)
  <2>1. key[r] \in Key BY <1>7 DEF Publish, HasKey
  <2>2. seq' \in Key /\ TurnOf(key[r]) \in Numbers BY <1>7, <2>1, NextKeyType, TurnNumber DEF Publish
  <2>3. /\ Queued(TurnOf(key[r])) \in Job /\ Queued(TurnOf(key[r])).st = "queued"
    BY <2>2, QueuedType
  <2>4. /\ jobs' \in Seq(Job) /\ HasNext'
    BY <1>7, <2>3, AppendedJobs DEF Publish, HasNext, TypeOK
  <2>5. /\ pc' \in [Requests -> Phases] /\ pc'[r] = "touch"
        /\ \A q \in Requests : q # r => pc'[q] = pc[q]
    <3>1. Goto(r, "touch") /\ "touch" \in Phases BY <1>7 DEF Publish
    <3> QED BY <3>1, <1>0, GotoFacts
  <2>6. TypeOK' BY <1>7, <2>2, <2>4, <2>5 DEF Publish, TypeOK
  <2> QED BY <1>7, <2>1, <2>4, <2>5, <2>6 DEF Publish, HasKey, HasEntry
<1>8. CASE PublishFails(r)
  <2>1. seq' \in Key \cup {NoKey}
    BY <1>8, NextKeyType DEF PublishFails, HasKey, TypeOK
  <2>2. faults' \in 0 .. MaxFaults BY <1>8, ChatAssumption DEF PublishFails, TypeOK
  <2> QED BY <1>1, <1>2, <1>8, <2>1, <2>2 DEF PublishFails, TypeOK
<1>9. CASE Touch(r)
  BY <1>1, <1>2, <1>9 DEF Touch, TypeOK
<1>10. CASE HandlerDies(r)
  <2>1. faults' \in 0 .. MaxFaults BY <1>10, ChatAssumption DEF HandlerDies, TypeOK
  <2> QED BY <1>1, <1>2, <1>10, <2>1 DEF HandlerDies, TypeOK
<1>11. CASE Subscribe(r)
  BY <1>1, <1>2, <1>11 DEF Subscribe, TypeOK
<1>12. CASE GiveUp(r)
  BY <1>1, <1>2, <1>12 DEF GiveUp, TypeOK
<1>13. CASE ReceiveError(r)
  BY <1>1, <1>2, <1>13 DEF ReceiveError, TypeOK
<1>14. CASE Receive(r)
  <2>1. inbox[r] \in Entry BY <1>14 DEF Receive, HasEntry
  <2>2. inbox[r].seq \in Numbers /\ inbox[r].next \in Key BY <2>1 DEF Entry
  <2>3. /\ pc' \in [Requests -> Phases] /\ pc'[r] = "replied"
        /\ \A q \in Requests : q # r => pc'[q] = pc[q]
    <3>1. Goto(r, "replied") /\ "replied" \in Phases BY <1>14 DEF Receive
    <3> QED BY <3>1, <1>0, GotoFacts
  <2>4. answer' \in [Requests -> Texts] BY <1>14, <2>2 DEF Receive, TypeOK
  <2>5. TypeOK' BY <1>14, <2>2, <2>3, <2>4 DEF Receive, TypeOK
  <2> QED BY <1>14, <2>3, <2>5 DEF Receive, HasKey, HasNext, HasEntry
<1> QED
  BY <1>3, <1>4, <1>5, <1>6, <1>7, <1>8, <1>9, <1>10, <1>11, <1>12, <1>13, <1>14
  DEF CallStep

\* An entry wakes up the calls that block on the stream, and nobody else.
LEMMA PostEntryFacts ==
  ASSUME TypeOK, NEW e \in Entry, PostEntry(e)
  PROVE  /\ pc' \in [Requests -> Phases] /\ inbox' \in [Requests -> Entry \cup {NoEntry}]
         /\ \A r \in Requests : pc[r] = "reading" => pc'[r] = "read" /\ inbox'[r] = e
         /\ \A r \in Requests : pc[r] # "reading" => pc'[r] = pc[r] /\ inbox'[r] = inbox[r]
BY DEF TypeOK, PostEntry, Phases, Waiting

\* The entry that a finalizer posts, and the one that reports a turn given up.
LEMMA EntryType ==
  ASSUME TypeInv, NEW j \in DOMAIN jobs
  PROVE  /\ jobs[j].st = "stamped" =>
              [ok |-> TRUE, seq |-> jobs[j].seq, next |-> jobs[j].next, pwd |-> j] \in Entry
         /\ jobs[j].st = "aborting" =>
              [ok |-> FALSE, seq |-> jobs[j].seq, next |-> jobs[j].next, pwd |-> 0] \in Entry
<1>1. jobs[j].seq \in Numbers /\ j \in Nat BY JobType DEF TypeInv, TypeOK
<1> QED BY <1>1 DEF TypeInv, HasNext, Entry

\* The services, the finalizer and the threads that give turns up keep the types.
LEMMA JobStepType ==
  ASSUME TypeInv, NEW j \in DOMAIN jobs, JobStep(j)
  PROVE  TypeInv'
<1> USE DEF TypeInv, redisVars, callVars, historyVars
<1>0. /\ jobs \in Seq(Job) /\ j \in Nat /\ jobs[j] \in Job /\ seq \in Key \cup {NoKey}
      /\ jobs[j].seq \in Numbers /\ jobs[j].st \in JobStates
      /\ jobs[j].text \in Texts /\ jobs[j].next \in Key \cup {NoKey}
  BY JobType DEF TypeOK
<1>1. ASSUME NEW x \in Job, Replaced(j, x), x.st \in {"stamped", "aborting"} => x.next \in Key
      PROVE  jobs' \in Seq(Job) /\ HasNext'
  BY <1>0, <1>1, ReplacedJobs DEF HasNext
<1>2. ASSUME NEW s \in JobStates, Advance(j, s),
             s \in {"stamped", "aborting"} => jobs[j].next \in Key
      PROVE  jobs' \in Seq(Job) /\ HasNext'
  <2> DEFINE x == [seq |-> jobs[j].seq, st |-> s, text |-> jobs[j].text, next |-> jobs[j].next]
  <2>1. Replaced(j, x) /\ x \in Job BY <1>0, <1>2, AdvanceFacts
  <2>2. x.st \in {"stamped", "aborting"} => x.next \in Key BY <1>2
  <2> QED BY <1>1, <2>1, <2>2
<1>3. ASSUME NEW x \in Job, jobs' = Append(jobs, x),
             x.st \in {"stamped", "aborting"} => x.next \in Key
      PROVE  jobs' \in Seq(Job) /\ HasNext'
  BY <1>0, <1>3, AppendedJobs DEF HasNext
<1>4. ASSUME UNCHANGED callVars, jobs' \in Seq(Job) /\ HasNext',
             UNCHANGED <<meta, seq, content, tracked, sweep, opened>>,
             final' \in [Numbers -> Texts], acl' \in Nat,
             redelivered' \in 0 .. MaxRedeliver, faults' \in 0 .. MaxFaults
      PROVE  TypeInv'
  <2>1. TypeOK' BY <1>4 DEF TypeOK
  <2> QED BY <1>4, <2>1 DEF HasKey, HasEntry
<1>5. redelivered < MaxRedeliver => redelivered + 1 \in 0 .. MaxRedeliver
  BY ChatAssumption DEF TypeOK
<1> USE DEF JobStates
<1>6. CASE Serve(j)
  <2>1. content[jobs[j].seq] \in Texts BY <1>0 DEF TypeOK
  <2> DEFINE x == [seq |-> jobs[j].seq, st |-> "serving", text |-> content[jobs[j].seq], next |-> jobs[j].next]
  <2>2. Replaced(j, x) /\ x \in Job BY <1>0, <1>6, <2>1, TextFacts DEF Serve
  <2>3. x.st = "serving" OBVIOUS
  <2>4. jobs' \in Seq(Job) /\ HasNext' BY <1>1, <2>2, <2>3
  <2> QED BY <1>4, <1>6, <2>4 DEF Serve, TypeOK
<1>7. CASE Deliver(j)
  <2> DEFINE x == [seq |-> jobs[j].seq, st |-> "served", text |-> Nobody, next |-> jobs[j].next]
  <2>1. Replaced(j, x) /\ x \in Job BY <1>0, <1>7, ConstantTypes, TextFacts DEF Deliver
  <2>2. x.st = "served" OBVIOUS
  <2>3. jobs' \in Seq(Job) /\ HasNext' BY <1>1, <2>1, <2>2
  <2> QED BY <1>0, <1>4, <1>7, <2>3 DEF Deliver, TypeOK
<1>8. CASE Grant(j)
  <2>1. jobs' \in Seq(Job) /\ HasNext' BY <1>2, <1>8 DEF Grant
  <2> QED BY <1>0, <1>4, <1>8, <2>1 DEF Grant, TypeOK
<1>9. CASE Stamp(j)
  <2> DEFINE x == [seq |-> jobs[j].seq, st |-> "stamped", text |-> jobs[j].text, next |-> seq]
  <2>1. Replaced(j, x) /\ x \in Job BY <1>0, <1>9, NextFacts DEF Stamp
  <2>2. x.next \in Key BY <1>0, <1>9 DEF Stamp
  <2>3. jobs' \in Seq(Job) /\ HasNext' BY <1>1, <2>1, <2>2
  <2> QED BY <1>4, <1>9, <2>3 DEF Stamp, TypeOK
<1>10. CASE StampFails(j)
  <2>1. jobs' \in Seq(Job) /\ HasNext' BY <1>2, <1>10 DEF StampFails
  <2>2. faults' \in 0 .. MaxFaults BY <1>10, ChatAssumption DEF StampFails, TypeOK
  <2> QED BY <1>4, <1>10, <2>1, <2>2 DEF StampFails, TypeOK
<1>11. ASSUME NEW e \in Entry, PostEntry(e), jobs' \in Seq(Job) /\ HasNext',
              UNCHANGED <<redisVars, key, answer, clientKey, sweep, historyVars>>
       PROVE  TypeInv'
  <2>1. /\ pc' \in [Requests -> Phases] /\ inbox' \in [Requests -> Entry \cup {NoEntry}]
        /\ \A r \in Requests : pc[r] = "reading" => pc'[r] = "read" /\ inbox'[r] = e
        /\ \A r \in Requests : pc[r] # "reading" => pc'[r] = pc[r] /\ inbox'[r] = inbox[r]
    BY <1>11, PostEntryFacts
  <2>2. TypeOK' BY <1>11, <2>1 DEF TypeOK, Phases
  <2>3. HasKey' BY <1>11, <2>1 DEF HasKey
  <2>4. HasEntry' BY <1>11, <2>1 DEF HasEntry
  <2> QED BY <1>11, <2>2, <2>3, <2>4
<1>12. CASE Post(j)
  <2>1. jobs' \in Seq(Job) /\ HasNext' BY <1>2, <1>12 DEF Post
  <2> QED BY <1>11, <1>12, <2>1, EntryType DEF Post
<1>13. CASE Abort(j)
  <2> DEFINE s == IF seq = NoKey THEN "aborted" ELSE "aborting"
             x == [seq |-> jobs[j].seq, st |-> s, text |-> jobs[j].text, next |-> seq]
  <2>1. s \in JobStates OBVIOUS
  <2>2. Replaced(j, x) /\ x \in Job BY <1>0, <1>13, <2>1, NextFacts DEF Abort
  <2>3. x.st \in {"stamped", "aborting"} => x.next \in Key BY <1>0
  <2>4. jobs' \in Seq(Job) /\ HasNext' BY <1>1, <2>2, <2>3
  <2> QED BY <1>4, <1>13, <2>4 DEF Abort, TypeOK
<1>14. CASE PostError(j)
  <2>1. jobs' \in Seq(Job) /\ HasNext' BY <1>2, <1>14 DEF PostError
  <2> QED BY <1>11, <1>14, <2>1, EntryType DEF PostError
<1>15. CASE Redeliver(j)
  <2> DEFINE x == [Queued(jobs[j].seq) EXCEPT !.st = "served"]
  <2>2. x \in Job /\ x.st = "served" BY <1>0, RepeatedType
  <2>3. jobs' \in Seq(Job) /\ HasNext' BY <1>3, <1>15, <2>2 DEF Redeliver
  <2> QED BY <1>4, <1>5, <1>15, <2>3 DEF Redeliver, TypeOK
<1>16. CASE Overtake(j)
  <2> DEFINE x == [jobs[j] EXCEPT !.st = "aborting", !.next = seq]
  <2>1. x \in Job /\ x.next = seq
    <3>1. "aborting" \in JobStates OBVIOUS
    <3>2. x \in Job /\ x = [seq |-> jobs[j].seq, st |-> "aborting", text |-> jobs[j].text, next |-> seq]
      BY <1>0, <3>1, JobChange
    <3> QED BY <3>2
  <2>2. seq \in Key BY <1>0, <1>16 DEF Overtake
  <2>3. jobs' \in Seq(Job) /\ HasNext' BY <1>3, <1>16, <2>1, <2>2 DEF Overtake
  <2> QED BY <1>4, <1>5, <1>16, <2>3 DEF Overtake, TypeOK
<1>17. CASE PostFails(j)
  <2>1. jobs' \in Seq(Job) /\ HasNext' BY <1>2, <1>17 DEF PostFails
  <2>2. faults' \in 0 .. MaxFaults BY <1>17, ChatAssumption DEF PostFails, TypeOK
  <2> QED BY <1>4, <1>17, <2>1, <2>2 DEF PostFails, TypeOK
<1>18. CASE PostErrorFails(j)
  <2>1. jobs' \in Seq(Job) /\ HasNext' BY <1>2, <1>18 DEF PostErrorFails
  <2>2. faults' \in 0 .. MaxFaults BY <1>18, ChatAssumption DEF PostErrorFails, TypeOK
  <2> QED BY <1>4, <1>18, <2>1, <2>2 DEF PostErrorFails, TypeOK
<1>19. CASE LateDeliver(j)
  <2> DEFINE x == [seq |-> jobs[j].seq, st |-> jobs[j].st, text |-> Nobody, next |-> jobs[j].next]
  <2>1. Replaced(j, x) /\ x \in Job BY <1>0, <1>19, ConstantTypes, TextFacts DEF LateDeliver
  <2>2. x.st \in {"stamped", "aborting"} => x.next \in Key BY DEF HasNext
  <2>3. jobs' \in Seq(Job) /\ HasNext' BY <1>1, <2>1, <2>2
  <2> QED BY <1>0, <1>4, <1>19, <2>3 DEF LateDeliver, TypeOK
<1> QED
  BY <1>6, <1>7, <1>8, <1>9, <1>10, <1>12, <1>13, <1>14, <1>15, <1>16, <1>17, <1>18, <1>19
  DEF JobStep

\* What a job becomes when the connections of the JIT users are killed: no
\* service has a text in its hands any more.
LEMMA SweepUsersFacts ==
  ASSUME jobs \in Seq(Job), SweepUsers
  PROVE  /\ jobs' \in Seq(Job) /\ DOMAIN jobs' = DOMAIN jobs
         /\ \A i \in DOMAIN jobs :
              /\ jobs'[i].seq = jobs[i].seq
              /\ jobs'[i].text = Nobody
              /\ \/ jobs[i].st = "serving" /\ jobs'[i].st = "queued" /\ jobs'[i].next = NoKey
                 \/ /\ jobs[i].st # "serving" /\ jobs'[i].st = jobs[i].st
                    /\ jobs'[i].next = jobs[i].next
<1> DEFINE f(i) == IF jobs[i].st = "serving" THEN Queued(jobs[i].seq)
                   ELSE [jobs[i] EXCEPT !.text = Nobody]
<1>1. jobs' = [i \in 1 .. Len(jobs) |-> f(i)] BY DEF SweepUsers
<1>2. \A i \in 1 .. Len(jobs) :
        /\ f(i) \in Job /\ f(i).seq = jobs[i].seq /\ f(i).text = Nobody
        /\ jobs[i].st = "serving" => f(i).st = "queued" /\ f(i).next = NoKey
        /\ jobs[i].st # "serving" => f(i).st = jobs[i].st /\ f(i).next = jobs[i].next
  <2> SUFFICES ASSUME NEW i \in 1 .. Len(jobs)
               PROVE  /\ f(i) \in Job /\ f(i).seq = jobs[i].seq /\ f(i).text = Nobody
                      /\ jobs[i].st = "serving" => f(i).st = "queued" /\ f(i).next = NoKey
                      /\ jobs[i].st # "serving" => f(i).st = jobs[i].st /\ f(i).next = jobs[i].next
    OBVIOUS
  <2>1. CASE jobs[i].st = "serving" BY <2>1, JobType, QueuedType
  <2>2. CASE jobs[i].st # "serving"
    <3>1. jobs[i] \in Job /\ Nobody \in Texts BY JobType, ConstantTypes
    <3> QED BY <2>2, <3>1 DEF Job
  <2> QED BY <2>1, <2>2
<1> HIDE DEF f
<1>3. Len(jobs) \in Nat /\ DOMAIN jobs = 1 .. Len(jobs) OBVIOUS
<1>4. jobs' \in Seq(Job) BY <1>1, <1>2, <1>3
<1> QED BY <1>1, <1>2, <1>3, <1>4

\* The cleanup and the clock keep the types.
LEMMA SweepStepType ==
  ASSUME TypeInv, SweepStep \/ Expire
  PROVE  TypeInv'
<1> USE DEF TypeInv, redisVars, callVars, historyVars, TypeOK, HasKey, HasNext, HasEntry
<1>1. CASE SweepFind BY <1>1 DEF SweepFind
<1>2. CASE SweepUnlink BY <1>2, ConstantTypes DEF SweepUnlink, UnlinkKeys
<1>3. CASE SweepMaintain BY <1>3, ConstantTypes DEF SweepMaintain, UnlinkKeys
<1>4. CASE SweepUsers
  <2>1. /\ jobs' \in Seq(Job) /\ DOMAIN jobs' = DOMAIN jobs
        /\ \A i \in DOMAIN jobs :
             \/ jobs'[i].st = "queued"
             \/ jobs'[i].st = jobs[i].st /\ jobs'[i].next = jobs[i].next
    BY <1>4, SweepUsersFacts
  <2>2. HasNext' BY <2>1
  <2> QED BY <1>4, <2>1, <2>2 DEF SweepUsers
<1>5. CASE SweepForget BY <1>5 DEF SweepForget
<1>6. CASE Expire BY <1>6 DEF Expire
<1> QED BY <1>1, <1>2, <1>3, <1>4, <1>5, <1>6 DEF SweepStep

\* A step that changes nothing keeps the types.
LEMMA StutterType == TypeInv /\ UNCHANGED vars => TypeInv'
BY DEF TypeInv, TypeOK, HasKey, HasNext, HasEntry, vars, redisVars, callVars, historyVars

\* Every step keeps the types.
LEMMA NextTypeInv == TypeInv /\ [Next]_vars => TypeInv'
BY CallStepType, JobStepType, SweepStepType, StutterType DEF Next

\* The types, with what they say about keys and entries in their places.
THEOREM TypesHold == Spec => []TypeInv
BY InitTypeInv, NextTypeInv, PTL DEF Spec

\* Every variable keeps its type, and every turn its two digits.
THEOREM TypeCorrect == Spec => []TypeOK
<1>1. TypeInv => TypeOK BY DEF TypeInv
<1> QED BY <1>1, TypesHold, PTL

-----------------------------------------------------------------------------
(* What the steps of the pipeline do to the jobs *)

\* Job j has another state, text or next key; its turn is the same.
JobBecomes(j, s, t, k) ==
  /\ jobs' \in Seq(Job) /\ DOMAIN jobs' = DOMAIN jobs
  /\ jobs'[j].seq = jobs[j].seq /\ jobs'[j].st = s
  /\ jobs'[j].text = t /\ jobs'[j].next = k
  /\ \A i \in DOMAIN jobs : i # j => jobs'[i] = jobs[i]

\* Another delivery of turn n joins the jobs.
JobJoins(n, s, t, k) ==
  /\ jobs' \in Seq(Job) /\ DOMAIN jobs' = DOMAIN jobs \cup {Len(jobs) + 1}
  /\ Len(jobs) + 1 \notin DOMAIN jobs
  /\ jobs'[Len(jobs) + 1] = [seq |-> n, st |-> s, text |-> t, next |-> k]
  /\ \A i \in DOMAIN jobs : jobs'[i] = jobs[i]

\* A job that is replaced becomes what replaces it.
LEMMA ReplacedBecomes ==
  ASSUME jobs \in Seq(Job), NEW j \in DOMAIN jobs, NEW s, NEW t, NEW k,
         Replaced(j, [seq |-> jobs[j].seq, st |-> s, text |-> t, next |-> k]),
         [seq |-> jobs[j].seq, st |-> s, text |-> t, next |-> k] \in Job
  PROVE  JobBecomes(j, s, t, k)
<1> DEFINE x == [seq |-> jobs[j].seq, st |-> s, text |-> t, next |-> k]
<1>1. x.seq = jobs[j].seq /\ x.st = s /\ x.text = t /\ x.next = k OBVIOUS
<1> HIDE DEF x
<1>2. Replaced(j, x) /\ x \in Job BY DEF x
<1> QED BY <1>1, <1>2, ReplacedJobs DEF JobBecomes

\* What each step of the pipeline makes of its job.
LEMMA JobActions ==
  ASSUME TypeInv, NEW j \in DOMAIN jobs
  PROVE  /\ Serve(j) => JobBecomes(j, "serving", content[jobs[j].seq], jobs[j].next)
         /\ Deliver(j) => JobBecomes(j, "served", Nobody, jobs[j].next)
         /\ Grant(j) => JobBecomes(j, "granted", jobs[j].text, jobs[j].next)
         /\ Stamp(j) => JobBecomes(j, "stamped", jobs[j].text, seq)
         /\ StampFails(j) => JobBecomes(j, "served", jobs[j].text, jobs[j].next)
         /\ Post(j) => JobBecomes(j, "answered", jobs[j].text, jobs[j].next)
         /\ Abort(j) => JobBecomes(j, IF seq = NoKey THEN "aborted" ELSE "aborting",
                                   jobs[j].text, seq)
         /\ PostError(j) => JobBecomes(j, "aborted", jobs[j].text, jobs[j].next)
         /\ PostFails(j) => JobBecomes(j, "served", jobs[j].text, jobs[j].next)
         /\ PostErrorFails(j) => JobBecomes(j, "aborted", jobs[j].text, jobs[j].next)
         /\ LateDeliver(j) => JobBecomes(j, jobs[j].st, Nobody, jobs[j].next)
         /\ Redeliver(j) => JobJoins(jobs[j].seq, "served", Nobody, NoKey)
         /\ Overtake(j) => JobJoins(jobs[j].seq, "aborting", jobs[j].text, seq)
<1>0. /\ jobs \in Seq(Job) /\ jobs[j] \in Job /\ seq \in Key \cup {NoKey}
      /\ jobs[j].seq \in Numbers /\ content[jobs[j].seq] \in Texts
      /\ jobs[j].st \in JobStates /\ Nobody \in Texts
  BY JobType, ConstantTypes DEF TypeInv, TypeOK
<1>1. ASSUME NEW s \in JobStates, Advance(j, s)
      PROVE  JobBecomes(j, s, jobs[j].text, jobs[j].next)
  BY <1>0, <1>1, AdvanceFacts, ReplacedBecomes
<1> USE DEF JobStates
<1>2. ASSUME NEW s \in JobStates, NEW t \in Texts, Carry(j, s, t)
      PROVE  JobBecomes(j, s, t, jobs[j].next)
  BY <1>0, <1>2, TextFacts, ReplacedBecomes
<1>3. ASSUME Stamp(j) PROVE JobBecomes(j, "stamped", jobs[j].text, seq)
  BY <1>0, <1>3, NextFacts, ReplacedBecomes DEF Stamp
<1>4. ASSUME Abort(j)
      PROVE  JobBecomes(j, IF seq = NoKey THEN "aborted" ELSE "aborting", jobs[j].text, seq)
  <2> DEFINE s == IF seq = NoKey THEN "aborted" ELSE "aborting"
  <2>1. s \in JobStates OBVIOUS
  <2>2. jobs' = [jobs EXCEPT ![j].st = s, ![j].next = seq] BY <1>4 DEF Abort
  <2> HIDE DEF s
  <2>3. JobBecomes(j, s, jobs[j].text, seq) BY <1>0, <2>1, <2>2, NextFacts, ReplacedBecomes
  <2> QED BY <2>3 DEF s
<1>5. ASSUME Redeliver(j) PROVE JobJoins(jobs[j].seq, "served", Nobody, NoKey)
  BY <1>0, <1>5, RepeatedType, AppendedJobs DEF Redeliver, JobJoins
<1>6. ASSUME Overtake(j) PROVE JobJoins(jobs[j].seq, "aborting", jobs[j].text, seq)
  <2> DEFINE x == [jobs[j] EXCEPT !.st = "aborting", !.next = seq]
  <2>1. "aborting" \in JobStates OBVIOUS
  <2>2. x \in Job /\ x = [seq |-> jobs[j].seq, st |-> "aborting", text |-> jobs[j].text, next |-> seq]
    BY <1>0, <2>1, JobChange
  <2>3. jobs' = Append(jobs, x) BY <1>6 DEF Overtake
  <2> HIDE DEF x
  <2> QED BY <1>0, <2>2, <2>3, AppendedJobs DEF JobJoins
<1>7. /\ Serve(j) => JobBecomes(j, "serving", content[jobs[j].seq], jobs[j].next)
      /\ Deliver(j) => JobBecomes(j, "served", Nobody, jobs[j].next)
      /\ LateDeliver(j) => JobBecomes(j, jobs[j].st, Nobody, jobs[j].next)
  BY <1>0, <1>2 DEF Serve, Deliver, LateDeliver
<1>8. /\ Grant(j) => JobBecomes(j, "granted", jobs[j].text, jobs[j].next)
      /\ StampFails(j) \/ PostFails(j) => JobBecomes(j, "served", jobs[j].text, jobs[j].next)
      /\ Post(j) => JobBecomes(j, "answered", jobs[j].text, jobs[j].next)
      /\ PostError(j) \/ PostErrorFails(j)
           => JobBecomes(j, "aborted", jobs[j].text, jobs[j].next)
  BY <1>1 DEF Grant, StampFails, PostFails, Post, PostError, PostErrorFails
<1> QED BY <1>3, <1>4, <1>5, <1>6, <1>7, <1>8

\* What the pipeline does to a chat, as far as its keys go: a next key is one
\* that was read from SEQ_ or an older one; readers wake up with such a key.
LEMMA JobStepKeys ==
  ASSUME TypeInv, NEW j \in DOMAIN jobs, JobStep(j)
  PROVE  /\ UNCHANGED <<seq, key, clientKey>>
         /\ \A i \in DOMAIN jobs' :
              \/ jobs'[i].next \in {seq, NoKey}
              \/ i \in DOMAIN jobs /\ jobs'[i].next = jobs[i].next
         /\ \A r \in Requests :
              \/ pc'[r] = pc[r] /\ inbox'[r] = inbox[r]
              \/ pc[r] = "reading" /\ pc'[r] = "read" /\ jobs[j].next \in Key
                 /\ inbox'[r].next = jobs[j].next
<1> USE DEF redisVars, callVars, historyVars
<1>0. TypeOK BY DEF TypeInv
<1>1. \A s, t : /\ JobBecomes(j, s, t, jobs[j].next) \/ JobBecomes(j, s, t, seq)
                => \A i \in DOMAIN jobs' :
                      \/ jobs'[i].next \in {seq, NoKey}
                      \/ i \in DOMAIN jobs /\ jobs'[i].next = jobs[i].next
  BY DEF JobBecomes
<1>2. \A n, s, t : /\ JobJoins(n, s, t, NoKey) \/ JobJoins(n, s, t, seq)
                   => \A i \in DOMAIN jobs' :
                         \/ jobs'[i].next \in {seq, NoKey}
                         \/ i \in DOMAIN jobs /\ jobs'[i].next = jobs[i].next
  BY DEF JobJoins
<1>3. CASE Serve(j) BY <1>1, <1>3, JobActions DEF Serve
<1>4. CASE Deliver(j) BY <1>1, <1>4, JobActions DEF Deliver
<1>5. CASE Grant(j) BY <1>1, <1>5, JobActions DEF Grant
<1>6. CASE Stamp(j) BY <1>1, <1>6, JobActions DEF Stamp
<1>7. CASE StampFails(j) BY <1>1, <1>7, JobActions DEF StampFails
<1>8. CASE Abort(j) BY <1>1, <1>8, JobActions DEF Abort
<1>9. CASE Redeliver(j) BY <1>2, <1>9, JobActions DEF Redeliver
<1>10. CASE Overtake(j) BY <1>2, <1>10, JobActions DEF Overtake
<1>11. ASSUME NEW e \in Entry, PostEntry(e), e.next = jobs[j].next, jobs[j].next \in Key
       PROVE  \A r \in Requests :
                \/ pc'[r] = pc[r] /\ inbox'[r] = inbox[r]
                \/ pc[r] = "reading" /\ pc'[r] = "read" /\ jobs[j].next \in Key
                   /\ inbox'[r].next = jobs[j].next
  BY <1>0, <1>11, PostEntryFacts
<1>12. CASE Post(j)
  <2> DEFINE e == [ok |-> TRUE, seq |-> jobs[j].seq, next |-> jobs[j].next, pwd |-> j]
  <2>1. e \in Entry /\ e.next = jobs[j].next /\ PostEntry(e) BY <1>12, EntryType DEF Post
  <2>2. jobs[j].next \in Key BY <1>12 DEF Post, TypeInv, HasNext
  <2> HIDE DEF e
  <2> QED BY <1>1, <1>11, <1>12, <2>1, <2>2, JobActions DEF Post
<1>13. CASE PostError(j)
  <2> DEFINE e == [ok |-> FALSE, seq |-> jobs[j].seq, next |-> jobs[j].next, pwd |-> 0]
  <2>1. e \in Entry /\ e.next = jobs[j].next /\ PostEntry(e) BY <1>13, EntryType DEF PostError
  <2>2. jobs[j].next \in Key BY <1>13 DEF PostError, TypeInv, HasNext
  <2> HIDE DEF e
  <2> QED BY <1>1, <1>11, <1>13, <2>1, <2>2, JobActions DEF PostError
<1>14. CASE PostFails(j) BY <1>1, <1>14, JobActions DEF PostFails
<1>15. CASE PostErrorFails(j) BY <1>1, <1>15, JobActions DEF PostErrorFails
<1>16. CASE LateDeliver(j) BY <1>1, <1>16, JobActions DEF LateDeliver
<1> QED
  BY <1>3, <1>4, <1>5, <1>6, <1>7, <1>8, <1>9, <1>10, <1>12, <1>13, <1>14, <1>15, <1>16
  DEF JobStep

-----------------------------------------------------------------------------
(* The keys of a chat whose client sends one request at a time *)

\* At most one call is under way.
OneInFlight == \A q, r \in InFlight : q = r

\* The call that is under way has the key that the client holds.
HeldKey == \A r \in InFlight : key[r] = clientKey

\* No key that is stored or under way anywhere was made by call r.
NotIssued(r) ==
  /\ seq # NoKey => seq.by # r
  /\ clientKey.by # r
  /\ \A q \in Requests : key[q] # NoKey => key[q].by # r
  /\ \A j \in DOMAIN jobs : jobs[j].next # NoKey => jobs[j].next.by # r
  /\ \A q \in Requests : pc[q] = "read" => inbox[q].next.by # r

\* The steps of a call before the script that makes its key.
BeforePublish == {"new", "meta", "seq", "content", "publish"}

\* The key that a call will make is a new one.
Fresh == \A r \in Requests : pc[r] \in BeforePublish => NotIssued(r)

\* Between the check of the key and its exchange nobody moves SEQ_ on.
Unmoved == \A r \in Requests : pc[r] \in {"content", "publish"} => seq \in {key[r], NoKey}

\* The inductive invariant about keys.
KeyInv == OneInFlight /\ HeldKey /\ Fresh /\ Unmoved

\* When InitReq returns, no key but the first one is around.
LEMMA InitKeyInv == Init => KeyInv
<1> SUFFICES ASSUME Init PROVE KeyInv OBVIOUS
<1>1. InFlight = {} BY DEF Init, InFlight, InHandler, Waiting
<1>2. DOMAIN jobs = {} BY DEF Init
<1>3. Fresh
  <2> SUFFICES ASSUME NEW r \in Requests PROVE NotIssued(r) BY DEF Fresh
  <2> QED BY <1>2, ConstantTypes DEF Init, NotIssued
<1> QED BY <1>1, <1>3 DEF Init, KeyInv, OneInFlight, HeldKey, Unmoved

\* A step of a call that neither makes, moves nor takes over a key.
LEMMA QuietCall ==
  ASSUME TypeInv, KeyInv, NEW r \in Requests, NEW p \in Phases \ {"new", "read"}, Goto(r, p),
         UNCHANGED <<seq, key, clientKey, jobs, inbox>>,
         p \in InHandler \cup Waiting => r \in InFlight,
         p \in BeforePublish => pc[r] \in BeforePublish,
         p \in {"content", "publish"} => pc[r] \in {"content", "publish"} \/ seq = key[r]
  PROVE  KeyInv'
<1>0. pc \in [Requests -> Phases] BY DEF TypeInv, TypeOK, Phases
<1>1. pc'[r] = p /\ \A q \in Requests : q # r => pc'[q] = pc[q]
  BY <1>0, GotoFacts
<1>2. InFlight' \subseteq InFlight BY <1>1 DEF InFlight
<1>3. OneInFlight' /\ HeldKey' BY <1>2 DEF KeyInv, OneInFlight, HeldKey, InFlight
<1>4. Fresh'
  <2> SUFFICES ASSUME NEW q \in Requests, pc'[q] \in BeforePublish PROVE NotIssued(q)'
    BY DEF Fresh
  <2>1. NotIssued(q) BY <1>1 DEF KeyInv, Fresh
  <2> QED BY <1>1, <2>1 DEF NotIssued
<1>5. Unmoved' BY <1>1 DEF KeyInv, Unmoved
<1> QED BY <1>3, <1>4, <1>5 DEF KeyInv

\* A call exchanges the key in SEQ_, or fails to: SEQ_ then has the key it had,
\* or the one made for the next turn.
LEMMA PublishKeys ==
  ASSUME TypeInv, KeyInv, NEW r \in Requests, Publish(r) \/ PublishFails(r)
  PROVE  /\ seq' \in {seq, NextKey(r)}
         /\ seq \in {key[r], NoKey}
         /\ UNCHANGED <<key, clientKey, inbox>>
         /\ \A i \in DOMAIN jobs' :
              \/ jobs'[i].next = NoKey
              \/ i \in DOMAIN jobs /\ jobs'[i] = jobs[i]
         /\ pc[r] = "publish" /\ pc'[r] = "touch"
         /\ \A q \in Requests : q # r => pc'[q] = pc[q]
<1>1. pc[r] = "publish" /\ Goto(r, "touch") BY DEF Publish, PublishFails
<1>2. pc'[r] = "touch" /\ \A q \in Requests : q # r => pc'[q] = pc[q]
  BY <1>1, GotoFacts DEF TypeInv, TypeOK, Phases, InHandler
<1>3. \A i \in DOMAIN jobs' :
        \/ jobs'[i].next = NoKey
        \/ i \in DOMAIN jobs /\ jobs'[i] = jobs[i]
  <2>1. key[r] \in Key BY <1>1 DEF TypeInv, HasKey
  <2>2. Queued(TurnOf(key[r])) \in Job /\ Queued(TurnOf(key[r])).next = NoKey
    BY <2>1, TurnNumber, QueuedType
  <2>3. CASE Publish(r) BY <2>2, <2>3, AppendedJobs DEF Publish, TypeInv, TypeOK
  <2>4. CASE PublishFails(r) BY <2>4 DEF PublishFails
  <2> QED BY <2>3, <2>4
<1>4. seq' \in {seq, NextKey(r)} /\ UNCHANGED <<key, clientKey, inbox>>
  BY DEF Publish, PublishFails
<1>5. seq \in {key[r], NoKey} BY <1>1 DEF KeyInv, Unmoved
<1> QED BY <1>1, <1>2, <1>3, <1>4, <1>5

\* The client, the handler and the reader keep the keys apart.
LEMMA CallStepKeyInv ==
  ASSUME Locked, TypeInv, KeyInv, NEW r \in Requests, CallStep(r)
  PROVE  KeyInv'
<1> USE DEF redisVars, historyVars
<1>0. /\ pc \in [Requests -> Phases] /\ key \in [Requests -> Key \cup {NoKey}]
      /\ clientKey \in Key
  BY DEF TypeInv, TypeOK, Phases
<1>1. CASE Send(r)
  <2>1. pc[r] = "new" /\ InFlight = {} BY <1>1 DEF Send
  <2>2. pc'[r] = "meta" /\ \A q \in Requests : q # r => pc'[q] = pc[q]
    BY <1>0, <1>1, GotoFacts DEF Send, Phases, InHandler
  <2>3. key'[r] = clientKey /\ \A q \in Requests : q # r => key'[q] = key[q]
    BY <1>0, <1>1 DEF Send
  <2>4. UNCHANGED <<seq, clientKey, jobs, inbox>> BY <1>1 DEF Send
  <2>5. InFlight' = {r} BY <2>1, <2>2 DEF InFlight, InHandler
  <2>6. OneInFlight' /\ HeldKey' BY <2>3, <2>4, <2>5 DEF OneInFlight, HeldKey
  <2>7. Fresh'
    <3> SUFFICES ASSUME NEW q \in Requests, pc'[q] \in BeforePublish PROVE NotIssued(q)'
      BY DEF Fresh
    <3>1. NotIssued(q) BY <2>1, <2>2 DEF KeyInv, Fresh, BeforePublish
    <3> QED BY <2>2, <2>3, <2>4, <3>1 DEF NotIssued
  <2>8. Unmoved' BY <2>1, <2>2 DEF Unmoved, InFlight, InHandler
  <2> QED BY <2>6, <2>7, <2>8 DEF KeyInv
<1>2. CASE Publish(r) \/ PublishFails(r)
  <2>1. /\ seq' \in {seq, NextKey(r)}
        /\ UNCHANGED <<key, clientKey, inbox>>
        /\ \A i \in DOMAIN jobs' :
              \/ jobs'[i].next = NoKey
              \/ i \in DOMAIN jobs /\ jobs'[i] = jobs[i]
        /\ pc[r] = "publish" /\ pc'[r] = "touch"
        /\ \A q \in Requests : q # r => pc'[q] = pc[q]
    BY <1>2, PublishKeys
  <2>2. InFlight' = InFlight /\ r \in InFlight BY <2>1 DEF InFlight, InHandler
  <2>3. OneInFlight' /\ HeldKey' BY <2>1, <2>2 DEF KeyInv, OneInFlight, HeldKey
  <2>4. Fresh'
    <3> SUFFICES ASSUME NEW q \in Requests, pc'[q] \in BeforePublish PROVE NotIssued(q)'
      BY DEF Fresh
    <3>1. q # r /\ NotIssued(q) BY <2>1 DEF KeyInv, Fresh, BeforePublish
    <3>2. NextKey(r).by = r BY <2>1, NextKeyType DEF TypeInv, HasKey
    <3> QED BY <2>1, <3>1, <3>2 DEF NotIssued
  <2>5. Unmoved' BY <2>1, <2>2 DEF KeyInv, OneInFlight, Unmoved, InFlight, InHandler
  <2> QED BY <2>3, <2>4, <2>5 DEF KeyInv
<1>3. CASE Receive(r)
  <2>1. pc[r] = "read" /\ clientKey' = inbox[r].next /\ UNCHANGED <<seq, key, jobs, inbox>>
    BY <1>3 DEF Receive
  <2>2. pc'[r] = "replied" /\ \A q \in Requests : q # r => pc'[q] = pc[q]
    BY <1>0, <1>3, GotoFacts DEF Receive, Phases, Ended
  <2>3. InFlight' = {}
    BY <2>1, <2>2 DEF KeyInv, OneInFlight, InFlight, InHandler, Waiting
  <2>4. Fresh'
    <3> SUFFICES ASSUME NEW q \in Requests, pc'[q] \in BeforePublish PROVE NotIssued(q)'
      BY DEF Fresh
    <3>1. q # r /\ NotIssued(q) BY <2>2 DEF KeyInv, Fresh, BeforePublish
    <3> QED BY <2>1, <2>2, <3>1 DEF NotIssued
  <2>5. Unmoved' BY <2>3 DEF Unmoved, InFlight, InHandler
  <2> QED BY <2>3, <2>4, <2>5 DEF KeyInv, OneInFlight, HeldKey
<1> USE QuietCall DEF InFlight, BeforePublish, Phases, InHandler, Waiting, Ended
<1>4. CASE CheckMeta(r) BY <1>4 DEF CheckMeta
<1>5. CASE CheckKey(r) BY <1>5 DEF CheckKey
<1>6. CASE SetContent(r) BY <1>6 DEF SetContent
<1>7. CASE Touch(r) BY <1>7 DEF Touch
<1>8. CASE HandlerDies(r) BY <1>8 DEF HandlerDies
<1>9. CASE Subscribe(r) BY <1>9 DEF Subscribe
<1>10. CASE GiveUp(r) BY <1>10 DEF GiveUp
<1>11. CASE ReceiveError(r) BY <1>11 DEF ReceiveError
<1> QED
  BY <1>1, <1>2, <1>3, <1>4, <1>5, <1>6, <1>7, <1>8, <1>9, <1>10, <1>11 DEF CallStep

\* The pipeline hands keys on and makes none.
LEMMA JobStepKeyInv ==
  ASSUME TypeInv, KeyInv, NEW j \in DOMAIN jobs, JobStep(j)
  PROVE  KeyInv'
<1>1. /\ UNCHANGED <<seq, key, clientKey>>
      /\ \A i \in DOMAIN jobs' :
           \/ jobs'[i].next \in {seq, NoKey}
           \/ i \in DOMAIN jobs /\ jobs'[i].next = jobs[i].next
      /\ \A r \in Requests :
           \/ pc'[r] = pc[r] /\ inbox'[r] = inbox[r]
           \/ pc[r] = "reading" /\ pc'[r] = "read" /\ jobs[j].next \in Key
              /\ inbox'[r].next = jobs[j].next
  BY JobStepKeys
<1>2. InFlight' = InFlight BY <1>1 DEF InFlight, Waiting
<1>3. OneInFlight' /\ HeldKey' BY <1>1, <1>2 DEF KeyInv, OneInFlight, HeldKey, InFlight
<1>4. Fresh'
  <2> SUFFICES ASSUME NEW q \in Requests, pc'[q] \in BeforePublish PROVE NotIssued(q)'
    BY DEF Fresh
  <2>1. NotIssued(q) BY <1>1 DEF KeyInv, Fresh, BeforePublish
  <2>2. jobs[j].next \in Key => jobs[j].next.by # q BY <2>1, ChatAssumption DEF NotIssued
  <2>3. \A r \in Requests : pc'[r] = "read" => inbox'[r].next.by # q
    BY <1>1, <2>1, <2>2 DEF NotIssued
  <2>4. \A i \in DOMAIN jobs' : jobs'[i].next # NoKey => jobs'[i].next.by # q
    BY <1>1, <2>1 DEF NotIssued
  <2> QED BY <1>1, <2>1, <2>3, <2>4 DEF NotIssued
<1>5. Unmoved' BY <1>1 DEF KeyInv, Unmoved
<1> QED BY <1>3, <1>4, <1>5 DEF KeyInv

\* The cleanup removes a key and makes none.
LEMMA SweepStepKeyInv ==
  ASSUME TypeInv, KeyInv, SweepStep \/ Expire
  PROVE  KeyInv'
<1>1. /\ UNCHANGED callVars
      /\ seq' \in {seq, NoKey}
      /\ DOMAIN jobs' = DOMAIN jobs
      /\ \A i \in DOMAIN jobs : jobs'[i].next \in {jobs[i].next, NoKey}
  <2>1. CASE SweepUsers
    <3>1. /\ DOMAIN jobs' = DOMAIN jobs
          /\ \A i \in DOMAIN jobs : jobs'[i].next \in {jobs[i].next, NoKey}
      BY <2>1, SweepUsersFacts DEF TypeInv, TypeOK
    <3> QED BY <2>1, <3>1 DEF SweepUsers
  <2>2. CASE ~SweepUsers
    BY <2>2 DEF SweepStep, SweepFind, SweepUnlink, SweepMaintain, SweepForget, Expire,
                UnlinkKeys, redisVars
  <2> QED BY <2>1, <2>2
<1>2. OneInFlight' /\ HeldKey' /\ Unmoved'
  BY <1>1 DEF callVars, KeyInv, OneInFlight, HeldKey, Unmoved, InFlight
<1>3. Fresh' BY <1>1 DEF callVars, KeyInv, Fresh, NotIssued
<1> QED BY <1>2, <1>3 DEF KeyInv

\* A step that changes nothing keeps the keys.
LEMMA StutterKeyInv == KeyInv /\ UNCHANGED vars => KeyInv'
BY DEF KeyInv, OneInFlight, HeldKey, Fresh, NotIssued, Unmoved, InFlight,
       vars, redisVars, callVars, historyVars

\* Every step keeps the keys apart.
LEMMA NextKeyInv ==
  ASSUME Locked
  PROVE  TypeInv /\ KeyInv /\ [Next]_vars => KeyInv'
BY CallStepKeyInv, JobStepKeyInv, SweepStepKeyInv, StutterKeyInv DEF Next

\* With a client that locks, no two calls are under way, the key a call was sent
\* with stays the client's, and a new key is different from all others.
THEOREM KeysHold ==
  ASSUME Locked
  PROVE  Spec => []KeyInv
<1>1. Init => KeyInv BY InitKeyInv
<1>2. TypeInv /\ KeyInv /\ [Next]_vars => KeyInv' BY NextKeyInv
<1> QED BY <1>1, <1>2, TypesHold, PTL DEF Spec

\* SEQ_ changes by the exchange of a key only.
LEMMA SeqChanges ==
  ASSUME TypeInv, KeyInv, [Next]_vars, seq' # seq, seq' # NoKey
  PROVE  \E r \in Requests : /\ Publish(r) \/ PublishFails(r)
                             /\ seq \in {key[r], NoKey} /\ seq' = NextKey(r)
<1> USE DEF redisVars, callVars, historyVars
<1>1. ASSUME NEW r \in Requests, CallStep(r)
      PROVE  Publish(r) \/ PublishFails(r)
  BY <1>1 DEF CallStep, Send, CheckMeta, CheckKey, SetContent, Touch, HandlerDies,
              Subscribe, GiveUp, Receive, ReceiveError
<1>2. ASSUME NEW j \in DOMAIN jobs, JobStep(j) PROVE FALSE
  BY <1>2, JobStepKeys
<1>3. CASE SweepStep \/ Expire
  BY <1>3 DEF SweepStep, SweepFind, SweepUnlink, SweepMaintain, SweepUsers, SweepForget,
              UnlinkKeys, Expire
<1>4. CASE UNCHANGED vars BY <1>4 DEF vars
<1> QED BY <1>1, <1>2, <1>3, <1>4, PublishKeys DEF Next

\* The number of SEQ_ goes up one by one until the last number is reached.
THEOREM TurnsGoUp ==
  ASSUME Locked
  PROVE  Spec => TurnsInOrder
<1>1. ASSUME TypeInv, KeyInv, [Next]_vars, seq # NoKey, seq' # NoKey, seq' # seq
      PROVE  seq'.num = seq.num + 1 \/ seq.num = Limit
  <2>1. PICK r \in Requests : seq = key[r] /\ seq' = NextKey(r)
    BY <1>1, SeqChanges
  <2>2. key[r] \in Key BY <1>1, <2>1 DEF TypeInv, TypeOK
  <2> QED BY <2>1, <2>2, NextKeyType
<1>2. TypeInv /\ KeyInv /\ [Next]_vars =>
        [seq # NoKey /\ seq' # NoKey /\ seq' # seq
           => seq'.num = seq.num + 1 \/ seq.num = Limit]_vars
  BY <1>1
<1>3. Spec => []KeyInv BY KeysHold
<1> QED BY <1>2, <1>3, TypesHold, PTL DEF Spec, TurnsInOrder

-----------------------------------------------------------------------------
(* A key opens one turn *)

\* SEQ_ has moved on from the key of every turn that was published, ...
Spent == \A r \in opened : pc[r] \notin BeforePublish /\ seq # key[r]

\* ... and a call that has passed the check of its key has none of them.
Unspent ==
  \A r \in Requests : pc[r] \in {"content", "publish"} => \A q \in opened : key[q] # key[r]

OnceInv == Spent /\ Unspent /\ AcceptedOnce

\* A chat begins without a turn.
LEMMA InitOnceInv == Init => OnceInv
BY DEF Init, OnceInv, Spent, Unspent, AcceptedOnce

\* A step of a call that publishes nothing.
LEMMA QuietOnce ==
  ASSUME TypeInv, OnceInv, NEW r \in Requests, NEW p \in Phases, Goto(r, p),
         UNCHANGED <<seq, key, opened>>,
         p \in BeforePublish => pc[r] \in BeforePublish,
         p \in {"content", "publish"} => pc[r] \in {"content", "publish"} \/ seq = key[r]
  PROVE  OnceInv'
<1>0. pc \in [Requests -> Phases] /\ opened \subseteq Requests
  BY DEF TypeInv, TypeOK, Phases
<1>1. pc'[r] = p /\ \A q \in Requests : q # r => pc'[q] = pc[q]
  BY <1>0, GotoFacts
<1>2. Spent' BY <1>0, <1>1 DEF OnceInv, Spent
<1>3. Unspent' BY <1>1 DEF OnceInv, Spent, Unspent
<1> QED BY <1>2, <1>3 DEF OnceInv, AcceptedOnce

\* The script spends a key that was not spent before, and puts one into SEQ_ that
\* no call was sent with.
LEMMA CallStepOnceInv ==
  ASSUME TypeInv, KeyInv, OnceInv, NEW r \in Requests, CallStep(r)
  PROVE  OnceInv'
<1> USE DEF redisVars, historyVars
<1>0. /\ pc \in [Requests -> Phases] /\ key \in [Requests -> Key \cup {NoKey}]
      /\ opened \subseteq Requests
      /\ \A q \in Requests : pc[q] # "new" => key[q] \in Key
  BY DEF TypeInv, TypeOK, HasKey, Phases
<1>1. CASE Publish(r) \/ PublishFails(r)
  <2>1. /\ seq' \in {seq, NextKey(r)}
        /\ key' = key
        /\ pc[r] = "publish" /\ pc'[r] = "touch"
        /\ \A q \in Requests : q # r => pc'[q] = pc[q]
    BY <1>1, PublishKeys
  <2>2. NextKey(r).by = r /\ key[r] \in Key BY <1>0, <2>1, NextKeyType
  <2>3. \A q \in Requests : key[q] # NoKey => key[q].by # r
    BY <2>1 DEF KeyInv, Fresh, NotIssued, BeforePublish
  <2>4. \A q \in opened : key[q] # NoKey BY <1>0, ChatAssumption DEF OnceInv, Spent, BeforePublish
  <2>5. \A q \in opened \cup {r} : NextKey(r) # key[q]
    BY <1>0, <2>2, <2>3, <2>4, ChatAssumption
  <2>6. opened' = opened \/ (opened' = opened \cup {r} /\ seq' = NextKey(r))
    BY <1>1 DEF Publish, PublishFails
  <2>7. \A q \in opened : key[q] # key[r] BY <2>1 DEF OnceInv, Unspent
  <2>8. Spent' BY <1>0, <2>1, <2>5, <2>6 DEF OnceInv, Spent, BeforePublish
  <2>9. Unspent'
    <3>1. \A q \in Requests : q # r => pc[q] \notin {"content", "publish"}
      BY <2>1 DEF KeyInv, OneInFlight, InFlight, InHandler
    <3> QED BY <2>1, <3>1 DEF Unspent
  <2>10. AcceptedOnce' BY <2>1, <2>6, <2>7 DEF OnceInv, AcceptedOnce
  <2> QED BY <2>8, <2>9, <2>10 DEF OnceInv
<1>2. CASE Send(r)
  <2>1. pc[r] = "new" /\ Goto(r, "meta") /\ UNCHANGED <<seq, opened>> BY <1>2 DEF Send
  <2>2. pc'[r] = "meta" /\ \A q \in Requests : q # r => pc'[q] = pc[q]
    BY <1>0, <2>1, GotoFacts DEF Phases, InHandler
  <2>3. r \notin opened BY <2>1 DEF OnceInv, Spent, BeforePublish
  <2>4. \A q \in Requests : q # r => key'[q] = key[q] BY <1>0, <1>2 DEF Send
  <2> QED
    BY <1>0, <2>1, <2>2, <2>3, <2>4 DEF OnceInv, Spent, Unspent, AcceptedOnce
<1> USE QuietOnce DEF BeforePublish, Phases, InHandler, Waiting, Ended
<1>3. CASE CheckMeta(r) BY <1>3 DEF CheckMeta
<1>4. CASE CheckKey(r) BY <1>4 DEF CheckKey
<1>5. CASE SetContent(r) BY <1>5 DEF SetContent
<1>6. CASE Touch(r) BY <1>6 DEF Touch
<1>7. CASE HandlerDies(r) BY <1>7 DEF HandlerDies
<1>8. CASE Subscribe(r) BY <1>8 DEF Subscribe
<1>9. CASE GiveUp(r) BY <1>9 DEF GiveUp
<1>10. CASE Receive(r) BY <1>10 DEF Receive
<1>11. CASE ReceiveError(r) BY <1>11 DEF ReceiveError
<1> QED
  BY <1>1, <1>2, <1>3, <1>4, <1>5, <1>6, <1>7, <1>8, <1>9, <1>10, <1>11 DEF CallStep

\* The pipeline neither publishes nor moves SEQ_, however often it repeats itself.
LEMMA JobStepOnceInv ==
  ASSUME TypeInv, OnceInv, NEW j \in DOMAIN jobs, JobStep(j)
  PROVE  OnceInv'
<1>1. /\ UNCHANGED <<seq, key>>
      /\ \A r \in Requests : pc'[r] = pc[r] \/ pc'[r] = "read"
  BY JobStepKeys
<1>2. opened' = opened
  BY DEF JobStep, Serve, Deliver, Grant, Stamp, StampFails, Post, PostFails, Abort, PostError,
         PostErrorFails, LateDeliver, Redeliver, Overtake, historyVars
<1>3. opened \subseteq Requests BY DEF TypeInv, TypeOK
<1> QED BY <1>1, <1>2, <1>3 DEF OnceInv, Spent, Unspent, AcceptedOnce, BeforePublish

\* The sweep removes SEQ_ or leaves it.
LEMMA SweepStepOnceInv ==
  ASSUME TypeInv, OnceInv, SweepStep \/ Expire
  PROVE  OnceInv'
<1>1. UNCHANGED <<pc, key, opened>> /\ seq' \in {seq, NoKey}
  BY DEF SweepStep, SweepFind, SweepUnlink, SweepMaintain, SweepUsers, SweepForget, Expire,
         UnlinkKeys, redisVars, callVars, historyVars
<1>2. \A r \in opened : key[r] # NoKey
  BY ChatAssumption DEF TypeInv, TypeOK, HasKey, OnceInv, Spent, BeforePublish
<1> QED BY <1>1, <1>2 DEF OnceInv, Spent, Unspent, AcceptedOnce

\* A step that changes nothing spends nothing.
LEMMA StutterOnceInv == OnceInv /\ UNCHANGED vars => OnceInv'
BY DEF OnceInv, Spent, Unspent, AcceptedOnce, vars, redisVars, callVars, historyVars

\* Every step keeps keys from being spent twice.
LEMMA NextOnceInv == TypeInv /\ KeyInv /\ OnceInv /\ [Next]_vars => OnceInv'
BY CallStepOnceInv, JobStepOnceInv, SweepStepOnceInv, StutterOnceInv DEF Next

\* "Prevents replay" (gateway README): one key opens one turn, whatever became of
\* the call that opened it, if the client sends one request at a time.
THEOREM KeysOpenOnce ==
  ASSUME Locked
  PROVE  Spec => []AcceptedOnce
<1>1. Init => OnceInv BY InitOnceInv
<1>2. TypeInv /\ KeyInv /\ OnceInv /\ [Next]_vars => OnceInv' BY NextOnceInv
<1>3. OnceInv => AcceptedOnce BY DEF OnceInv
<1>4. Spec => []KeyInv BY KeysHold
<1> QED BY <1>1, <1>2, <1>3, <1>4, TypesHold, PTL DEF Spec

=============================================================================
