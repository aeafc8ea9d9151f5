-------------------------- MODULE TurnStagesProofs --------------------------
(* What TurnStages computes and keeps, proved for every instance: the types,  *)
(* the keys that a call may read, the texts under them, and the LLM session   *)
(* of a chat whose calls came one by one.                                     *)
EXTENDS TurnStages, SequenceTheorems, TLAPS

USE DEF CipherReq, SendToGemini, DecipherResp, Done, Stages, Workers

-----------------------------------------------------------------------------
(* The lists of keys. *)

Keys == [turn : Turns, worker : Workers]

\* A function on 1 .. n is a sequence of length n.
LEMMA ListIsSeq ==
  ASSUME NEW S, NEW n \in Nat, NEW f \in [1 .. n -> S]
  PROVE  f \in Seq(S) /\ Len(f) = n
<1>1. f \in Seq(S)
  BY SeqDef
<1>2. DOMAIN f = 1 .. Len(f) /\ Len(f) \in Nat
  BY <1>1, LenProperties
<1>3. QED
  BY <1>1, <1>2

\* GenerateKeysList goes back from turn t, and not past the first turn.
LEMMA GeneratedKeys ==
  ASSUME NEW w \in Workers, NEW n \in Nat \ {0}, NEW t \in Turns
  PROVE  /\ GenerateKeysList(w, n, t) \in Seq(Keys)
         /\ Len(GenerateKeysList(w, n, t)) = IF n < t + 1 THEN n ELSE t + 1
         /\ \A i \in 1 .. Len(GenerateKeysList(w, n, t)) :
              GenerateKeysList(w, n, t)[i] = Key(t - i + 1, w)
<1> DEFINE end == IF t - n + 1 < 0 THEN 0 ELSE t - n + 1
           k == t - end + 1
           list == [i \in 1 .. k |-> Key(t - i + 1, w)]
<1>1. LastTurn \in Nat /\ t \in 0 .. LastTurn
  BY StagesAssumption DEF Turns
<1>2. k \in Nat /\ k = IF n < t + 1 THEN n ELSE t + 1
  BY <1>1
<1>3. GenerateKeysList(w, n, t) = list
  BY <1>1 DEF GenerateKeysList
<1>4. \A i \in 1 .. k : t - i + 1 \in Turns
  BY <1>1, <1>2 DEF Turns
<1>5. list \in [1 .. k -> Keys]
  BY <1>4 DEF Keys, Key
<1> HIDE DEF k
<1>6. list \in Seq(Keys) /\ Len(list) = k
  BY <1>2, <1>5, ListIsSeq
<1>7. QED
  BY <1>2, <1>3, <1>6

\* interleave starts with the first list, and gives elements of the two lists.
LEMMA InterleavedKeys ==
  ASSUME NEW u \in Seq(Keys), NEW m \in Seq(Keys), Len(u) > 0
  PROVE  /\ Interleave(u, m) \in Seq(Keys)
         /\ Len(Interleave(u, m)) = Len(u) + Len(m)
         /\ Interleave(u, m)[1] = u[1]
         /\ \A i \in 2 .. Len(u) + Len(m) :
              \/ \E j \in 2 .. Len(u) : Interleave(u, m)[i] = u[j]
              \/ \E j \in 1 .. Len(m) : Interleave(u, m)[i] = m[j]
<1> DEFINE a == Len(u)
           b == Len(m)
           both == IF a < b THEN a ELSE b
           list == Interleave(u, m)
<1>1. a \in Nat \ {0} /\ b \in Nat
  BY LenProperties
<1>2. list = [i \in 1 .. a + b |->
                IF i > 2 * both THEN (IF a > b THEN u ELSE m)[i - both]
                ELSE IF i % 2 = 1 THEN u[(i + 1) \div 2] ELSE m[i \div 2]]
  BY DEF Interleave
<1>3. \A i \in 1 .. a + b :
        \/ i > 1 /\ \E j \in 2 .. a : list[i] = u[j]
        \/ i > 1 /\ \E j \in 1 .. b : list[i] = m[j]
        \/ i = 1 /\ list[i] = u[1]
  <2> TAKE i \in 1 .. a + b
  <2>0. both \in Nat /\ both <= a /\ both <= b /\ (both = a \/ both = b) /\ (a > b => both = b)
        /\ (~(a > b) => both = a)
    BY <1>1
  <2>i. list[i] = IF i > 2 * both THEN (IF a > b THEN u ELSE m)[i - both]
                  ELSE IF i % 2 = 1 THEN u[(i + 1) \div 2] ELSE m[i \div 2]
    BY <1>2
  <2> HIDE DEF both, list, a, b
  <2>1. CASE i > 2 * both /\ a > b
    <3>1. i = 1 \/ (i > 1 /\ i - both \in 2 .. a)
      BY <1>1, <2>0, <2>1
    <3>2. i = 1 => i - both = 1
      BY <1>1, <2>0, <2>1
    <3>3. list[i] = u[i - both]
      BY <2>i, <2>1
    <3>4. QED
      BY <3>1, <3>2, <3>3
  <2>2. CASE i > 2 * both /\ ~(a > b)
    <3>1. i > 1 /\ i - both \in 1 .. b
      BY <1>1, <2>0, <2>2
    <3>2. list[i] = m[i - both]
      BY <2>i, <2>2
    <3>3. QED
      BY <3>1, <3>2
  <2>3. CASE ~(i > 2 * both) /\ i % 2 = 1
    <3>1. list[i] = u[(i + 1) \div 2]
      BY <2>i, <2>3
    <3>2. i = 1 \/ (i > 1 /\ (i + 1) \div 2 \in 2 .. a)
      BY <1>1, <2>0, <2>3
    <3>3. i = 1 => (i + 1) \div 2 = 1
      OBVIOUS
    <3>4. QED
      BY <3>1, <3>2, <3>3
  <2>4. CASE ~(i > 2 * both) /\ i % 2 # 1
    <3>1. list[i] = m[i \div 2]
      BY <2>i, <2>4
    <3>2. i > 1 /\ i \div 2 \in 1 .. b
      BY <1>1, <2>0, <2>4
    <3>3. QED
      BY <3>1, <3>2
  <2>5. QED
    BY <2>1, <2>2, <2>3, <2>4
<1>4. \A i \in 1 .. a : u[i] \in Keys
  BY ElementOfSeq
<1>5. \A i \in 1 .. b : m[i] \in Keys
  BY ElementOfSeq
<1>6. list \in [1 .. a + b -> Keys]
  <2>1. \A i \in 1 .. a + b : list[i] \in Keys
    BY <1>1, <1>3, <1>4, <1>5
  <2>2. list = [i \in 1 .. a + b |-> list[i]]
    BY <1>2
  <2> HIDE DEF list
  <2>3. QED
    BY <2>1, <2>2
<1>7. list \in Seq(Keys) /\ Len(list) = a + b
  BY <1>1, <1>6, ListIsSeq
<1>8. /\ list[1] = u[1]
      /\ \A i \in 2 .. a + b : \/ \E j \in 2 .. a : list[i] = u[j]
                              \/ \E j \in 1 .. b : list[i] = m[j]
  <2> HIDE DEF list, a, b, both
  <2>1. 1 \in 1 .. a + b /\ \A i \in 2 .. a + b : i \in 1 .. a + b /\ i # 1
    BY <1>1
  <2>2. QED
    BY <1>3, <2>1
<1>9. QED
  BY <1>7, <1>8

\* The keys that a call of stage g for turn t may read: its own first, and then,
\* for the mediator, the ciphered texts and requests of the turns before it.
LEMMA KeysToRead ==
  ASSUME NEW g \in Stages, NEW t \in Turns
  PROVE  /\ ReadKeys(g, t) \in Seq(Keys)
         /\ Len(ReadKeys(g, t)) > 0
         /\ ReadKeys(g, t)[1] = Key(t, g)
         /\ Len(ReadKeys(g, t)) > 1 <=> g = SendToGemini /\ t > 0
         /\ \A i \in 2 .. Len(ReadKeys(g, t)) :
              /\ ReadKeys(g, t)[i].turn < t
              /\ ReadKeys(g, t)[i].worker \in {CipherReq, SendToGemini}
<1>1. LastTurn \in Nat /\ t \in 0 .. LastTurn
  BY StagesAssumption DEF Turns
<1>2. CASE g # SendToGemini
  <2> DEFINE l == GenerateKeysList(g, 1, t)
  <2>1. l \in Seq(Keys) /\ Len(l) = 1 /\ \A i \in 1 .. Len(l) : l[i] = Key(t - i + 1, g)
    <3>1. g \in Workers /\ 1 \in Nat \ {0} /\ (IF 1 < t + 1 THEN 1 ELSE t + 1) = 1
      BY <1>1
    <3>2. QED
      BY <3>1, GeneratedKeys
  <2>2. ReadKeys(g, t) = l
    BY <1>2 DEF ReadKeys
  <2> HIDE DEF l
  <2>3. l[1] = Key(t, g)
    <3>1. t - 1 + 1 = t /\ 1 \in 1 .. Len(l)
      BY <1>1, <2>1
    <3>2. QED
      BY <2>1, <3>1
  <2>4. Len(l) > 0 /\ ~(Len(l) > 1) /\ \A i \in 2 .. Len(l) : FALSE
    BY <2>1
  <2>5. QED
    BY <1>2, <2>1, <2>2, <2>3, <2>4
<1> DEFINE u == GenerateKeysList(SendToGemini, 1000, t)
<1>3. /\ u \in Seq(Keys) /\ Len(u) > 0 /\ (Len(u) > 1 <=> t > 0)
      /\ u[1] = Key(t, SendToGemini)
      /\ \A i \in 2 .. Len(u) : u[i].turn < t /\ u[i].worker = SendToGemini
  <2>1. /\ u \in Seq(Keys) /\ Len(u) = IF 1000 < t + 1 THEN 1000 ELSE t + 1
        /\ \A i \in 1 .. Len(u) : u[i] = Key(t - i + 1, SendToGemini)
    <3>1. PICK n \in Nat \ {0}, w \in Workers : n = 1000 /\ w = SendToGemini
      OBVIOUS
    <3>2. u = GenerateKeysList(w, n, t)
      BY <3>1
    <3> HIDE DEF u
    <3>3. /\ u \in Seq(Keys) /\ Len(u) = IF n < t + 1 THEN n ELSE t + 1
          /\ \A i \in 1 .. Len(u) : u[i] = Key(t - i + 1, w)
      BY <3>2, GeneratedKeys
    <3>4. QED
      BY <3>1, <3>3
  <2> HIDE DEF u
  <2>2. Len(u) \in Nat \ {0} /\ (Len(u) > 1 <=> t > 0)
    BY <1>1, <2>1
  <2>3. u[1] = Key(t, SendToGemini)
    <3>1. t - 1 + 1 = t
      BY <1>1
    <3>2. QED
      BY <2>1, <2>2, <3>1
  <2>4. ASSUME NEW i \in 2 .. Len(u) PROVE u[i].turn < t /\ u[i].worker = SendToGemini
    <3>1. u[i] = Key(t - i + 1, SendToGemini)
      BY <2>1, <2>2
    <3>2. QED
      BY <1>1, <2>2, <3>1 DEF Key
  <2>5. QED
    BY <2>1, <2>2, <2>3, <2>4
<1>4. CASE g = SendToGemini /\ ~(t > 0)
  <2>1. ReadKeys(g, t) = u
    BY <1>4 DEF ReadKeys, GeminiKeys
  <2> HIDE DEF u
  <2>2. QED
    BY <1>3, <1>4, <2>1
<1>5. CASE g = SendToGemini /\ t > 0
  <2> DEFINE m == GenerateKeysList(LlmRepWorkerInd, 1000, t - 1)
             l == Interleave(u, m)
  <2>1. /\ m \in Seq(Keys) /\ Len(m) > 0
        /\ \A i \in 1 .. Len(m) : m[i].turn < t /\ m[i].worker = CipherReq
    <3>1. t - 1 \in Turns /\ LlmRepWorkerInd \in Workers /\ LlmRepWorkerInd = CipherReq
      BY <1>1, <1>5 DEF Turns, LlmRepWorkerInd
    <3>2. /\ m \in Seq(Keys) /\ Len(m) = IF 1000 < t - 1 + 1 THEN 1000 ELSE t - 1 + 1
          /\ \A i \in 1 .. Len(m) : m[i] = Key(t - 1 - i + 1, LlmRepWorkerInd)
      <4>1. PICK n \in Nat \ {0}, r \in Turns : n = 1000 /\ r = t - 1
        BY <3>1
      <4>2. PICK w \in Workers : w = LlmRepWorkerInd
        BY <3>1
      <4>3. m = GenerateKeysList(w, n, r)
        BY <4>1, <4>2
      <4> HIDE DEF u, m, l
      <4>4. /\ m \in Seq(Keys) /\ Len(m) = IF n < r + 1 THEN n ELSE r + 1
            /\ \A i \in 1 .. Len(m) : m[i] = Key(r - i + 1, w)
        BY <4>3, GeneratedKeys
      <4>5. QED
        BY <4>1, <4>2, <4>4
    <3> HIDE DEF m
    <3>3. Len(m) \in Nat \ {0}
      BY <1>1, <1>5, <3>2
    <3>4. ASSUME NEW i \in 1 .. Len(m) PROVE m[i].turn < t /\ m[i].worker = CipherReq
      <4>1. m[i] = Key(t - 1 - i + 1, LlmRepWorkerInd)
        BY <3>2
      <4>2. QED
        BY <1>1, <3>1, <3>3, <4>1 DEF Key
    <3>5. QED
      BY <3>2, <3>3, <3>4
  <2>2. ReadKeys(g, t) = l
    BY <1>5 DEF ReadKeys, GeminiKeys
  <2> HIDE DEF u, m
  <2>3. /\ l \in Seq(Keys)
        /\ Len(l) = Len(u) + Len(m)
        /\ l[1] = u[1]
        /\ \A i \in 2 .. Len(u) + Len(m) : \/ \E j \in 2 .. Len(u) : l[i] = u[j]
                                           \/ \E j \in 1 .. Len(m) : l[i] = m[j]
    BY <1>3, <2>1, InterleavedKeys
  <2> HIDE DEF l
  <2>4. Len(l) > 1
    BY <1>3, <1>5, <2>1, <2>3, LenProperties
  <2>5. \A i \in 2 .. Len(l) : l[i].turn < t /\ l[i].worker \in {CipherReq, SendToGemini}
    <3> TAKE i \in 2 .. Len(l)
    <3>1. CASE \E j \in 2 .. Len(u) : l[i] = u[j]
      BY <1>3, <3>1
    <3>2. CASE \E j \in 1 .. Len(m) : l[i] = m[j]
      BY <2>1, <3>2
    <3>3. QED
      BY <2>3, <3>1, <3>2
  <2>6. QED
    BY <1>3, <1>5, <2>2, <2>3, <2>4, <2>5
<1>6. QED
  BY <1>2, <1>4, <1>5

-----------------------------------------------------------------------------
(* The calls. *)

\* A live call is a record with proper fields; what it reads is under these keys.
LEMMA LiveCall ==
  ASSUME TypeOK, NEW s \in Slots, Live(s)
  PROVE  /\ call[s] \in Call
         /\ Latest(s) = Key(call[s].turn, call[s].stage) /\ Latest(s) \in Keys
         /\ \A k \in KeysOf(ReadKeys(call[s].stage, call[s].turn)) :
              k = Latest(s) \/ k \in Earlier(s)
         /\ \A k \in Earlier(s) : /\ k \in Keys /\ k.turn < call[s].turn
                                  /\ k.worker \in {CipherReq, SendToGemini}
<1>1. call[s] \in Call
  BY DEF TypeOK, Live, NoCall
<1> DEFINE g == call[s].stage
           t == call[s].turn
           l == ReadKeys(g, t)
<1>2. g \in Stages /\ t \in Turns
  BY <1>1 DEF Call
<1>3. /\ l \in Seq(Keys) /\ Len(l) > 0 /\ l[1] = Key(t, g)
      /\ \A i \in 2 .. Len(l) : l[i].turn < t /\ l[i].worker \in {CipherReq, SendToGemini}
  BY <1>2, KeysToRead
<1>4. Latest(s) = Head(l) /\ Earlier(s) = KeysOf(Tail(l))
  BY DEF Latest, Earlier
<1> HIDE DEF l
<1>5. Len(l) \in Nat \ {0} /\ l # <<>>
  BY <1>3, LenProperties
<1>6. /\ Tail(l) \in Seq(Keys) /\ Len(Tail(l)) = Len(l) - 1
      /\ \A i \in 1 .. Len(Tail(l)) : Tail(l)[i] = l[i + 1]
      /\ Head(l) = l[1]
  BY <1>3, <1>5, HeadTailProperties
<1>7. KeysOf(Tail(l)) = {l[i] : i \in 2 .. Len(l)}
  <2>1. DOMAIN Tail(l) = 1 .. Len(l) - 1
    BY <1>6, LenProperties
  <2>2. \A i \in 2 .. Len(l) : i - 1 \in 1 .. Len(l) - 1 /\ l[i] = Tail(l)[i - 1]
    BY <1>5, <1>6
  <2>3. \A i \in 1 .. Len(l) - 1 : i + 1 \in 2 .. Len(l) /\ Tail(l)[i] = l[i + 1]
    BY <1>5, <1>6
  <2>4. KeysOf(Tail(l)) = {Tail(l)[i] : i \in 1 .. Len(l) - 1}
    BY <2>1 DEF KeysOf
  <2>5. QED
    BY <2>2, <2>3, <2>4
<1>8. KeysOf(l) = {l[1]} \cup {l[i] : i \in 2 .. Len(l)}
  <2>1. DOMAIN l = 1 .. Len(l) /\ 1 .. Len(l) = {1} \cup 2 .. Len(l)
    BY <1>3, <1>5, LenProperties
  <2>2. QED
    BY <2>1 DEF KeysOf
<1>9. \A i \in 1 .. Len(l) : l[i] \in Keys
  BY <1>3, ElementOfSeq
<1>10. \A i \in 2 .. Len(l) : i \in 1 .. Len(l)
  BY <1>5
<1>11. Latest(s) = Key(t, g) /\ Latest(s) \in Keys
  BY <1>3, <1>4, <1>5, <1>6, <1>9
<1>12. \A k \in KeysOf(l) : k = Latest(s) \/ k \in Earlier(s)
  BY <1>3, <1>4, <1>7, <1>8, <1>11
<1>13. \A k \in Earlier(s) : k \in Keys /\ k.turn < t /\ k.worker \in {CipherReq, SendToGemini}
  BY <1>3, <1>4, <1>7, <1>9, <1>10
<1>14. QED
  BY <1>1, <1>11, <1>12, <1>13 DEF l

\* A stored key holds a text.
LEMMA StoredText ==
  ASSUME TypeOK, NEW k \in Keys
  PROVE  /\ Value(k) = text[k.turn][k.worker]
         /\ Value(k) \in Text \cup {NoText}
         /\ Stored(k) => Value(k) \in Text
  BY DEF Keys, Value, Stored, TypeOK

\* A call goes on to another phase.
LEMMA GoesOn ==
  ASSUME TypeOK, NEW s \in Slots, Live(s), NEW p \in Phases, Goto(s, p)
  PROVE  /\ call' \in [Slots -> Call \cup {NoCall}]
         /\ call'[s] = [call[s] EXCEPT !.pc = p]
         /\ call'[s].by = call[s].by /\ call'[s].stage = call[s].stage
         /\ call'[s].turn = call[s].turn /\ call'[s].pc = p
         /\ call'[s].proc = call[s].proc /\ call'[s].ses = call[s].ses
         /\ call'[s].model = call[s].model /\ call'[s].dirty = call[s].dirty
         /\ call'[s].out = call[s].out
         /\ \A r \in Slots \ {s} : call'[r] = call[r]
<1>1. call[s] \in Call /\ call \in [Slots -> Call \cup {NoCall}]
  BY LiveCall DEF TypeOK
<1>2. call'[s] = [call[s] EXCEPT !.pc = p] /\ \A r \in Slots \ {s} : call'[r] = call[r]
  BY <1>1 DEF Goto
<1>3. call'[s] \in Call
  BY <1>1, <1>2 DEF Call
<1>4. call' \in [Slots -> Call \cup {NoCall}]
  BY <1>1, <1>3 DEF Goto
<1>5. QED
  BY <1>1, <1>2, <1>4 DEF Call

\* A call is over, and its slot free.
LEMMA GoesAway ==
  ASSUME TypeOK, NEW s \in Slots, call' = [call EXCEPT ![s] = NoCall]
  PROVE  /\ call' \in [Slots -> Call \cup {NoCall}]
         /\ call'[s] = NoCall
         /\ \A r \in Slots \ {s} : call'[r] = call[r]
  BY DEF TypeOK

\* Tagging moves a call to its next command, with the names of its turn in the model.
LEMMA TagCall ==
  ASSUME TypeOK, NEW s \in Slots, NEW p \in Processes, Tag(s, p)
  PROVE  /\ call' \in [Slots -> Call \cup {NoCall}]
         /\ LoadModel(p) \in SUBSET Names
         /\ call'[s].by = call[s].by /\ call'[s].stage = call[s].stage
         /\ call'[s].turn = call[s].turn /\ call'[s].pc = "tagged"
         /\ call'[s].proc = p /\ call'[s].ses = call[s].ses
         /\ call'[s].model = LoadModel(p) \cup Mentions[call[s].turn]
         /\ (~call'[s].dirty => Mentions[call[s].turn] \subseteq LoadModel(p))
         /\ call'[s].out = Ciphered(call[s].turn)
         /\ \A r \in Slots \ {s} : call'[r] = call[r]
<1> DEFINE model == LoadModel(p) \cup Mentions[call[s].turn]
           d == Mentions[call[s].turn] \cap Persons # {}
                \/ ~(Mentions[call[s].turn] \subseteq LoadModel(p))
           out == Ciphered(call[s].turn)
<1>0. Live(s) /\ call[s].pc = "start"
  BY DEF Tag, Live
<1>1. call[s] \in Call /\ call \in [Slots -> Call \cup {NoCall}]
  BY <1>0, LiveCall DEF TypeOK
<1>2. call' = [call EXCEPT ![s].pc = "tagged", ![s].conn = TRUE, ![s].proc = p,
                 ![s].model = model, ![s].out = out, ![s].dirty = d]
  BY DEF Tag
<1>3. LoadModel(p) \in SUBSET Names
  BY DEF TypeOK, LoadModel
<1>4. call[s].turn \in Turns /\ Mentions[call[s].turn] \in SUBSET Names
  BY <1>1, StagesAssumption DEF Call
<1>5. out \in Text /\ d \in BOOLEAN /\ model \in SUBSET Names
  BY <1>3, <1>4 DEF Ciphered, Text
<1> HIDE DEF model, d, out
<1>6. call'[s] = [call[s] EXCEPT !.pc = "tagged", !.conn = TRUE, !.proc = p,
                    !.model = model, !.out = out, !.dirty = d]
  BY <1>1, <1>2
<1>7. \A r \in Slots \ {s} : call'[r] = call[r]
  BY <1>1, <1>2
<1>8. call'[s] = [by |-> call[s].by, stage |-> call[s].stage, turn |-> call[s].turn,
                  pc |-> "tagged", auth |-> call[s].auth, conn |-> TRUE, proc |-> p,
                  ses |-> call[s].ses, model |-> model, dirty |-> d, out |-> out]
  BY <1>1, <1>6 DEF Call
<1>9. call'[s] \in Call
  BY <1>1, <1>5, <1>8 DEF Call, Phases
<1>10. call' \in [Slots -> Call \cup {NoCall}]
  <2>1. call' = [r \in Slots |-> call'[r]]
    BY <1>1, <1>2
  <2>2. \A r \in Slots : call'[r] \in Call \cup {NoCall}
    BY <1>1, <1>7, <1>9
  <2>3. QED
    BY <2>1, <2>2
<1>11. ~d => Mentions[call[s].turn] \subseteq LoadModel(p)
  BY DEF d
<1>12. /\ call'[s].by = call[s].by /\ call'[s].stage = call[s].stage
       /\ call'[s].turn = call[s].turn /\ call'[s].pc = "tagged"
       /\ call'[s].proc = p /\ call'[s].ses = call[s].ses
       /\ call'[s].model = model /\ call'[s].dirty = d /\ call'[s].out = out
  BY <1>8
<1>13. QED
  BY <1>3, <1>7, <1>10, <1>11, <1>12 DEF model, out

\* A lookup gives a call the cached session, or sends it to build one.
LEMMA LookUpCall ==
  ASSUME TypeOK, NEW s \in Slots, LookUp(s)
  PROVE  /\ call' \in [Slots -> Call \cup {NoCall}]
         /\ call'[s].by = call[s].by /\ call'[s].stage = call[s].stage
         /\ call'[s].turn = call[s].turn
         /\ call'[s].pc = (IF cached # 0 THEN "keep" ELSE "build")
         /\ call'[s].proc = call[s].proc /\ call'[s].ses = cached
         /\ call'[s].model = call[s].model /\ call'[s].dirty = call[s].dirty
         /\ call'[s].out = call[s].out
         /\ \A r \in Slots \ {s} : call'[r] = call[r]
<1> DEFINE p == IF cached # 0 THEN "keep" ELSE "build"
<1>1. call[s] \in Call /\ call \in [Slots -> Call \cup {NoCall}]
  BY LiveCall DEF TypeOK, LookUp, Live
<1>2. call' = [call EXCEPT ![s].ses = cached, ![s].pc = p]
  BY DEF LookUp
<1>3. p \in Phases /\ cached \in SessionIds \cup {0}
  BY DEF Phases, TypeOK
<1> HIDE DEF p
<1>4. call'[s] = [call[s] EXCEPT !.ses = cached, !.pc = p]
  BY <1>1, <1>2
<1>5. \A r \in Slots \ {s} : call'[r] = call[r]
  BY <1>1, <1>2
<1>6. call'[s] = [by |-> call[s].by, stage |-> call[s].stage, turn |-> call[s].turn,
                  pc |-> p, auth |-> call[s].auth, conn |-> call[s].conn,
                  proc |-> call[s].proc, ses |-> cached, model |-> call[s].model,
                  dirty |-> call[s].dirty, out |-> call[s].out]
  BY <1>1, <1>4 DEF Call
<1>7. call'[s] \in Call
  BY <1>1, <1>3, <1>6 DEF Call
<1>8. call' = [r \in Slots |-> call'[r]]
  BY <1>1, <1>2
<1>9. call' \in [Slots -> Call \cup {NoCall}]
  <2>1. \A r \in Slots : call'[r] \in Call \cup {NoCall}
    BY <1>1, <1>5, <1>7
  <2>2. QED
    BY <1>8, <2>1
<1>10. QED
  BY <1>5, <1>6, <1>9 DEF p

\* A call builds a session that no cache and no other call uses.
LEMMA BuildCall ==
  ASSUME TypeOK, NEW s \in Slots, Build(s)
  PROVE  \E i \in SessionIds \ ({cached} \cup {call[r].ses : r \in Slots}) :
         /\ sess' = [sess EXCEPT ![i] = [built |-> Rebuilt(call[s].turn), said |-> <<>>]]
         /\ call' \in [Slots -> Call \cup {NoCall}]
         /\ call'[s].by = call[s].by /\ call'[s].stage = call[s].stage
         /\ call'[s].turn = call[s].turn /\ call'[s].pc = "keep"
         /\ call'[s].proc = call[s].proc /\ call'[s].ses = i
         /\ call'[s].model = call[s].model /\ call'[s].dirty = call[s].dirty
         /\ call'[s].out = call[s].out
         /\ \A r \in Slots \ {s} : call'[r] = call[r]
<1> DEFINE d == call[s].conn \/ Earlier(s) # {}
<1>1. call[s] \in Call /\ call \in [Slots -> Call \cup {NoCall}]
  BY LiveCall DEF TypeOK, Build, Live
<1>2. PICK i \in SessionIds \ ({cached} \cup {call[r].ses : r \in Slots}) :
        /\ sess' = [sess EXCEPT ![i] = [built |-> Rebuilt(call[s].turn), said |-> <<>>]]
        /\ call' = [call EXCEPT ![s].pc = "keep", ![s].ses = i, ![s].conn = @ \/ Earlier(s) # {}]
  BY DEF Build
<1>3. call'[s] = [call[s] EXCEPT !.pc = "keep", !.ses = i, !.conn = @ \/ Earlier(s) # {}]
  BY <1>1, <1>2
<1>4. \A r \in Slots \ {s} : call'[r] = call[r]
  BY <1>1, <1>2
<1>5. call'[s] = [by |-> call[s].by, stage |-> call[s].stage, turn |-> call[s].turn,
                  pc |-> "keep", auth |-> call[s].auth, conn |-> d,
                  proc |-> call[s].proc, ses |-> i, model |-> call[s].model,
                  dirty |-> call[s].dirty, out |-> call[s].out]
  BY <1>1, <1>3 DEF Call
<1>6. d \in BOOLEAN /\ "keep" \in Phases
  BY DEF Phases
<1> HIDE DEF d
<1>7. call'[s] \in Call
  BY <1>1, <1>5, <1>6 DEF Call
<1>8. call' = [r \in Slots |-> call'[r]]
  BY <1>1, <1>2
<1>9. call' \in [Slots -> Call \cup {NoCall}]
  <2>1. \A r \in Slots : call'[r] \in Call \cup {NoCall}
    BY <1>1, <1>4, <1>7
  <2>2. QED
    BY <1>8, <2>1
<1>10. /\ call'[s].by = call[s].by /\ call'[s].stage = call[s].stage
       /\ call'[s].turn = call[s].turn /\ call'[s].pc = "keep"
       /\ call'[s].proc = call[s].proc /\ call'[s].ses = i
       /\ call'[s].model = call[s].model /\ call'[s].dirty = call[s].dirty
       /\ call'[s].out = call[s].out
  BY <1>5
<1>11. QED
  BY <1>2, <1>4, <1>9, <1>10

\* A post begins a call for the thread's turn and stage in a free slot.
LEMMA PostCall ==
  ASSUME TypeOK, NEW h \in Threads, Post(h)
  PROVE  /\ th[h] \in Thread
         /\ \E s \in Slots :
              /\ ~Live(s) /\ call[s] = NoCall
              /\ call' \in [Slots -> Call \cup {NoCall}]
              /\ call'[s].by = h /\ call'[s].stage = th[h].stage
              /\ call'[s].turn = th[h].turn /\ call'[s].pc = "start"
              /\ call'[s].proc = Nobody /\ call'[s].ses = 0
              /\ \A r \in Slots \ {s} : call'[r] = call[r]
<1>1. call \in [Slots -> Call \cup {NoCall}] /\ th[h] \in Thread
  BY DEF TypeOK, Post, IdleThread
<1>2. PICK s \in Slots :
        /\ ~Live(s)
        /\ call' = [call EXCEPT ![s] = [NoCall EXCEPT !.by = h, !.stage = th[h].stage,
                       !.turn = th[h].turn, !.pc = "start", !.auth = th[h].pwd]]
  BY DEF Post
<1>3. call'[s] = [by |-> h, stage |-> th[h].stage, turn |-> th[h].turn, pc |-> "start",
                  auth |-> th[h].pwd, conn |-> FALSE, proc |-> Nobody, ses |-> 0,
                  model |-> {}, dirty |-> FALSE, out |-> NoText]
  BY <1>1, <1>2 DEF NoCall
<1>4. call'[s] \in Call
  BY <1>1, <1>3 DEF Call, Thread, Phases
<1>5. call' \in [Slots -> Call \cup {NoCall}] /\ \A r \in Slots \ {s} : call'[r] = call[r]
  <2> DEFINE c == [NoCall EXCEPT !.by = h, !.stage = th[h].stage,
                     !.turn = th[h].turn, !.pc = "start", !.auth = th[h].pwd]
  <2>1. call' = [call EXCEPT ![s] = c]
    BY <1>2
  <2> HIDE DEF c
  <2>2. c \in Call
    BY <1>1, <1>4, <2>1
  <2>3. QED
    BY <1>1, <2>1, <2>2
<1>6. call[s] = NoCall
  BY <1>1, <1>2 DEF Live, Call, Phases
<1>7. /\ call'[s].by = h /\ call'[s].stage = th[h].stage
      /\ call'[s].turn = th[h].turn /\ call'[s].pc = "start"
      /\ call'[s].proc = Nobody /\ call'[s].ses = 0
  BY <1>3
<1>8. QED
  BY <1>1, <1>2, <1>5, <1>6, <1>7

\* An LLM is told of names.
LEMMA ToldNames ==
  ASSUME TypeOK, NEW i \in SessionIds
  PROVE  ToldOf(sess[i]) \in SUBSET Names
<1>1. /\ sess[i].built \in Seq(Entry) /\ sess[i].said \in Seq(Entry)
  BY DEF TypeOK, Session
<1>2. ASSUME NEW l \in Seq(Entry), NEW k \in DOMAIN l PROVE l[k].text.tokens \in SUBSET Names
  <2>1. l[k] \in Entry
    BY LenProperties, ElementOfSeq
  <2>2. QED
    BY <2>1 DEF Entry, Text
<1>3. \A k \in DOMAIN sess[i].built : sess[i].built[k].text.tokens \in SUBSET Names
  BY <1>1, <1>2
<1>4. \A k \in DOMAIN sess[i].said : sess[i].said[k].text.tokens \in SUBSET Names
  BY <1>1, <1>2
<1>5. ASSUME NEW x \in ToldOf(sess[i]) PROVE x \in Names
  <2>1. PICK T : /\ x \in T
                 /\ \/ T \in {sess[i].built[k].text.tokens : k \in DOMAIN sess[i].built}
                    \/ T \in {sess[i].said[k].text.tokens : k \in DOMAIN sess[i].said}
    BY <1>5, Zenon DEF ToldOf
  <2>2. T \in SUBSET Names
    BY <1>3, <1>4, <2>1
  <2>3. QED
    BY <2>1, <2>2
<1>6. QED
  BY <1>5

\* A prompt is read from the latest key of the call; its reply is of the same turn
\* and mentions what the session was told.
LEMMA AskCall ==
  ASSUME TypeOK, NEW s \in Slots, Ask(s), call[s].ses \in SessionIds
  PROVE  /\ call' \in [Slots -> Call \cup {NoCall}]
         /\ Stored(Latest(s)) /\ Value(Latest(s)) \in Text
         /\ call'[s].by = call[s].by /\ call'[s].stage = call[s].stage
         /\ call'[s].turn = call[s].turn /\ call'[s].pc = "asking"
         /\ call'[s].proc = call[s].proc /\ call'[s].ses = call[s].ses
         /\ call'[s].out \in Text /\ call'[s].out.turn = Value(Latest(s)).turn
         /\ call'[s].out.tokens = Value(Latest(s)).tokens \cup ToldOf(sess[call[s].ses])
         /\ \A r \in Slots \ {s} : call'[r] = call[r]
<1> DEFINE prompt == Value(Latest(s))
           told == ToldOf(sess[call[s].ses])
           out == [of |-> "reply", turn |-> prompt.turn, tokens |-> prompt.tokens \cup told]
<1>0. Live(s) /\ call[s].pc = "ask"
  BY DEF Ask, Live
<1>1. call[s] \in Call /\ call \in [Slots -> Call \cup {NoCall}]
  BY <1>0, LiveCall DEF TypeOK
<1>2. Stored(Latest(s)) /\ prompt \in Text
  <2>1. Stored(Latest(s))
    BY <1>0 DEF Ask, Allowed
  <2>2. QED
    BY <1>0, <2>1, LiveCall, StoredText
<1>3. told \in SUBSET Names
  BY ToldNames
<1>4. call' = [call EXCEPT ![s].pc = "asking", ![s].conn = FALSE, ![s].out = out]
  BY DEF Ask
<1>5. out \in Text
  BY <1>2, <1>3 DEF Text
<1>6. out.turn = prompt.turn /\ out.tokens = prompt.tokens \cup told
  OBVIOUS
<1> HIDE DEF out, told, prompt
<1>7. call'[s] = [call[s] EXCEPT !.pc = "asking", !.conn = FALSE, !.out = out]
  BY <1>1, <1>4
<1>8. \A r \in Slots \ {s} : call'[r] = call[r]
  BY <1>1, <1>4
<1>9. call'[s] = [by |-> call[s].by, stage |-> call[s].stage, turn |-> call[s].turn,
                  pc |-> "asking", auth |-> call[s].auth, conn |-> FALSE,
                  proc |-> call[s].proc, ses |-> call[s].ses, model |-> call[s].model,
                  dirty |-> call[s].dirty, out |-> out]
  BY <1>1, <1>7 DEF Call
<1>10. call'[s] \in Call
  BY <1>1, <1>5, <1>9 DEF Call, Phases
<1>11. call' = [r \in Slots |-> call'[r]]
  BY <1>1, <1>4
<1>12. call' \in [Slots -> Call \cup {NoCall}]
  <2>1. \A r \in Slots : call'[r] \in Call \cup {NoCall}
    BY <1>1, <1>8, <1>10
  <2>2. QED
    BY <1>11, <2>1
<1>13. QED
  BY <1>2, <1>5, <1>6, <1>8, <1>9, <1>12 DEF told, prompt

-----------------------------------------------------------------------------
(* The gateway: who awaits which call, and how far the message has come. *)

\* The message is at stage g of turn t, or beyond it.
Reached(t, g) == t < pos.turn \/ (t = pos.turn /\ g <= pos.stage)

\* Threads and calls are about turns and stages that the message has reached, and
\* a thread awaits one call.
GateInv ==
  /\ \A h \in Threads : Reached(th[h].turn, th[h].stage)
  /\ \A s \in Slots : Reached(call[s].turn, call[s].stage)
  /\ \A s \in Slots : call[s].by # Nobody =>
       /\ th[call[s].by].st = "wait"
       /\ th[call[s].by].turn = call[s].turn
       /\ th[call[s].by].stage = call[s].stage
       /\ \A r \in Slots : call[r].by = call[s].by => r = s

\* The gateway sees the call as before.
SameCall(s) ==
  /\ call'[s].by = call[s].by
  /\ call'[s].stage = call[s].stage
  /\ call'[s].turn = call[s].turn

\* A step of a service on a call changes one call, which goes from a phase to
\* another.
Service(s) ==
  \/ Denied(s) \/ Refused(s) \/ SaveText(s) \/ SaveModel(s)
  \/ (\E p \in Processes : Tag(s, p) \/ Decipher(s, p))
  \/ LookUp(s) \/ Build(s) \/ Keep(s) \/ Ask(s) \/ Reply(s) \/ LlmFails(s) \/ SaveReply(s)

(* The phases of a call, and what is stored. *)

PhaseOK(s) ==
  /\ Live(s) /\ call[s].by = Nobody => call[s].stage = SendToGemini
  /\ call[s].pc \in {"tagged", "meta"} =>
       call[s].stage = CipherReq /\ call[s].proc \in Processes
  /\ call[s].pc \in {"build", "keep", "ask", "asking", "replied"} =>
       call[s].stage = SendToGemini
  /\ call[s].pc \in {"keep", "ask", "asking", "replied"} => call[s].ses \in SessionIds
  /\ call[s].pc = "tagged" => call[s].out = Ciphered(call[s].turn)
  /\ call[s].pc \in {"asking", "replied"} =>
       call[s].out \in Text /\ call[s].out.turn = call[s].turn
  /\ call[s].pc \in {"meta", "ok"} => Stored(WriteKey(call[s].stage, call[s].turn))

PhaseInv == \A s \in Slots : PhaseOK(s)

\* What is under a key is about the key's turn, and every key is filled that the
\* message has passed.
TextInv ==
  \A t \in Turns :
    /\ text[t][CipherReq] \in {NoText, UserText(t)}
    /\ text[t][SendToGemini] \in {NoText, Ciphered(t)}
    /\ \A w \in {DecipherResp, Done} : text[t][w] # NoText => text[t][w].turn = t
    /\ \A w \in Workers : Reached(t, w) => text[t][w] # NoText

StageInv == TypeOK /\ GateInv /\ PhaseInv /\ TextInv

\* What the gateway sees of a service's step.
LEMMA ServiceCalls ==
  ASSUME TypeOK, PhaseInv, NEW s \in Slots, Service(s)
  PROVE  /\ Live(s)
         /\ call' \in [Slots -> Call \cup {NoCall}]
         /\ call'[s].pc # "none"
         /\ UNCHANGED <<pos, th, rights, crossed, repeats>>
         /\ SameCall(s)
         /\ \A r \in Slots \ {s} : call'[r] = call[r]
<1>0. {"bad", "meta", "ok", "ask", "replied"} \subseteq Phases
  BY DEF Phases
<1>1. ASSUME NEW p \in Phases, Live(s), Goto(s, p)
      PROVE  /\ call' \in [Slots -> Call \cup {NoCall}]
             /\ call'[s].pc # "none"
             /\ SameCall(s)
             /\ \A r \in Slots \ {s} : call'[r] = call[r]
  <2>1. "none" \notin Phases
    BY DEF Phases
  <2>2. QED
    BY <1>1, <2>1, GoesOn DEF SameCall
<1>2. Live(s)
  BY DEF Service, Denied, Refused, SaveText, SaveModel, Tag, Decipher, LookUp, Build,
    Keep,
    Ask, Reply, LlmFails, SaveReply, Live
<1>3. UNCHANGED <<pos, th, rights, crossed, repeats>>
  BY DEF Service, Denied, Refused, SaveText, SaveModel, Tag, Decipher, LookUp, Build,
    Keep,
    Ask, Reply, LlmFails, SaveReply, gatewayVars, redisVars, seenVars, boundVars
<1>4. CASE \/ Denied(s) \/ Refused(s) \/ SaveText(s) \/ SaveModel(s)
           \/ \E p \in Processes : Decipher(s, p)
           \/ Keep(s) \/ Reply(s) \/ LlmFails(s) \/ SaveReply(s)
  <2>1. \E p \in Phases : Goto(s, p)
    BY <1>0, <1>4 DEF Denied, Refused, SaveText, SaveModel, Decipher, Keep, Reply,
      LlmFails,
      SaveReply
  <2>2. QED
    BY <1>1, <1>2, <1>3, <2>1
<1>5. CASE \E p \in Processes : Tag(s, p)
  BY <1>2, <1>3, <1>5, TagCall DEF SameCall
<1>6. CASE LookUp(s)
  BY <1>2, <1>3, <1>6, LookUpCall DEF SameCall
<1>7. CASE Build(s)
  BY <1>2, <1>3, <1>7, BuildCall DEF SameCall
<1>8. CASE Ask(s)
  <2>1. call[s].ses \in SessionIds
    BY <1>8 DEF Ask, PhaseInv, PhaseOK
  <2>2. QED
    BY <1>2, <1>3, <1>8, <2>1, AskCall DEF SameCall
<1>9. QED
  BY <1>4, <1>5, <1>6, <1>7, <1>8 DEF Service

\* The next-state relation, by who takes the step.
LEMMA NextSteps ==
  ASSUME [Next]_vars
  PROVE  \/ NextTurn
         \/ \E h \in Threads : TakeUp(h) \/ Grant(h) \/ Post(h)
         \/ \E s \in Slots : \/ Answered(s) \/ Failed(s) \/ TimedOut(s) \/ Cancelled(s)
                            \/ Service(s)
         \/ \E p \in Processes : Expire(p) \/ ProcessDies(p)
         \/ Evict
         \/ UNCHANGED vars
BY DEF Next, ThreadStep, CallStep, ProcessRedisContent, CipherStep, Service

\* How the message moves.
LEMMA PosMoves ==
  ASSUME TypeOK, [Next]_vars
  PROVE  /\ pos' \in [turn : Turns, stage : Workers]
         /\ \/ pos' = pos
            \/ /\ NextTurn /\ pos.stage = Done
               /\ pos'.turn = pos.turn + 1 /\ pos'.stage = CipherReq
            \/ \E s \in Slots :
                 /\ Answered(s) /\ call[s].turn = pos.turn /\ call[s].stage = pos.stage
                 /\ pos.stage # Done
                 /\ pos'.turn = pos.turn /\ pos'.stage = pos.stage + 1
<1>0. pos \in [turn : Turns, stage : Workers] /\ LastTurn \in Nat
  BY StagesAssumption DEF TypeOK
<1>1. CASE NextTurn
  BY <1>0, <1>1 DEF NextTurn, Turns
<1>2. ASSUME NEW s \in Slots, Answered(s)
      PROVE  \/ pos' = pos
             \/ /\ call[s].turn = pos.turn /\ call[s].stage = pos.stage
                /\ pos.stage # Done
                /\ pos' \in [turn : Turns, stage : Workers]
                /\ pos'.turn = pos.turn /\ pos'.stage = pos.stage + 1
  <2>1. call[s].stage \in Stages
    BY <1>2, LiveCall DEF Answered, Live, Call
  <2>2. CASE call[s].turn = pos.turn /\ call[s].stage = pos.stage
    <3>1. pos' = [pos EXCEPT !.stage = @ + 1]
      BY <1>2, <2>2 DEF Answered, MoveOn
    <3>2. pos'.turn = pos.turn /\ pos'.stage = pos.stage + 1
      BY <1>0, <3>1
    <3>3. pos.stage + 1 \in Workers /\ pos.stage # Done
      BY <2>1, <2>2
    <3>4. QED
      BY <1>0, <2>2, <3>1, <3>2, <3>3
  <2>3. CASE ~(call[s].turn = pos.turn /\ call[s].stage = pos.stage)
    BY <1>2, <2>3 DEF Answered, MoveOn
  <2>4. QED
    BY <2>2, <2>3
<1>3. ASSUME ~NextTurn, \A s \in Slots : ~Answered(s) PROVE pos' = pos
  <2>1. ASSUME NEW s \in Slots, Service(s) PROVE pos' = pos
    BY <2>1 DEF Service, Denied, Refused, SaveText, SaveModel, Tag, Decipher, LookUp,
      Build,
      Keep, Ask, Reply, LlmFails, SaveReply, gatewayVars, redisVars, seenVars, boundVars
  <2>2. QED
    BY <1>3, <2>1, NextSteps DEF TakeUp, Grant, Post, Failed, TimedOut, Cancelled, Expire,
      ProcessDies, Evict, gatewayVars, vars
<1>4. QED
  BY <1>0, <1>1, <1>2, <1>3

\* What was reached stays reached.
LEMMA ReachedStays ==
  ASSUME TypeOK, [Next]_vars
  PROVE  \A t \in Int, g \in Int : Reached(t, g) => Reached(t, g)'
<1>1. pos.turn \in Int /\ pos.stage \in 0 .. 3
  BY StagesAssumption DEF TypeOK, Turns
<1>2. QED
  BY <1>1, PosMoves DEF Reached

\* Turns and stages are numbers.
LEMMA Numbers ==
  ASSUME TypeOK
  PROVE  /\ \A t \in Turns : t \in Nat
         /\ \A s \in Slots : call[s].turn \in Int /\ call[s].stage \in Int
         /\ \A h \in Threads : th[h].turn \in Int /\ th[h].stage \in Int
         /\ pos.turn \in Nat /\ pos.stage \in 0 .. 3
<1>1. \A t \in Turns : t \in Nat
  BY StagesAssumption DEF Turns
<1>2. \A s \in Slots : call[s] \in Call \/ call[s] = NoCall
  BY DEF TypeOK
<1>3. \A h \in Threads : th[h] \in Thread \/ th[h] = IdleThread
  BY DEF TypeOK
<1>4. \A s \in Slots : call[s].turn \in Int /\ call[s].stage \in Int
  BY <1>1, <1>2 DEF Call, NoCall, NoTurn
<1>5. \A h \in Threads : th[h].turn \in Int /\ th[h].stage \in Int
  BY <1>1, <1>3 DEF Thread, IdleThread, NoTurn
<1>6. QED
  BY <1>1, <1>4, <1>5 DEF TypeOK

\* The thread that awaits a call.
LEMMA Awaited ==
  ASSUME TypeOK, GateInv, NEW s \in Slots, call[s].by # Nobody
  PROVE  /\ Live(s) /\ call[s].by \in Threads /\ th[call[s].by] \in Thread
         /\ th[call[s].by].st = "wait"
<1>1. call[s] \in Call \/ call[s] = NoCall
  BY DEF TypeOK
<1>2. call[s] \in Call
  BY <1>1 DEF NoCall
<1>3. call[s].by \in Threads /\ Live(s)
  BY <1>2 DEF Call, Phases, Live
<1>4. th[call[s].by].st = "wait"
  BY DEF GateInv
<1>5. QED
  BY <1>3, <1>4 DEF TypeOK, IdleThread

\* A process that dies, and a new password, leave the calls to their threads.
LEMMA OthersCalls ==
  ASSUME TypeOK, NEW s \in Slots,
         \/ UNCHANGED call
         \/ \E h \in Threads : Grant(h)
         \/ \E p \in Processes : ProcessDies(p)
  PROVE  /\ SameCall(s)
         /\ call'[s] \in Call \cup {NoCall}
         /\ call'[s].pc = call[s].pc \/ (call'[s].pc = "bad" /\ call[s].pc \in {"tagged", "meta"})
         /\ call'[s].proc = call[s].proc /\ call'[s].ses = call[s].ses
         /\ call'[s].model = call[s].model /\ call'[s].dirty = call[s].dirty
         /\ call'[s].out = call[s].out
         /\ call[s].pc = "none" => call'[s] = NoCall
<1>1. call[s] \in Call \/ call[s] = NoCall
  BY DEF TypeOK
<1>2. CASE call'[s] = call[s]
  BY <1>1, <1>2 DEF SameCall, Call, Phases, NoCall
<1>3. CASE call'[s] = [call[s] EXCEPT !.auth = FALSE] /\ call[s].stage \in Stages
  <2>1. call[s] \in Call
    BY <1>1, <1>3 DEF NoCall
  <2>2. QED
    BY <1>3, <2>1 DEF SameCall, Call, Phases
<1>4. CASE call'[s] = [call[s] EXCEPT !.pc = "bad"] /\ call[s].pc \in {"tagged", "meta"}
  <2>1. call[s] \in Call
    BY <1>1, <1>4 DEF NoCall
  <2>2. QED
    BY <1>4, <2>1 DEF SameCall, Call, Phases
<1>5. ASSUME NEW h \in Threads, Grant(h)
      PROVE  \/ call'[s] = call[s]
             \/ call'[s] = [call[s] EXCEPT !.auth = FALSE] /\ call[s].stage \in Stages
  <2>0. th[h] \in Thread \cup {IdleThread} /\ th[h].st = "grant"
    BY <1>5 DEF Grant, TypeOK
  <2>1. th[h].stage \in Stages
    BY <2>0 DEF Thread, IdleThread
  <2>2. call'[s] = IF call[s].stage = th[h].stage THEN [call[s] EXCEPT !.auth = FALSE]
                   ELSE call[s]
    BY <1>5 DEF Grant
  <2>3. QED
    BY <2>1, <2>2
<1>6. ASSUME NEW p \in Processes, ProcessDies(p)
      PROVE  \/ call'[s] = call[s]
             \/ call'[s] = [call[s] EXCEPT !.pc = "bad"] /\ call[s].pc \in {"tagged", "meta"}
  BY <1>6 DEF ProcessDies
<1>7. QED
  BY <1>2, <1>3, <1>4, <1>5, <1>6

\* A thread that waits for its call goes on waiting.
LEMMA GrantThreads ==
  ASSUME TypeOK, NEW h \in Threads, Grant(h), NEW i \in Threads
  PROVE  /\ th'[i] \in Thread \cup {IdleThread}
         /\ th'[i].turn = th[i].turn /\ th'[i].stage = th[i].stage
         /\ th[i].st = "wait" => th'[i].st = "wait"
<1>0. th \in [Threads -> Thread \cup {IdleThread}] /\ th[h].st = "grant"
  BY DEF Grant, TypeOK
<1>1. th \in [Threads -> Thread \cup {IdleThread}] /\ th[h] \in Thread
  BY <1>0 DEF IdleThread
<1>2. th'[i] = IF i = h THEN [th[i] EXCEPT !.st = "post", !.pwd = TRUE]
               ELSE IF th[i].stage = th[h].stage THEN [th[i] EXCEPT !.pwd = FALSE] ELSE th[i]
  BY DEF Grant
<1>3. CASE i = h
  <2>1. th'[i] = [[th[i] EXCEPT !.st = "post"] EXCEPT !.pwd = TRUE]
    BY <1>1, <1>2, <1>3
  <2>2. th'[i] = [st |-> "post", turn |-> th[i].turn, stage |-> th[i].stage, pwd |-> TRUE]
    BY <1>1, <1>3, <2>1 DEF Thread
  <2>3. th[i].st = "grant"
    BY <1>3 DEF Grant
  <2>4. QED
    BY <1>1, <1>3, <2>2, <2>3 DEF Thread
<1>4. CASE i # h /\ th[i].stage = th[h].stage
  <2>1. th[i] \in Thread
    BY <1>1, <1>4 DEF Thread, IdleThread
  <2>2. QED
    BY <1>2, <1>4, <2>1 DEF Thread
<1>5. QED
  BY <1>1, <1>2, <1>3, <1>4

\* A call that ends, or is no longer awaited.
Ends(s) == Answered(s) \/ Failed(s) \/ TimedOut(s) \/ Cancelled(s)

\* A call that ends gives its slot back, or goes on without its thread.
LEMMA EndedCall ==
  ASSUME TypeOK, GateInv, NEW s \in Slots, Ends(s)
  PROVE  /\ Live(s)
         /\ call' \in [Slots -> Call \cup {NoCall}]
         /\ call'[s].by = Nobody
         /\ \/ call'[s] = NoCall
            \/ /\ TimedOut(s)
               /\ call'[s] = [call[s] EXCEPT !.by = Nobody]
               /\ call'[s].stage = call[s].stage /\ call'[s].turn = call[s].turn
         /\ \A r \in Slots \ {s} : call'[r] = call[r]
         /\ th' \in [Threads -> Thread \cup {IdleThread}]
         /\ \A h \in Threads : h # call[s].by => th'[h] = th[h]
         /\ \A h \in Threads :
              \/ th'[h] = IdleThread
              \/ th'[h].turn = th[h].turn /\ th'[h].stage = th[h].stage
<1>1. call \in [Slots -> Call \cup {NoCall}] /\ th \in [Threads -> Thread \cup {IdleThread}]
  BY DEF TypeOK
<1>2. Live(s)
  <2>1. CASE call[s].by # Nobody
    BY <2>1, Awaited
  <2>2. CASE call[s].by = Nobody
    BY <2>2 DEF Ends, Answered, Failed, TimedOut, Cancelled
  <2>3. QED
    BY <2>1, <2>2
<1>3. call[s] \in Call
  BY <1>2, LiveCall
<1>4. CASE call' = [call EXCEPT ![s] = NoCall] /\ UNCHANGED th
  BY <1>1, <1>2, <1>4 DEF NoCall
<1>5. ASSUME call[s].by # Nobody,
             \/ th' = [th EXCEPT ![call[s].by].st = "post"]
             \/ th' = [th EXCEPT ![call[s].by] = IdleThread]
      PROVE  /\ th' \in [Threads -> Thread \cup {IdleThread}]
             /\ \A h \in Threads : h # call[s].by => th'[h] = th[h]
             /\ \A h \in Threads :
                  \/ th'[h] = IdleThread
                  \/ th'[h].turn = th[h].turn /\ th'[h].stage = th[h].stage
  <2>1. call[s].by \in Threads /\ th[call[s].by] \in Thread
    BY <1>5, Awaited
  <2>2. CASE th' = [th EXCEPT ![call[s].by].st = "post"]
    BY <1>1, <2>1, <2>2 DEF Thread
  <2>3. CASE th' = [th EXCEPT ![call[s].by] = IdleThread]
    BY <1>1, <2>1, <2>3
  <2>4. QED
    BY <1>5, <2>2, <2>3
<1>6. CASE Answered(s) \/ Failed(s)
  <2>1. call' = [call EXCEPT ![s] = NoCall] /\ call[s].by # Nobody
    BY <1>6 DEF Answered, Failed
  <2>2. \/ th' = [th EXCEPT ![call[s].by].st = "post"]
        \/ th' = [th EXCEPT ![call[s].by] = IdleThread]
    BY <1>6 DEF Answered, Failed
  <2>3. call' \in [Slots -> Call \cup {NoCall}] /\ call'[s] = NoCall
        /\ \A r \in Slots \ {s} : call'[r] = call[r]
    BY <1>1, <2>1
  <2>4. NoCall.by = Nobody
    BY DEF NoCall
  <2>5. QED
    BY <1>2, <1>5, <2>1, <2>2, <2>3, <2>4
<1>7. CASE TimedOut(s)
  <2>1. call' = [call EXCEPT ![s].by = Nobody] /\ call[s].by # Nobody
    BY <1>7 DEF TimedOut
  <2>2. \/ th' = [th EXCEPT ![call[s].by].st = "post"]
        \/ th' = [th EXCEPT ![call[s].by] = IdleThread]
    BY <1>7 DEF TimedOut
  <2>3. call'[s] = [call[s] EXCEPT !.by = Nobody] /\ \A r \in Slots \ {s} : call'[r] = call[r]
    BY <1>1, <2>1
  <2>4. /\ call'[s] \in Call /\ call'[s].by = Nobody
        /\ call'[s].stage = call[s].stage /\ call'[s].turn = call[s].turn
    BY <1>3, <2>3 DEF Call
  <2>5. call' \in [Slots -> Call \cup {NoCall}]
    BY <1>1, <1>3, <2>1, <2>3, <2>4
  <2>6. QED
    BY <1>2, <1>5, <1>7, <2>1, <2>2, <2>3, <2>4, <2>5
<1>8. CASE Cancelled(s)
  BY <1>4, <1>8 DEF Cancelled, gatewayVars
<1>9. QED
  BY <1>6, <1>7, <1>8 DEF Ends

\* GateInv is kept.
LEMMA GateStep ==
  ASSUME TypeOK, GateInv, PhaseInv, [Next]_vars
  PROVE  GateInv'
<1>0. \A t \in Int, g \in Int : Reached(t, g) => Reached(t, g)'
  BY ReachedStays
<1>a. /\ \A h \in Threads : Reached(th[h].turn, th[h].stage)'
                             \/ ~(th'[h].turn = th[h].turn /\ th'[h].stage = th[h].stage)
      /\ \A s \in Slots : Reached(call[s].turn, call[s].stage)'
                             \/ ~(call'[s].turn = call[s].turn /\ call'[s].stage = call[s].stage)
  <2>1. \A t \in Int, g \in Int :
          (t < pos.turn \/ (t = pos.turn /\ g <= pos.stage))
             => (t < pos'.turn \/ (t = pos'.turn /\ g <= pos'.stage))
    BY <1>0 DEF Reached
  <2>2. QED
    BY <2>1, Numbers DEF GateInv, Reached
<1>b. pos'.turn \in Nat
  BY PosMoves, Numbers, StagesAssumption DEF Turns
<1>1. ASSUME \A h \in Threads : /\ th'[h].turn = th[h].turn /\ th'[h].stage = th[h].stage
                                /\ th[h].st = "wait" => th'[h].st = "wait",
             \A s \in Slots : SameCall(s)
      PROVE  GateInv'
  <2>1. \A s \in Slots : call'[s].by = call[s].by /\ call'[s].turn = call[s].turn
                         /\ call'[s].stage = call[s].stage
    BY <1>1 DEF SameCall
  <2>2. ASSUME NEW s \in Slots, call'[s].by # Nobody
        PROVE  /\ th'[call'[s].by].st = "wait"
               /\ th'[call'[s].by].turn = call'[s].turn
               /\ th'[call'[s].by].stage = call'[s].stage
               /\ \A r \in Slots : call'[r].by = call'[s].by => r = s
    <3>1. call[s].by # Nobody /\ call[s].by = call'[s].by
      BY <2>1, <2>2
    <3>2. call[s].by \in Threads
      BY <3>1, Awaited
    <3>3. QED
      BY <1>1, <2>1, <3>1, <3>2 DEF GateInv
  <2>3. QED
    BY <1>1, <1>a, <2>1, <2>2 DEF GateInv
<1>2. ASSUME NEW h \in Threads, TakeUp(h) PROVE GateInv'
  <2>1. /\ UNCHANGED <<call, pos>> /\ th[h].st = "idle"
        /\ th' = [th EXCEPT ![h] = [st |-> "grant", turn |-> pos.turn, stage |-> pos.stage,
                                    pwd |-> FALSE]]
    BY <1>2 DEF TakeUp
  <2>2. /\ th'[h].turn = pos'.turn /\ th'[h].stage = pos'.stage
        /\ \A i \in Threads \ {h} : th'[i] = th[i]
    BY <2>1 DEF TypeOK
  <2>3. \A s \in Slots : call[s].by # Nobody => call[s].by \in Threads \ {h}
    BY <2>1, Awaited
  <2>4. \A i \in Threads : Reached(th[i].turn, th[i].stage)'
    BY <1>a, <1>b, <2>1, <2>2, Numbers DEF Reached
  <2>5. \A s \in Slots : Reached(call[s].turn, call[s].stage)'
    BY <1>a, <2>1
  <2>6. \A s \in Slots : call'[s].by # Nobody =>
          /\ th'[call'[s].by].st = "wait"
          /\ th'[call'[s].by].turn = call'[s].turn
          /\ th'[call'[s].by].stage = call'[s].stage
          /\ \A r \in Slots : call'[r].by = call'[s].by => r = s
    BY <2>1, <2>2, <2>3 DEF GateInv
  <2>7. QED
    BY <2>4, <2>5, <2>6 DEF GateInv
<1>3. ASSUME NEW h \in Threads, Post(h) PROVE GateInv'
  <2>1. PICK s \in Slots :
          /\ ~Live(s) /\ call[s] = NoCall
          /\ call'[s].by = h /\ call'[s].stage = th[h].stage
          /\ call'[s].turn = th[h].turn /\ call'[s].pc = "start"
          /\ \A r \in Slots \ {s} : call'[r] = call[r]
    BY <1>3, PostCall
  <2>2. th' = [th EXCEPT ![h].st = "wait"] /\ th[h].st = "post" /\ th[h] \in Thread
    BY <1>3, PostCall DEF Post
  <2>3. /\ th'[h].st = "wait" /\ th'[h].turn = th[h].turn /\ th'[h].stage = th[h].stage
        /\ \A i \in Threads \ {h} : th'[i] = th[i]
    BY <2>2 DEF Thread, TypeOK
  <2>4. \A r \in Slots : call[r].by # Nobody => call[r].by \in Threads \ {h}
    BY <2>2, Awaited
  <2>5. h # Nobody
    BY StagesAssumption
  <2>6. \A i \in Threads : Reached(th[i].turn, th[i].stage)'
    BY <1>a, <2>3
  <2>7. \A r \in Slots : Reached(call[r].turn, call[r].stage)'
    <3>1. \A r \in Slots \ {s} : Reached(call[r].turn, call[r].stage)'
      BY <1>a, <2>1
    <3>2. Reached(call[s].turn, call[s].stage)'
      BY <2>1, <2>3, <2>6 DEF Reached
    <3>3. QED
      BY <3>1, <3>2
  <2>8. \A r \in Slots : call'[r].by # Nobody =>
          /\ th'[call'[r].by].st = "wait"
          /\ th'[call'[r].by].turn = call'[r].turn
          /\ th'[call'[r].by].stage = call'[r].stage
          /\ \A q \in Slots : call'[q].by = call'[r].by => q = r
    <3>1. ASSUME NEW r \in Slots, r # s, call'[r].by # Nobody
          PROVE  /\ th'[call'[r].by].st = "wait"
                 /\ th'[call'[r].by].turn = call'[r].turn
                 /\ th'[call'[r].by].stage = call'[r].stage
                 /\ \A q \in Slots : call'[q].by = call'[r].by => q = r
      BY <2>1, <2>3, <2>4, <3>1 DEF GateInv
    <3>2. \A q \in Slots : call'[q].by = call'[s].by => q = s
      BY <2>1, <2>4, <2>5
    <3>3. QED
      BY <2>1, <2>3, <3>1, <3>2
  <2>9. QED
    BY <2>6, <2>7, <2>8 DEF GateInv
<1>4. ASSUME NEW s \in Slots, Ends(s) PROVE GateInv'
  <2>0. NoCall.turn = -1 /\ NoCall.stage = Done /\ IdleThread.turn = -1
    BY DEF NoCall, NoTurn, IdleThread
  <2>1. \A i \in Threads : Reached(th[i].turn, th[i].stage)'
    <3>1. TAKE i \in Threads
    <3>2. CASE th'[i] = IdleThread
      BY <1>b, <2>0, <3>2 DEF Reached
    <3>3. CASE th'[i].turn = th[i].turn /\ th'[i].stage = th[i].stage
      BY <1>a, <3>3
    <3>4. QED
      BY <1>4, <3>2, <3>3, EndedCall
  <2>2. \A r \in Slots : Reached(call[r].turn, call[r].stage)'
    <3>1. \A r \in Slots \ {s} : Reached(call[r].turn, call[r].stage)'
      BY <1>4, <1>a, EndedCall
    <3>2. CASE call'[s] = NoCall
      BY <1>b, <2>0, <3>2, <3>1 DEF Reached
    <3>3. CASE call'[s].stage = call[s].stage /\ call'[s].turn = call[s].turn
      BY <1>a, <3>1, <3>3
    <3>4. QED
      BY <1>4, <3>2, <3>3, EndedCall
  <2>3. \A r \in Slots : call'[r].by # Nobody =>
          /\ th'[call'[r].by].st = "wait"
          /\ th'[call'[r].by].turn = call'[r].turn
          /\ th'[call'[r].by].stage = call'[r].stage
          /\ \A q \in Slots : call'[q].by = call'[r].by => q = r
    <3>1. ASSUME NEW r \in Slots, call'[r].by # Nobody
          PROVE  /\ th'[call'[r].by].st = "wait"
                 /\ th'[call'[r].by].turn = call'[r].turn
                 /\ th'[call'[r].by].stage = call'[r].stage
                 /\ \A q \in Slots : call'[q].by = call'[r].by => q = r
      <4>1. r # s /\ call'[r] = call[r] /\ call[r].by # Nobody
        BY <1>4, <3>1, EndedCall
      <4>2. call[r].by \in Threads /\ call[r].by # call[s].by
        BY <4>1, Awaited DEF GateInv
      <4>3. th'[call[r].by] = th[call[r].by]
        BY <1>4, <4>2, EndedCall
      <4>4. \A q \in Slots : call'[q].by = call'[r].by => q = r
        <5>1. call'[s].by = Nobody /\ \A q \in Slots \ {s} : call'[q] = call[q]
          BY <1>4, EndedCall
        <5>2. QED
          BY <3>1, <4>1, <5>1 DEF GateInv
      <4>5. QED
        BY <4>1, <4>3, <4>4 DEF GateInv
    <3>2. QED
      BY <3>1
  <2>4. QED
    BY <2>1, <2>2, <2>3 DEF GateInv
<1>5. ASSUME NEW s \in Slots, Service(s) PROVE GateInv'
  <2>1. UNCHANGED th /\ \A r \in Slots : SameCall(r)
    BY <1>5, ServiceCalls DEF SameCall
  <2>2. QED
    BY <1>1, <2>1
<1>6. ASSUME NEW h \in Threads, Grant(h) PROVE GateInv'
  <2>1. \A s \in Slots : SameCall(s)
    BY <1>6, OthersCalls
  <2>2. \A i \in Threads : /\ th'[i].turn = th[i].turn /\ th'[i].stage = th[i].stage
                           /\ th[i].st = "wait" => th'[i].st = "wait"
    BY <1>6, GrantThreads
  <2>3. QED
    BY <1>1, <2>1, <2>2
<1>7. CASE \/ NextTurn \/ (\E p \in Processes : Expire(p) \/ ProcessDies(p))
           \/ Evict \/ UNCHANGED vars
  <2>1. UNCHANGED th /\ (UNCHANGED call \/ \E p \in Processes : ProcessDies(p))
    BY <1>7 DEF NextTurn, Expire, ProcessDies, Evict, vars, gatewayVars
  <2>2. \A s \in Slots : SameCall(s)
    BY <2>1, OthersCalls
  <2>3. QED
    BY <1>1, <2>1, <2>2
<1>8. QED
  BY <1>2, <1>3, <1>4, <1>5, <1>6, <1>7, NextSteps DEF Ends

-----------------------------------------------------------------------------
(* The texts, and the phases of a call. *)

\* A step writes one key at most, with a text of the key's turn.
LEMMA TextSteps ==
  ASSUME StageInv, [Next]_vars
  PROVE  \/ UNCHANGED text
         \/ /\ NextTurn
            /\ text' = [text EXCEPT ![pos.turn + 1][CipherReq] = UserText(pos.turn + 1)]
            /\ pos.turn + 1 \in Turns /\ UserText(pos.turn + 1) \in Text
         \/ \E s \in Slots :
              /\ Service(s) /\ call[s].stage \in Stages /\ call[s].turn \in Turns
              /\ \E v \in Text :
                   /\ text' = [text EXCEPT ![call[s].turn][call[s].stage + 1] = v]
                   /\ v.turn = call[s].turn
                   /\ call[s].stage = CipherReq => v = Ciphered(call[s].turn)
<1> USE DEF StageInv
<1>1. CASE NextTurn
  <2>1. pos.turn + 1 \in Turns
    BY <1>1, StagesAssumption DEF NextTurn, TypeOK, Turns
  <2>2. text' = [text EXCEPT ![pos.turn + 1][CipherReq] = UserText(pos.turn + 1)]
    BY <1>1 DEF NextTurn, Write, Key
  <2>3. UserText(pos.turn + 1) \in Text
    BY <2>1 DEF UserText, Text
  <2>4. QED
    BY <1>1, <2>1, <2>2, <2>3
<1>2. ASSUME NEW s \in Slots, SaveText(s) \/ SaveReply(s) \/ \E p \in Processes : Decipher(s, p)
      PROVE  /\ Service(s) /\ call[s].stage \in Stages /\ call[s].turn \in Turns
             /\ \E v \in Text :
                  /\ text' = [text EXCEPT ![call[s].turn][call[s].stage + 1] = v]
                  /\ v.turn = call[s].turn
                  /\ call[s].stage = CipherReq => v = Ciphered(call[s].turn)
  <2>1. Live(s) /\ Service(s)
    BY <1>2 DEF SaveText, SaveReply, Decipher, Live, Service
  <2>2. call[s].stage \in Stages /\ call[s].turn \in Turns
    BY <2>1, LiveCall DEF Call
  <2>3. CASE SaveText(s)
    <3>1. call[s].stage = CipherReq /\ call[s].out = Ciphered(call[s].turn)
      BY <2>3 DEF SaveText, PhaseInv, PhaseOK
    <3>2. text' = [text EXCEPT ![call[s].turn][call[s].stage + 1] = call[s].out]
      BY <2>3, <3>1 DEF SaveText, Write, WriteKey, Key
    <3>3. call[s].out \in Text /\ call[s].out.turn = call[s].turn
      BY <2>2, <3>1, StagesAssumption DEF Ciphered, Text
    <3>4. QED
      BY <2>1, <2>2, <3>1, <3>2, <3>3
  <2>4. CASE SaveReply(s)
    <3> DEFINE v == call[s].out
    <3>1. call[s].stage = SendToGemini /\ v \in Text /\ v.turn = call[s].turn
      BY <2>4 DEF SaveReply, PhaseInv, PhaseOK
    <3>2. text' = [text EXCEPT ![call[s].turn][call[s].stage + 1] = v]
      BY <2>4, <3>1 DEF SaveReply, Write, WriteKey, Key
    <3>3. call[s].stage # CipherReq
      BY <3>1
    <3> HIDE DEF v
    <3>4. QED
      BY <2>1, <2>2, <3>1, <3>2, <3>3
  <2>5. ASSUME NEW p \in Processes, Decipher(s, p)
        PROVE  \E v \in Text :
                  /\ text' = [text EXCEPT ![call[s].turn][call[s].stage + 1] = v]
                  /\ v.turn = call[s].turn
                  /\ call[s].stage # CipherReq
    <3> DEFINE reply == Value(Latest(s))
               v == [of |-> "final", turn |-> reply.turn, tokens |-> reply.tokens \ LoadModel(p)]
    <3>1. call[s].stage = DecipherResp /\ Stored(Latest(s))
      BY <2>5 DEF Decipher, Allowed
    <3>2. Latest(s) = Key(call[s].turn, DecipherResp) /\ Latest(s) \in Keys
      BY <2>1, <3>1, LiveCall
    <3>3. reply \in Text /\ reply = text[call[s].turn][DecipherResp] /\ reply # NoText
      BY <3>1, <3>2, StoredText DEF Key, Stored
    <3>4. reply.turn = call[s].turn
      BY <2>2, <3>3 DEF TextInv
    <3>5. text' = [text EXCEPT ![call[s].turn][call[s].stage + 1] = v]
      BY <2>5, <3>1 DEF Decipher, Write, WriteKey, Key
    <3> HIDE DEF reply
    <3>6. v \in Text /\ v.turn = call[s].turn
      BY <3>3, <3>4 DEF Text
    <3>7. call[s].stage # CipherReq
      BY <3>1
    <3> HIDE DEF v
    <3>8. QED
      BY <3>5, <3>6, <3>7
  <2>6. QED
    BY <1>2, <2>1, <2>2, <2>3, <2>4, <2>5
<1>3. ASSUME ~NextTurn, \A s \in Slots : ~(SaveText(s) \/ SaveReply(s) \/ \E p \in Processes : Decipher(s, p))
      PROVE  UNCHANGED text
  <2>1. ASSUME NEW s \in Slots, Service(s) PROVE UNCHANGED text
    BY <1>3, <2>1 DEF Service, Denied, Refused, SaveModel, Tag, LookUp, Build,
      Keep, Ask, Reply, LlmFails, redisVars
  <2>2. QED
    BY <1>3, <2>1, NextSteps DEF TakeUp, Grant, Post, Answered, Failed, TimedOut,
      Cancelled,
      Expire, ProcessDies, Evict, redisVars, vars
<1>4. QED
  BY <1>1, <1>2, <1>3

\* Texts stay texts, and a key that holds one goes on holding one.
LEMMA TextStays ==
  ASSUME StageInv, [Next]_vars
  PROVE  /\ text' \in [Turns -> [Workers -> Text \cup {NoText}]]
         /\ \A t \in Turns, w \in Workers : text[t][w] # NoText => text'[t][w] # NoText
<1>0. text \in [Turns -> [Workers -> Text \cup {NoText}]]
  BY DEF StageInv, TypeOK
<1>1. NoText \notin Text
  BY DEF NoText, Text
<1>2. ASSUME NEW t \in Turns, NEW w \in Workers, NEW v \in Text,
             text' = [text EXCEPT ![t][w] = v]
      PROVE  /\ text' \in [Turns -> [Workers -> Text \cup {NoText}]]
             /\ \A u \in Turns, x \in Workers : text[u][x] # NoText => text'[u][x] # NoText
  <2>1. text' = [text EXCEPT ![t] = [text[t] EXCEPT ![w] = v]]
    BY <1>2
  <2>2. [text[t] EXCEPT ![w] = v] \in [Workers -> Text \cup {NoText}]
    BY <1>0
  <2>3. text' \in [Turns -> [Workers -> Text \cup {NoText}]]
    BY <1>0, <2>1, <2>2
  <2>4. QED
    BY <1>0, <1>1, <2>1, <2>3
<1>3. \A g \in Stages : g + 1 \in Workers
  OBVIOUS
<1>4. CipherReq \in Workers
  OBVIOUS
<1>5. QED
  BY <1>0, <1>2, <1>3, <1>4, TextSteps

\* TextInv is kept.
LEMMA TextStep ==
  ASSUME StageInv, [Next]_vars
  PROVE  TextInv'
<1>0. text \in [Turns -> [Workers -> Text \cup {NoText}]] /\ LastTurn \in Nat
  BY StagesAssumption DEF StageInv, TypeOK
<1>1. ASSUME NEW t \in Turns
      PROVE  /\ text'[t][CipherReq] \in {NoText, UserText(t)}
             /\ text'[t][SendToGemini] \in {NoText, Ciphered(t)}
             /\ \A w \in {DecipherResp, Done} : text'[t][w] # NoText => text'[t][w].turn = t
  <2>1. /\ text[t][CipherReq] \in {NoText, UserText(t)}
        /\ text[t][SendToGemini] \in {NoText, Ciphered(t)}
        /\ \A w \in {DecipherResp, Done} : text[t][w] # NoText => text[t][w].turn = t
    BY DEF StageInv, TextInv
  <2>2. CASE UNCHANGED text
    BY <2>1, <2>2
  <2>3. CASE text' = [text EXCEPT ![pos.turn + 1][CipherReq] = UserText(pos.turn + 1)]
             /\ pos.turn + 1 \in Turns
    <3>1. \A w \in Workers : text'[t][w] = IF t = pos.turn + 1 /\ w = CipherReq
                                          THEN UserText(pos.turn + 1) ELSE text[t][w]
      BY <1>0, <2>3
    <3>2. QED
      BY <2>1, <3>1
  <2>4. ASSUME NEW s \in Slots, call[s].stage \in Stages, call[s].turn \in Turns,
               NEW v \in Text,
               text' = [text EXCEPT ![call[s].turn][call[s].stage + 1] = v],
               v.turn = call[s].turn,
               call[s].stage = CipherReq => v = Ciphered(call[s].turn)
        PROVE  /\ text'[t][CipherReq] \in {NoText, UserText(t)}
               /\ text'[t][SendToGemini] \in {NoText, Ciphered(t)}
               /\ \A w \in {DecipherResp, Done} : text'[t][w] # NoText => text'[t][w].turn = t
    <3>1. \A w \in Workers : text'[t][w] = IF t = call[s].turn /\ w = call[s].stage + 1
                                          THEN v ELSE text[t][w]
      BY <1>0, <2>4
    <3>2. QED
      BY <2>1, <2>4, <3>1
  <2>5. QED
    BY <2>2, <2>3, <2>4, TextSteps
<1>2. ASSUME NEW t \in Turns, NEW w \in Workers, Reached(t, w)'
      PROVE  text'[t][w] # NoText
  <2>0. t \in Nat /\ pos.turn \in Nat /\ pos.stage \in 0 .. 3 /\ TypeOK
    BY Numbers DEF StageInv
  <2>1. CASE Reached(t, w)
    BY <2>1, TextStays DEF StageInv, TextInv
  <2>2. CASE ~Reached(t, w) /\ NextTurn /\ pos.stage = Done
             /\ pos'.turn = pos.turn + 1 /\ pos'.stage = CipherReq
    <3>1. t = pos.turn + 1 /\ w = CipherReq
      BY <1>2, <2>0, <2>2 DEF Reached
    <3>2. text' = [text EXCEPT ![t][w] = UserText(t)]
      BY <2>2, <3>1 DEF NextTurn, Write, Key
    <3>3. text'[t][w] = UserText(t)
      BY <1>0, <3>2
    <3>4. QED
      BY <3>3 DEF UserText, NoText
  <2>3. ASSUME NEW s \in Slots, Answered(s), ~Reached(t, w),
               call[s].turn = pos.turn, call[s].stage = pos.stage,
               pos'.turn = pos.turn, pos'.stage = pos.stage + 1
        PROVE  text'[t][w] # NoText
    <3>1. t = call[s].turn /\ w = call[s].stage + 1
      BY <1>2, <2>0, <2>3 DEF Reached
    <3>2. Stored(WriteKey(call[s].stage, call[s].turn))
      BY <2>3 DEF Answered, StageInv, PhaseInv, PhaseOK
    <3>3. text[t][w] # NoText
      BY <3>1, <3>2 DEF Stored, Value, WriteKey, Key
    <3>4. QED
      BY <3>3, TextStays
  <2>4. CASE pos' = pos
    BY <1>2, <2>1, <2>4 DEF Reached
  <2>5. QED
    BY <2>0, <2>1, <2>2, <2>3, <2>4, PosMoves
<1>3. QED
  BY <1>1, <1>2 DEF TextInv

\* What a call works on, and what it may read, is there.
LEMMA LatestStored ==
  ASSUME StageInv, NEW s \in Slots, Live(s)
  PROVE  /\ \A k \in KeysOf(ReadKeys(call[s].stage, call[s].turn)) : Stored(k)
         /\ Stored(Latest(s))
         /\ Value(Latest(s)) \in Text /\ Value(Latest(s)).turn = call[s].turn
<1>0. call[s] \in Call /\ TypeOK
  BY LiveCall DEF StageInv
<1>1. Reached(call[s].turn, call[s].stage)
  BY DEF StageInv, GateInv
<1>2. /\ call[s].turn \in Nat /\ call[s].turn \in Turns /\ call[s].stage \in Stages
      /\ pos.turn \in Nat /\ pos.stage \in 0 .. 3
  BY <1>0, Numbers DEF Call
<1>3. /\ Latest(s) = Key(call[s].turn, call[s].stage) /\ Latest(s) \in Keys
      /\ \A k \in KeysOf(ReadKeys(call[s].stage, call[s].turn)) :
           k = Latest(s) \/ k \in Earlier(s)
      /\ \A k \in Earlier(s) : /\ k \in Keys /\ k.turn < call[s].turn
                               /\ k.worker \in {CipherReq, SendToGemini}
  BY <1>0, LiveCall
<1>4. ASSUME NEW k \in Keys, Reached(k.turn, k.worker) PROVE Stored(k)
  <2>1. k.turn \in Turns /\ k.worker \in Workers
    BY DEF Keys
  <2>2. text[k.turn][k.worker] # NoText
    BY <1>4, <2>1 DEF StageInv, TextInv
  <2>3. QED
    BY <1>0, <2>2, StoredText DEF Stored
<1>5. Stored(Latest(s)) /\ Value(Latest(s)) = text[call[s].turn][call[s].stage]
  <2>1. Latest(s).turn = call[s].turn /\ Latest(s).worker = call[s].stage
    BY <1>3 DEF Key
  <2>2. QED
    BY <1>0, <1>1, <1>3, <1>4, <2>1, StoredText
<1>6. \A k \in Earlier(s) : Stored(k)
  <2>1. \A k \in Earlier(s) : k.turn \in Nat /\ Reached(k.turn, k.worker)
    BY <1>0, <1>1, <1>2, <1>3, Numbers DEF Reached, Keys
  <2>2. QED
    BY <1>3, <1>4, <2>1
<1>7. Value(Latest(s)) \in Text
  BY <1>0, <1>3, <1>5, StoredText
<1>8. Value(Latest(s)).turn = call[s].turn
  <2>1. Value(Latest(s)) # NoText
    BY <1>5 DEF Stored
  <2>2. QED
    BY <1>2, <1>5, <2>1 DEF StageInv, TextInv, UserText, Ciphered
<1>9. QED
  BY <1>3, <1>5, <1>6, <1>7, <1>8

\* A call keeps its phase's facts while nobody changes it, or changes only its
\* password, or its process dies.
LEMMA PhaseStays ==
  ASSUME StageInv, [Next]_vars, NEW s \in Slots,
         \/ call'[s] = call[s]
         \/ \E h \in Threads : Grant(h)
         \/ \E p \in Processes : ProcessDies(p)
  PROVE  PhaseOK(s)'
<1>0. TypeOK /\ PhaseOK(s) /\ (call[s] \in Call \/ call[s] = NoCall)
  BY DEF StageInv, PhaseInv, TypeOK
<1>1. /\ call'[s].by = call[s].by /\ call'[s].stage = call[s].stage
      /\ call'[s].turn = call[s].turn
      /\ call'[s].pc = call[s].pc \/ (call'[s].pc = "bad" /\ call[s].pc \in {"tagged", "meta"})
      /\ call'[s].proc = call[s].proc /\ call'[s].ses = call[s].ses
      /\ call'[s].out = call[s].out
      /\ call[s].pc = "none" => call'[s].pc = "none"
  <2>1. CASE call'[s] = call[s]
    BY <2>1
  <2>2. CASE (\E h \in Threads : Grant(h)) \/ (\E p \in Processes : ProcessDies(p))
    BY <1>0, <2>2, OthersCalls DEF SameCall, NoCall
  <2>3. QED
    BY <2>1, <2>2
<1>2. Stored(WriteKey(call[s].stage, call[s].turn)) /\ call[s].pc \in {"meta", "ok"}
        => Stored(WriteKey(call[s].stage, call[s].turn))'
  <2>1. SUFFICES ASSUME Stored(WriteKey(call[s].stage, call[s].turn)),
                        call[s].pc \in {"meta", "ok"}
                 PROVE  Stored(WriteKey(call[s].stage, call[s].turn))'
    OBVIOUS
  <2>2. call[s].stage \in Stages /\ call[s].turn \in Turns
    BY <1>0, <2>1 DEF Call, NoCall
  <2>3. call[s].stage + 1 \in Workers
    BY <2>2
  <2>4. text[call[s].turn][call[s].stage + 1] # NoText
    BY <2>1, <2>3 DEF Stored, Value, WriteKey, Key
  <2>5. text'[call[s].turn][call[s].stage + 1] # NoText
    BY <2>2, <2>3, <2>4, TextStays
  <2>6. QED
    BY <1>1, <2>3, <2>5 DEF Stored, Value, WriteKey, Key
<1>3. QED
  BY <1>0, <1>1, <1>2 DEF PhaseOK, Live

\* The key that a call has written holds something.
LEMMA Written ==
  ASSUME StageInv, NEW s \in Slots, Live(s), call'[s].stage = call[s].stage,
         call'[s].turn = call[s].turn,
         NEW v \in Text, Write(WriteKey(call[s].stage, call[s].turn), v)
  PROVE  Stored(WriteKey(call[s].stage, call[s].turn))'
<1>0. text \in [Turns -> [Workers -> Text \cup {NoText}]] /\ call[s] \in Call
  BY LiveCall DEF StageInv, TypeOK
<1>1. call[s].stage \in Stages /\ call[s].turn \in Turns /\ call[s].stage + 1 \in Workers
  BY <1>0 DEF Call
<1>2. text' = [text EXCEPT ![call[s].turn][call[s].stage + 1] = v]
  BY DEF Write, WriteKey, Key
<1>3. text'[call[s].turn][call[s].stage + 1] = v
  BY <1>0, <1>1, <1>2
<1>4. v # NoText
  BY DEF Text, NoText
<1>5. QED
  BY <1>1, <1>3, <1>4 DEF Stored, Value, WriteKey, Key

\* The call that a service works on.
LEMMA ServicePhase ==
  ASSUME StageInv, [Next]_vars, NEW s \in Slots, Service(s)
  PROVE  PhaseOK(s)'
<1> USE DEF StageInv
<1>0. Live(s) /\ SameCall(s) /\ PhaseOK(s) /\ call[s] \in Call
  BY ServiceCalls, LiveCall DEF PhaseInv
<1>1. /\ call'[s].by = call[s].by /\ call'[s].stage = call[s].stage
      /\ call'[s].turn = call[s].turn
      /\ call'[s].by = Nobody => call'[s].stage = SendToGemini
  BY <1>0 DEF SameCall, PhaseOK
<1>2. {"bad", "meta", "ok", "ask", "replied"} \subseteq Phases
  BY DEF Phases
<1>3. CASE Denied(s) \/ Refused(s) \/ LlmFails(s)
  <2>1. Goto(s, "bad")
    BY <1>3 DEF Denied, Refused, LlmFails
  <2>2. call'[s].pc = "bad"
    BY <1>0, <1>2, <2>1, GoesOn
  <2>3. QED
    BY <1>1, <2>2 DEF PhaseOK
<1>4. CASE SaveText(s)
  <2>0. call[s].pc = "tagged" /\ (Goto(s, "meta") \/ Goto(s, "ok"))
    BY <1>4 DEF SaveText
  <2>1. /\ call[s].stage = CipherReq /\ call[s].proc \in Processes
        /\ call[s].out = Ciphered(call[s].turn)
    BY <1>0, <2>0 DEF PhaseOK
  <2>2. call'[s].pc \in {"meta", "ok"} /\ call'[s].proc = call[s].proc
    BY <1>0, <1>2, <2>0, GoesOn
  <2>3. call[s].out \in Text
    BY <1>0, <2>1, StagesAssumption DEF Ciphered, Text, Call
  <2>4. Write(WriteKey(call[s].stage, call[s].turn), call[s].out)
    BY <1>4, <2>1 DEF SaveText
  <2>5. Stored(WriteKey(call[s].stage, call[s].turn))'
    BY <1>0, <1>1, <2>3, <2>4, Written
  <2>6. QED
    BY <1>1, <2>1, <2>2, <2>5 DEF PhaseOK
<1>5. CASE SaveModel(s)
  <2>0. call[s].pc = "meta" /\ Goto(s, "ok") /\ UNCHANGED text
    BY <1>5 DEF SaveModel
  <2>1. call'[s].pc = "ok"
    BY <1>0, <1>2, <2>0, GoesOn
  <2>2. Stored(WriteKey(call[s].stage, call[s].turn))
    BY <1>0, <2>0 DEF PhaseOK
  <2>3. Stored(WriteKey(call[s].stage, call[s].turn))'
    BY <1>1, <2>0, <2>2 DEF Stored, Value, WriteKey, Key
  <2>4. QED
    BY <1>1, <2>1, <2>3 DEF PhaseOK
<1>6. ASSUME NEW p \in Processes, Tag(s, p) PROVE PhaseOK(s)'
  <2>1. /\ call'[s].pc = "tagged" /\ call'[s].proc = p
        /\ call'[s].out = Ciphered(call[s].turn)
    BY <1>6, TagCall
  <2>2. call[s].stage = CipherReq
    BY <1>6 DEF Tag
  <2>3. call'[s].out = Ciphered(call'[s].turn)
    BY <1>1, <2>1
  <2>4. QED
    BY <1>1, <2>1, <2>2, <2>3 DEF PhaseOK, Ciphered
<1>7. ASSUME NEW p \in Processes, Decipher(s, p) PROVE PhaseOK(s)'
  <2> DEFINE reply == Value(Latest(s))
             v == [of |-> "final", turn |-> reply.turn, tokens |-> reply.tokens \ LoadModel(p)]
  <2>0. Goto(s, "ok") /\ call[s].stage = DecipherResp
        /\ Write(WriteKey(call[s].stage, call[s].turn), v)
    BY <1>7 DEF Decipher
  <2>1. call'[s].pc = "ok"
    BY <1>0, <1>2, <2>0, GoesOn
  <2>2. reply \in Text
    BY <1>0, LatestStored
  <2> HIDE DEF reply
  <2>3. v \in Text
    BY <2>2 DEF Text
  <2> HIDE DEF v
  <2>4. Stored(WriteKey(call[s].stage, call[s].turn))'
    BY <1>0, <1>1, <2>0, <2>3, Written
  <2>5. QED
    BY <1>1, <2>1, <2>4 DEF PhaseOK
<1>8. CASE LookUp(s)
  <2>1. /\ call'[s].pc = (IF cached # 0 THEN "keep" ELSE "build")
        /\ call'[s].ses = cached
    BY <1>8, LookUpCall
  <2>2. call[s].stage = SendToGemini /\ cached \in SessionIds \cup {0}
    BY <1>8 DEF LookUp, TypeOK
  <2>3. QED
    BY <1>1, <2>1, <2>2 DEF PhaseOK
<1>9. CASE Build(s)
  <2>1. call'[s].pc = "keep" /\ call'[s].ses \in SessionIds
    BY <1>9, BuildCall
  <2>2. call[s].stage = SendToGemini
    BY <1>0, <1>9 DEF Build, PhaseOK
  <2>3. QED
    BY <1>1, <2>1, <2>2 DEF PhaseOK
<1>10. CASE Keep(s)
  <2>0. call[s].pc = "keep" /\ Goto(s, "ask")
    BY <1>10 DEF Keep
  <2>1. call'[s].pc = "ask" /\ call'[s].ses = call[s].ses
    BY <1>0, <1>2, <2>0, GoesOn
  <2>2. call[s].stage = SendToGemini /\ call[s].ses \in SessionIds
    BY <1>0, <2>0 DEF PhaseOK
  <2>3. QED
    BY <1>1, <2>1, <2>2 DEF PhaseOK
<1>11. CASE Ask(s)
  <2>0. call[s].pc = "ask"
    BY <1>11 DEF Ask
  <2>1. call[s].stage = SendToGemini /\ call[s].ses \in SessionIds
    BY <1>0, <2>0 DEF PhaseOK
  <2>2. /\ call'[s].pc = "asking" /\ call'[s].ses = call[s].ses
        /\ call'[s].out \in Text /\ call'[s].out.turn = Value(Latest(s)).turn
    BY <1>11, <2>1, AskCall
  <2>3. Value(Latest(s)).turn = call[s].turn
    BY <1>0, LatestStored
  <2>4. call'[s].out.turn = call'[s].turn
    BY <1>1, <2>2, <2>3
  <2>x. (call[s].out \in Text)'
    BY <2>2 DEF Text
  <2>5. QED
    BY <1>1, <2>1, <2>2, <2>4, <2>x DEF PhaseOK, Text
<1>12. CASE Reply(s)
  <2>0. call[s].pc = "asking" /\ Goto(s, "replied")
    BY <1>12 DEF Reply
  <2>1. call'[s].pc = "replied" /\ call'[s].ses = call[s].ses /\ call'[s].out = call[s].out
    BY <1>0, <1>2, <2>0, GoesOn
  <2>2. /\ call[s].stage = SendToGemini /\ call[s].ses \in SessionIds
        /\ call[s].out \in Text /\ call[s].out.turn = call[s].turn
    BY <1>0, <2>0 DEF PhaseOK
  <2>3. QED
    BY <1>1, <2>1, <2>2 DEF PhaseOK, Text
<1>13. CASE SaveReply(s)
  <2>0. call[s].pc = "replied" /\ Goto(s, "ok")
    BY <1>13 DEF SaveReply
  <2>1. call'[s].pc = "ok"
    BY <1>0, <1>2, <2>0, GoesOn
  <2>2. call[s].stage = SendToGemini /\ call[s].out \in Text
    BY <1>0, <2>0 DEF PhaseOK
  <2>3. Write(WriteKey(call[s].stage, call[s].turn), call[s].out)
    BY <1>13, <2>2 DEF SaveReply
  <2>4. Stored(WriteKey(call[s].stage, call[s].turn))'
    BY <1>0, <1>1, <2>2, <2>3, Written
  <2>5. QED
    BY <1>1, <2>1, <2>4 DEF PhaseOK
<1>14. QED
  BY <1>3, <1>4, <1>5, <1>6, <1>7, <1>8, <1>9, <1>10, <1>11, <1>12, <1>13 DEF Service

\* PhaseInv is kept.
LEMMA PhaseStep ==
  ASSUME StageInv, [Next]_vars
  PROVE  PhaseInv'
<1>0. TypeOK /\ GateInv /\ PhaseInv
  BY DEF StageInv
<1>1. \A s \in Slots : call'[s] = call[s] => PhaseOK(s)'
  BY PhaseStays
<1>2. ASSUME NEW s \in Slots, Service(s) PROVE PhaseInv'
  <2>1. \A r \in Slots \ {s} : call'[r] = call[r]
    BY <1>0, <1>2, ServiceCalls
  <2>2. PhaseOK(s)'
    BY <1>2, ServicePhase
  <2>3. QED
    BY <1>1, <2>1, <2>2 DEF PhaseInv
<1>3. ASSUME NEW h \in Threads, Post(h) PROVE PhaseInv'
  <2>1. PICK s \in Slots :
          /\ call'[s].by = h /\ call'[s].pc = "start"
          /\ \A r \in Slots \ {s} : call'[r] = call[r]
    BY <1>0, <1>3, PostCall
  <2>2. h # Nobody
    BY StagesAssumption
  <2>3. PhaseOK(s)'
    BY <2>1, <2>2 DEF PhaseOK
  <2>4. QED
    BY <1>1, <2>1, <2>3 DEF PhaseInv
<1>4. ASSUME NEW s \in Slots, Ends(s) PROVE PhaseInv'
  <2>0. Live(s) /\ call[s] \in Call /\ PhaseOK(s)
    BY <1>0, <1>4, EndedCall, LiveCall DEF PhaseInv
  <2>1. ASSUME call'[s] = NoCall PROVE PhaseOK(s)'
    BY <2>1 DEF PhaseOK, Live, NoCall
  <2>2. ASSUME TimedOut(s), call'[s] = [call[s] EXCEPT !.by = Nobody] PROVE PhaseOK(s)'
    <3>1. call[s].stage = SendToGemini
      BY <2>2 DEF TimedOut
    <3>2. call'[s] = [by |-> Nobody, stage |-> call[s].stage, turn |-> call[s].turn,
                      pc |-> call[s].pc, auth |-> call[s].auth, conn |-> call[s].conn,
                      proc |-> call[s].proc, ses |-> call[s].ses,
                      model |-> call[s].model, dirty |-> call[s].dirty,
                      out |-> call[s].out]
      BY <2>0, <2>2 DEF Call
    <3>3. /\ call'[s].stage = call[s].stage /\ call'[s].turn = call[s].turn
          /\ call'[s].pc = call[s].pc /\ call'[s].proc = call[s].proc
          /\ call'[s].ses = call[s].ses /\ call'[s].out = call[s].out
      BY <3>2
    <3>4. UNCHANGED text
      BY <2>2 DEF TimedOut, redisVars
    <3>5. Stored(WriteKey(call[s].stage, call[s].turn))
            => Stored(WriteKey(call[s].stage, call[s].turn))'
      BY <3>3, <3>4 DEF Stored, Value, WriteKey, Key
    <3>6. QED
      BY <2>0, <3>1, <3>3, <3>5 DEF PhaseOK, Live
  <2>3. PhaseOK(s)'
    BY <1>0, <1>4, <2>1, <2>2, EndedCall
  <2>4. \A r \in Slots \ {s} : call'[r] = call[r]
    BY <1>0, <1>4, EndedCall
  <2>5. QED
    BY <1>1, <2>3, <2>4 DEF PhaseInv
<1>5. CASE (\E h \in Threads : Grant(h)) \/ (\E p \in Processes : ProcessDies(p))
  BY <1>5, PhaseStays DEF PhaseInv
<1>6. CASE \/ NextTurn \/ (\E h \in Threads : TakeUp(h))
           \/ (\E p \in Processes : Expire(p)) \/ Evict \/ UNCHANGED vars
  <2>1. UNCHANGED call
    BY <1>6 DEF NextTurn, TakeUp, Expire, Evict, vars
  <2>2. QED
    BY <1>1, <2>1 DEF PhaseInv
<1>7. QED
  BY <1>2, <1>3, <1>4, <1>5, <1>6, NextSteps DEF Ends

-----------------------------------------------------------------------------
(* The sessions, and the types. *)

\* A session that is rebuilt holds what is under the earlier keys; there are none
\* for the first turn only.
LEMMA RebuiltSession ==
  ASSUME StageInv, NEW s \in Slots, Build(s)
  PROVE  /\ Rebuilt(call[s].turn) \in Seq(Entry)
         /\ Rebuilt(call[s].turn) = <<>> <=> call[s].turn = 0
         /\ \A i \in DOMAIN Rebuilt(call[s].turn) :
              \E k \in Earlier(s) : Rebuilt(call[s].turn)[i].text = Value(k)
<1> DEFINE t == call[s].turn
           l == ReadKeys(SendToGemini, t)
           keys == Tail(l)
           n == Len(l) - 1
<1>0. TypeOK /\ Live(s) /\ call[s] \in Call /\ call[s].stage = SendToGemini
  <2>1. call[s].pc = "build" /\ TypeOK
    BY DEF Build, StageInv
  <2>2. QED
    BY <2>1, LiveCall DEF Live, StageInv, PhaseInv, PhaseOK
<1>1. t \in Turns /\ t \in Nat
  BY <1>0, Numbers DEF Call
<1>2. /\ l \in Seq(Keys) /\ Len(l) > 0
      /\ Len(l) > 1 <=> t > 0
  <2>1. SendToGemini \in Stages
    OBVIOUS
  <2>2. QED
    BY <1>1, <2>1, KeysToRead
<1>3. Earlier(s) = KeysOf(keys)
  BY <1>0 DEF Earlier
<1>4. Rebuilt(t) = IF Len(l) > 1 THEN History(t) ELSE <<>>
  BY DEF Rebuilt
<1>5. History(t) = [i \in DOMAIN keys |->
                      [role |-> IF i % 2 = 1 THEN "user" ELSE "model", text |-> Value(keys[i])]]
  BY DEF History
<1> HIDE DEF l
<1>6. Len(l) \in Nat /\ l # <<>>
  BY <1>2, LenProperties
<1>7. keys \in Seq(Keys) /\ Len(keys) = n
  BY <1>2, <1>6, HeadTailProperties
<1>8. DOMAIN keys = 1 .. n
  BY <1>7, LenProperties
<1>9. \A k \in Earlier(s) : k \in Keys /\ Stored(k)
  BY <1>0, LiveCall DEF Build, Allowed
<1>10. \A i \in 1 .. n : keys[i] \in Earlier(s)
  BY <1>3, <1>8 DEF KeysOf
<1> HIDE DEF keys
<1>11. \A i \in 1 .. n : Value(keys[i]) \in Text
  BY <1>0, <1>9, <1>10, StoredText
<1>12. CASE t = 0
  <2>1. Rebuilt(t) = <<>>
    BY <1>2, <1>4, <1>12
  <2>2. Rebuilt(t) \in Seq(Entry) /\ DOMAIN Rebuilt(t) = {}
    BY <2>1, EmptySeq
  <2>3. QED
    BY <1>12, <2>1, <2>2
<1>13. CASE t # 0
  <2>1. Rebuilt(t) = History(t) /\ n > 0 /\ n \in Nat
    BY <1>1, <1>2, <1>4, <1>6, <1>13
  <2>2. History(t) = [i \in 1 .. n |->
                      [role |-> IF i % 2 = 1 THEN "user" ELSE "model", text |-> Value(keys[i])]]
    BY <1>5, <1>8
  <2>3. \A i \in 1 .. n :
          [role |-> IF i % 2 = 1 THEN "user" ELSE "model", text |-> Value(keys[i])] \in Entry
    BY <1>11 DEF Entry
  <2> HIDE DEF n
  <2>4. History(t) \in [1 .. n -> Entry]
    BY <2>2, <2>3
  <2>5. History(t) \in Seq(Entry) /\ Len(History(t)) = n
    BY <2>1, <2>4, ListIsSeq
  <2>6. History(t) # <<>>
    BY <2>1, <2>5
  <2>7. \A i \in 1 .. n : History(t)[i].text = Value(keys[i])
    BY <2>2
  <2>8. DOMAIN History(t) = 1 .. n
    BY <2>2
  <2>9. QED
    BY <1>10, <1>13, <2>1, <2>5, <2>6, <2>7, <2>8
<1>14. QED
  BY <1>12, <1>13

\* Prompt and reply become the end of the session that the call used.
LEMMA RepliedSession ==
  ASSUME StageInv, NEW s \in Slots, Reply(s)
  PROVE  /\ call[s].ses \in SessionIds
         /\ Value(Latest(s)) = Ciphered(call[s].turn) /\ Value(Latest(s)) \in Text
         /\ call[s].out \in Text /\ call[s].out.turn = call[s].turn
         /\ sess' \in [SessionIds -> Session]
         /\ \A i \in SessionIds \ {call[s].ses} : sess'[i] = sess[i]
         /\ sess'[call[s].ses].built = sess[call[s].ses].built
         /\ sess'[call[s].ses].said = sess[call[s].ses].said \o
              <<[role |-> "user", text |-> Value(Latest(s))],
                [role |-> "model", text |-> call[s].out]>>
<1> DEFINE j == call[s].ses
           a == [role |-> "user", text |-> Value(Latest(s))]
           b == [role |-> "model", text |-> call[s].out]
           new == sess[j].said \o <<a, b>>
<1>0. TypeOK /\ Live(s) /\ call[s].pc = "asking" /\ PhaseOK(s)
  BY DEF Reply, Live, StageInv, PhaseInv
<1>1. /\ j \in SessionIds /\ call[s].stage = SendToGemini
      /\ call[s].out \in Text /\ call[s].out.turn = call[s].turn
  BY <1>0 DEF PhaseOK
<1>2. /\ Value(Latest(s)) \in Text /\ Value(Latest(s)) = Ciphered(call[s].turn)
  <2>1. call[s].turn \in Turns /\ Latest(s) = Key(call[s].turn, SendToGemini)
        /\ Latest(s) \in Keys
    BY <1>0, <1>1, LiveCall DEF Call
  <2>2. Value(Latest(s)) \in Text /\ Stored(Latest(s))
    BY <1>0, LatestStored
  <2>3. Value(Latest(s)) = text[call[s].turn][SendToGemini] /\ Value(Latest(s)) # NoText
    BY <1>0, <2>1, <2>2, StoredText DEF Key, Stored
  <2>4. QED
    BY <2>1, <2>2, <2>3 DEF StageInv, TextInv
<1>3. a \in Entry /\ b \in Entry
  BY <1>1, <1>2 DEF Entry
<1>4. sess \in [SessionIds -> Session] /\ sess[j] \in Session
  BY <1>0, <1>1 DEF TypeOK
<1>5. sess' = [sess EXCEPT ![j].said = @ \o <<a, b>>]
  BY DEF Reply
<1> HIDE DEF a, b, j
<1>6. <<a, b>> \in Seq(Entry)
  BY <1>3
<1>7. new \in Seq(Entry)
  <2>1. sess[j].said \in Seq(Entry)
    BY <1>4 DEF Session
  <2>2. QED
    BY <1>6, <2>1, ConcatProperties
<1>8. sess' = [sess EXCEPT ![j].said = new]
  BY <1>5
<1> HIDE DEF new
<1>9. sess'[j] = [sess[j] EXCEPT !.said = new] /\ \A i \in SessionIds \ {j} : sess'[i] = sess[i]
  BY <1>1, <1>4, <1>8 DEF j
<1>10. sess'[j] = [built |-> sess[j].built, said |-> new]
  BY <1>4, <1>9 DEF Session
<1>11. sess'[j] \in Session
  BY <1>4, <1>7, <1>10 DEF Session
<1>12. sess' \in [SessionIds -> Session]
  BY <1>1, <1>4, <1>8, <1>9, <1>11
<1>13. sess'[j].built = sess[j].built /\ sess'[j].said = new
  BY <1>10
<1>14. QED
  BY <1>1, <1>2, <1>9, <1>12, <1>13 DEF new, a, b, j

\* Who changes the sessions.
LEMMA SessionSteps ==
  ASSUME [Next]_vars
  PROVE  \/ UNCHANGED sess
         \/ \E s \in Slots : Build(s) \/ Reply(s)
<1>1. ASSUME NEW s \in Slots, Service(s) PROVE UNCHANGED sess \/ Build(s) \/ Reply(s)
  BY <1>1 DEF Service, Denied, Refused, SaveText, SaveModel, Tag, Decipher, LookUp,
    Keep, Ask, LlmFails, SaveReply, memoryVars
<1>2. QED
  BY <1>1, NextSteps DEF NextTurn, TakeUp, Grant, Post, Answered, Failed, TimedOut,
    Cancelled, Expire, ProcessDies, Evict, memoryVars, vars

\* A session that is built is a new one.
LEMMA BuiltSession ==
  ASSUME StageInv, NEW s \in Slots, Build(s)
  PROVE  /\ sess' \in [SessionIds -> Session]
         /\ call'[s].ses \in SessionIds /\ call'[s].ses # cached
         /\ \A r \in Slots : call[r].ses # call'[s].ses
         /\ sess'[call'[s].ses] = [built |-> Rebuilt(call[s].turn), said |-> <<>>]
         /\ \A i \in SessionIds \ {call'[s].ses} : sess'[i] = sess[i]
<1>0. TypeOK /\ sess \in [SessionIds -> Session]
  BY DEF StageInv, TypeOK
<1> DEFINE new == [built |-> Rebuilt(call[s].turn), said |-> <<>>]
<1>1. PICK i \in SessionIds \ ({cached} \cup {call[r].ses : r \in Slots}) :
        sess' = [sess EXCEPT ![i] = new] /\ call'[s].ses = i
  BY <1>0, BuildCall
<1>2. new \in Session
  BY RebuiltSession, EmptySeq DEF Session
<1> HIDE DEF new
<1>3. QED
  BY <1>0, <1>1, <1>2 DEF new

\* The calls keep their type.
LEMMA CallTypes ==
  ASSUME StageInv, [Next]_vars
  PROVE  call' \in [Slots -> Call \cup {NoCall}]
<1>0. TypeOK /\ GateInv /\ PhaseInv
  BY DEF StageInv
<1>1. CASE (\E h \in Threads : Grant(h)) \/ (\E p \in Processes : ProcessDies(p))
  <2>1. \A s \in Slots : call'[s] \in Call \cup {NoCall}
    BY <1>0, <1>1, OthersCalls
  <2>2. call' = [s \in Slots |-> call'[s]]
    BY <1>1 DEF Grant, ProcessDies
  <2>3. QED
    BY <2>1, <2>2
<1>2. CASE \/ NextTurn \/ (\E h \in Threads : TakeUp(h))
           \/ (\E p \in Processes : Expire(p)) \/ Evict \/ UNCHANGED vars
  BY <1>0, <1>2 DEF NextTurn, TakeUp, Expire, Evict, vars, TypeOK
<1>3. CASE \E h \in Threads : Post(h)
  BY <1>0, <1>3, PostCall
<1>4. CASE \E s \in Slots : Service(s)
  BY <1>0, <1>4, ServiceCalls
<1>5. CASE \E s \in Slots : Ends(s)
  BY <1>0, <1>5, EndedCall
<1>6. QED
  BY <1>1, <1>2, <1>3, <1>4, <1>5, NextSteps DEF Ends

\* The threads keep their type.
LEMMA ThreadTypes ==
  ASSUME StageInv, [Next]_vars
  PROVE  th' \in [Threads -> Thread \cup {IdleThread}]
<1>0. TypeOK /\ GateInv /\ PhaseInv /\ th \in [Threads -> Thread \cup {IdleThread}]
  BY DEF StageInv, TypeOK
<1>1. ASSUME NEW h \in Threads, TakeUp(h) PROVE th' \in [Threads -> Thread \cup {IdleThread}]
  <2> DEFINE new == [st |-> "grant", turn |-> pos.turn, stage |-> pos.stage, pwd |-> FALSE]
  <2>1. th' = [th EXCEPT ![h] = new] /\ pos.stage # Done
    BY <1>1 DEF TakeUp
  <2>2. pos.turn \in Turns /\ pos.stage \in Stages
    BY <1>0, <2>1 DEF TypeOK
  <2>3. new \in Thread
    BY <2>2 DEF Thread
  <2> HIDE DEF new
  <2>4. QED
    BY <1>0, <2>1, <2>3
<1>2. ASSUME NEW h \in Threads, Grant(h) PROVE th' \in [Threads -> Thread \cup {IdleThread}]
  <2>1. \A i \in Threads : th'[i] \in Thread \cup {IdleThread}
    BY <1>0, <1>2, GrantThreads
  <2>2. th' = [i \in Threads |-> th'[i]]
    BY <1>2 DEF Grant
  <2>3. QED
    BY <2>1, <2>2
<1>3. ASSUME NEW h \in Threads, Post(h) PROVE th' \in [Threads -> Thread \cup {IdleThread}]
  <2>1. th' = [th EXCEPT ![h].st = "wait"] /\ th[h] \in Thread
    BY <1>0, <1>3, PostCall DEF Post
  <2>2. [th[h] EXCEPT !.st = "wait"] \in Thread
    BY <2>1 DEF Thread
  <2>3. QED
    BY <1>0, <2>1, <2>2
<1>4. CASE \E s \in Slots : Ends(s)
  BY <1>0, <1>4, EndedCall
<1>5. CASE \E s \in Slots : Service(s)
  BY <1>0, <1>5, ServiceCalls
<1>6. CASE \/ NextTurn \/ (\E p \in Processes : Expire(p) \/ ProcessDies(p))
           \/ Evict \/ UNCHANGED vars
  BY <1>0, <1>6 DEF NextTurn, Expire, ProcessDies, Evict, vars, gatewayVars
<1>7. QED
  BY <1>1, <1>2, <1>3, <1>4, <1>5, <1>6, NextSteps DEF Ends

\* Who changes the names under the meta key and the caches.
LEMMA NameSteps ==
  ASSUME [Next]_vars
  PROVE  \/ UNCHANGED <<saved, cache>>
         \/ \E s \in Slots : SaveModel(s)
         \/ \E s \in Slots, p \in Processes : (Tag(s, p) \/ Decipher(s, p)) /\ UNCHANGED saved
         \/ \E p \in Processes : (Expire(p) \/ ProcessDies(p)) /\ UNCHANGED saved
<1>1. ASSUME NEW s \in Slots, Service(s)
      PROVE  \/ UNCHANGED <<saved, cache>>
             \/ SaveModel(s)
             \/ \E p \in Processes : (Tag(s, p) \/ Decipher(s, p)) /\ UNCHANGED saved
  BY <1>1 DEF Service, Denied, Refused, SaveText, Tag, Decipher, LookUp, Build, Reply,
    Keep, Ask, LlmFails, SaveReply, memoryVars, redisVars
<1>2. QED
  BY <1>1, NextSteps DEF NextTurn, TakeUp, Grant, Post, Answered, Failed, TimedOut,
    Cancelled, Expire, ProcessDies, Evict, memoryVars, redisVars, vars

\* The names and the caches keep their types.
LEMMA NameTypes ==
  ASSUME StageInv, [Next]_vars
  PROVE  /\ saved' \in SUBSET Names
         /\ cache' \in [Processes -> [held : BOOLEAN, names : SUBSET Names]]
<1>0. TypeOK /\ saved \in SUBSET Names
      /\ cache \in [Processes -> [held : BOOLEAN, names : SUBSET Names]]
  BY DEF StageInv, TypeOK
<1>1. ASSUME NEW p \in Processes, NEW m \in SUBSET Names,
             cache' = [cache EXCEPT ![p] = Holding(m)] \/ cache' = [cache EXCEPT ![p] = NoModel]
      PROVE  cache' \in [Processes -> [held : BOOLEAN, names : SUBSET Names]]
  <2>1. Holding(m) \in [held : BOOLEAN, names : SUBSET Names]
        /\ NoModel \in [held : BOOLEAN, names : SUBSET Names]
    BY DEF Holding, NoModel
  <2>2. QED
    BY <1>0, <1>1, <2>1
<1>2. ASSUME NEW s \in Slots, SaveModel(s)
      PROVE  /\ saved' \in SUBSET Names
             /\ cache' \in [Processes -> [held : BOOLEAN, names : SUBSET Names]]
  <2>1. /\ call[s].pc = "meta" /\ saved' = call[s].model
        /\ cache' = [cache EXCEPT ![call[s].proc] = Holding(call[s].model)]
    BY <1>2 DEF SaveModel
  <2>2. call[s].model \in SUBSET Names /\ call[s].proc \in Processes
    <3>1. Live(s) /\ PhaseOK(s)
      BY <2>1 DEF Live, StageInv, PhaseInv
    <3>2. QED
      BY <1>0, <2>1, <3>1, LiveCall DEF PhaseOK, Call
  <2>3. QED
    BY <1>1, <2>1, <2>2
<1>3. ASSUME NEW s \in Slots, NEW p \in Processes, Tag(s, p)
      PROVE  cache' \in [Processes -> [held : BOOLEAN, names : SUBSET Names]]
  <2>1. cache' = [cache EXCEPT ![p] = Holding(LoadModel(p) \cup Mentions[call[s].turn])]
    BY <1>3 DEF Tag
  <2>2. call[s].turn \in Turns
    <3>1. Live(s)
      BY <1>3 DEF Tag, Live
    <3>2. QED
      BY <1>0, <3>1, LiveCall DEF Call
  <2>3. LoadModel(p) \cup Mentions[call[s].turn] \in SUBSET Names
    BY <1>0, <1>3, <2>2, TagCall, StagesAssumption
  <2>4. QED
    BY <1>1, <2>1, <2>3
<1>4. ASSUME NEW s \in Slots, NEW p \in Processes, Decipher(s, p)
      PROVE  cache' \in [Processes -> [held : BOOLEAN, names : SUBSET Names]]
  <2>1. cache' = [cache EXCEPT ![p] = Holding(LoadModel(p))]
    BY <1>4 DEF Decipher
  <2>2. LoadModel(p) \in SUBSET Names
    BY <1>0 DEF LoadModel
  <2>3. QED
    BY <1>1, <2>1, <2>2
<1>5. ASSUME NEW p \in Processes, Expire(p) \/ ProcessDies(p)
      PROVE  cache' \in [Processes -> [held : BOOLEAN, names : SUBSET Names]]
  BY <1>0, <1>1, <1>5 DEF Expire, ProcessDies
<1>6. QED
  BY <1>0, <1>2, <1>3, <1>4, <1>5, NameSteps

\* The other variables keep their types.
LEMMA OtherTypes ==
  ASSUME StageInv, [Next]_vars
  PROVE  /\ rights' \in [Stages -> Turns \cup {NoTurn}]
         /\ cached' \in SessionIds \cup {0}
         /\ crossed' \in BOOLEAN /\ unsaved' \in BOOLEAN /\ stale' \in BOOLEAN
         /\ repeats' \in 0 .. MaxRepeats /\ faults' \in 0 .. MaxFaults
<1>0. /\ TypeOK /\ PhaseInv /\ GateInv
      /\ rights \in [Stages -> Turns \cup {NoTurn}] /\ cached \in SessionIds \cup {0}
      /\ crossed \in BOOLEAN /\ unsaved \in BOOLEAN /\ stale \in BOOLEAN
      /\ repeats \in 0 .. MaxRepeats /\ faults \in 0 .. MaxFaults
      /\ MaxRepeats \in Nat /\ MaxFaults \in Nat
  BY StagesAssumption DEF StageInv, TypeOK
<1>1. rights' \in [Stages -> Turns \cup {NoTurn}]
  <2>1. ASSUME NEW h \in Threads, Grant(h) PROVE rights' \in [Stages -> Turns \cup {NoTurn}]
    <3>1. th[h] \in Thread \cup {IdleThread} /\ th[h].st = "grant"
          /\ rights' = [rights EXCEPT ![th[h].stage] = th[h].turn]
      BY <1>0, <2>1 DEF Grant, TypeOK
    <3>2. th[h].turn \in Turns
      BY <3>1 DEF Thread, IdleThread
    <3>3. QED
      BY <1>0, <3>1, <3>2
  <2>2. ASSUME NEW s \in Slots, Service(s) PROVE UNCHANGED rights
    BY <1>0, <2>2, ServiceCalls
  <2>3. QED
    BY <1>0, <2>1, <2>2, NextSteps DEF NextTurn, TakeUp, Post, Answered, Failed, TimedOut,
      Cancelled, Expire, ProcessDies, Evict, redisVars, vars
<1>2. cached' \in SessionIds \cup {0}
  <2>1. ASSUME NEW s \in Slots, Service(s) PROVE UNCHANGED cached \/ Keep(s)
    BY <2>1 DEF Service, Denied, Refused, SaveText, SaveModel, Tag, Decipher, LookUp,
      Build,
      Ask, Reply, LlmFails, SaveReply, memoryVars
  <2>2. ASSUME NEW s \in Slots, Keep(s) PROVE cached' \in SessionIds
    BY <1>0, <2>2 DEF Keep, PhaseInv, PhaseOK
  <2>3. QED
    BY <1>0, <2>1, <2>2, NextSteps DEF NextTurn, TakeUp, Grant, Post, Answered, Failed,
      TimedOut, Cancelled, Expire, ProcessDies, Evict, memoryVars, vars
<1>3. crossed' \in BOOLEAN
  <2>1. ASSUME NEW s \in Slots, Service(s) PROVE UNCHANGED crossed
    BY <1>0, <2>1, ServiceCalls
  <2>2. ASSUME NEW h \in Threads, Post(h) PROVE crossed' \in BOOLEAN
    BY <2>2 DEF Post
  <2>3. ASSUME NEW s \in Slots, Answered(s) PROVE crossed' \in BOOLEAN
    BY <2>3 DEF Answered
  <2>4. QED
    BY <1>0, <2>1, <2>2, <2>3, NextSteps DEF NextTurn, TakeUp, Grant, Failed,
      TimedOut, Cancelled, Expire, ProcessDies, Evict, seenVars, vars
<1>4. unsaved' \in BOOLEAN
  <2>1. ASSUME NEW s \in Slots, Service(s) PROVE UNCHANGED unsaved \/ Unsaved(s)
    BY <2>1 DEF Service, Denied, Refused, SaveText, SaveModel, Tag, Decipher, LookUp,
      Build,
      Keep, Ask, Reply, LlmFails, SaveReply, seenVars
  <2>2. ASSUME NEW s \in Slots, Unsaved(s) PROVE unsaved' \in BOOLEAN
    BY <2>2 DEF Unsaved
  <2>3. QED
    BY <1>0, <2>1, <2>2, NextSteps DEF NextTurn, TakeUp, Grant, Post, Answered, Failed,
      TimedOut, Cancelled, Expire, ProcessDies, Evict, seenVars, vars
<1>5. repeats' \in 0 .. MaxRepeats
  <2>1. ASSUME NEW s \in Slots, Service(s) PROVE UNCHANGED repeats
    BY <1>0, <2>1, ServiceCalls
  <2>2. ASSUME NEW h \in Threads, TakeUp(h) PROVE repeats' \in 0 .. MaxRepeats
    <3>1. repeats' = repeats \/ (repeats < MaxRepeats /\ repeats' = repeats + 1)
      BY <2>2 DEF TakeUp
    <3>2. QED
      BY <1>0, <3>1
  <2>3. ASSUME NEW s \in Slots, TimedOut(s) PROVE repeats' \in 0 .. MaxRepeats
    BY <1>0, <2>3 DEF TimedOut
  <2>4. QED
    BY <1>0, <2>1, <2>2, <2>3, NextSteps DEF NextTurn, Grant, Post, Answered, Failed,
      Cancelled, Expire, ProcessDies, Evict, boundVars, vars
<1>6. faults' \in 0 .. MaxFaults
  <2>1. ASSUME NEW s \in Slots, Service(s)
        PROVE  UNCHANGED faults \/ (faults < MaxFaults /\ faults' = faults + 1)
    BY <2>1 DEF Service, Denied, Refused, SaveText, SaveModel, Tag, Decipher, LookUp,
      Build,
      Keep, Ask, Reply, LlmFails, SaveReply, boundVars
  <2>2. ASSUME NEW p \in Processes, ProcessDies(p)
        PROVE  faults < MaxFaults /\ faults' = faults + 1
    BY <2>2 DEF ProcessDies
  <2>3. UNCHANGED faults \/ (faults < MaxFaults /\ faults' = faults + 1)
    BY <2>1, <2>2, NextSteps DEF NextTurn, TakeUp, Grant, Post, Answered, Failed,
      TimedOut, Cancelled, Expire, Evict, boundVars, vars
  <2>4. QED
    BY <1>0, <2>3
<1>7. stale' \in BOOLEAN
  <2>1. ASSUME NEW s \in Slots, Service(s)
        PROVE  UNCHANGED stale \/ SaveModel(s) \/ (\E p \in Processes : Tag(s, p) \/ Decipher(s, p))
    BY <2>1 DEF Service, Denied, Refused, SaveText, LookUp, Build, Keep, Ask, Reply,
      LlmFails, SaveReply, seenVars
  <2>2. ASSUME NEW s \in Slots, SaveModel(s) PROVE stale' \in BOOLEAN
    BY <2>2 DEF SaveModel
  <2>3. ASSUME NEW s \in Slots, NEW p \in Processes, Tag(s, p) \/ Decipher(s, p)
        PROVE  stale' \in BOOLEAN
    BY <2>3 DEF Tag, Decipher
  <2>4. QED
    BY <1>0, <2>1, <2>2, <2>3, NextSteps DEF NextTurn, TakeUp, Grant, Post, Answered,
      Failed, TimedOut, Cancelled, Expire, ProcessDies, Evict, seenVars, vars
<1>8. QED
  BY <1>1, <1>2, <1>3, <1>4, <1>5, <1>6, <1>7

\* TypeOK is kept.
LEMMA TypeStep ==
  ASSUME StageInv, [Next]_vars
  PROVE  TypeOK'
<1>1. TypeOK /\ sess \in [SessionIds -> Session]
  BY DEF StageInv, TypeOK
<1>2. sess' \in [SessionIds -> Session]
  BY <1>1, SessionSteps, BuiltSession, RepliedSession
<1>3. QED
  BY <1>1, <1>2, PosMoves, ThreadTypes, TextStays, CallTypes, NameTypes,
    OtherTypes DEF TypeOK

\* The invariant holds when the chat begins.
LEMMA StageStart == Init => StageInv
<1> SUFFICES ASSUME Init PROVE StageInv
  OBVIOUS
<1>0. LastTurn \in Nat /\ 0 \in Turns /\ MaxRepeats \in Nat /\ MaxFaults \in Nat
      /\ CipherReq \in Workers
  BY StagesAssumption DEF Turns
<1>1. UserText(0) \in Text
  BY <1>0 DEF UserText, Text
<1>2. TypeOK
  <2>1. NoSession \in Session
    BY EmptySeq DEF NoSession, Session
  <2>2. text \in [Turns -> [Workers -> Text \cup {NoText}]]
    BY <1>1 DEF Init
  <2>3. NoModel \in [held : BOOLEAN, names : SUBSET Names]
    BY DEF NoModel
  <2>4. pos \in [turn : Turns, stage : Workers]
    BY <1>0 DEF Init
  <2>5. th \in [Threads -> Thread \cup {IdleThread}] /\ call \in [Slots -> Call \cup {NoCall}]
    BY DEF Init
  <2>6. rights \in [Stages -> Turns \cup {NoTurn}]
    BY DEF Init
  <2>7. cache \in [Processes -> [held : BOOLEAN, names : SUBSET Names]]
    BY <2>3 DEF Init
  <2>8. sess \in [SessionIds -> Session]
    BY <2>1 DEF Init
  <2>a. saved = {} /\ cached = 0 /\ repeats = 0 /\ faults = 0
    BY DEF Init
  <2>b. crossed \in BOOLEAN /\ unsaved \in BOOLEAN /\ stale \in BOOLEAN
    BY DEF Init
  <2>9. /\ saved \in SUBSET Names /\ cached \in SessionIds \cup {0}
        /\ crossed \in BOOLEAN /\ unsaved \in BOOLEAN /\ stale \in BOOLEAN
        /\ repeats \in 0 .. MaxRepeats /\ faults \in 0 .. MaxFaults
    BY <1>0, <2>a, <2>b
  <2>10. QED
    BY <2>2, <2>4, <2>5, <2>6, <2>7, <2>8, <2>9 DEF TypeOK
<1>3. /\ pos.turn = 0 /\ pos.stage = CipherReq
      /\ \A h \in Threads : th[h] = IdleThread
      /\ \A s \in Slots : call[s] = NoCall
  BY DEF Init
<1>4. /\ NoCall.turn = -1 /\ NoCall.by = Nobody /\ NoCall.pc = "none"
      /\ IdleThread.turn = -1
  BY DEF NoCall, IdleThread, NoTurn
<1>5. GateInv
  BY <1>3, <1>4 DEF GateInv, Reached
<1>6. PhaseInv
  BY <1>3, <1>4 DEF PhaseInv, PhaseOK, Live
<1>7. TextInv
  <2>1. \A t \in Turns, w \in Workers :
          text[t][w] = IF t = 0 /\ w = CipherReq THEN UserText(0) ELSE NoText
    BY DEF Init
  <2>2. \A t \in Turns : t \in Nat
    BY <1>0 DEF Turns
  <2>3. \A t \in Turns, w \in Workers : Reached(t, w) => t = 0 /\ w = CipherReq
    BY <1>3, <2>2 DEF Reached
  <2>4. UserText(0) # NoText
    BY DEF UserText, NoText
  <2>5. QED
    BY <2>1, <2>3, <2>4 DEF TextInv
<1>8. QED
  BY <1>2, <1>5, <1>6, <1>7 DEF StageInv

\* Every step keeps it.
LEMMA StageStep == StageInv /\ [Next]_vars => StageInv'
BY TypeStep, GateStep, PhaseStep, TextStep DEF StageInv

\* It always holds.
LEMMA StageAlways == Spec => []StageInv
BY StageStart, StageStep, PTL DEF Spec

-----------------------------------------------------------------------------
(* What follows from it. *)

\* Threads, texts, calls, caches and sessions have their types in every state.
THEOREM StagesTyped == Spec => []TypeOK
<1>1. StageInv => TypeOK
  BY DEF StageInv
<1>2. QED
  BY <1>1, StageAlways, PTL

\* Every key that a call may read holds something while the call runs: the chat's
\* message only comes to a stage when the stage before it has written its text,
\* and no call is about a turn or a stage that the message has not reached.
THEOREM KeysAreFilled == Spec => []HistoryKeysExist
<1>1. StageInv => HistoryKeysExist
  BY LatestStored DEF HistoryKeysExist
<1>2. QED
  BY <1>1, StageAlways, PTL

\* What is stored as the reply to a turn, and shown to its user, answers that
\* turn's prompt, whatever other calls are under way.
THEOREM RepliesMatchTurns == Spec => []ReplyAnswersTurn
<1>1. StageInv => ReplyAnswersTurn
  BY DEF StageInv, TextInv, ReplyAnswersTurn
<1>2. QED
  BY <1>1, StageAlways, PTL

=============================================================================
