--------------------------- MODULE QueueBfsProofs ----------------------------
(***************************************************************************)
(* Theorems about QueueBfs among the parts of MCTooling, for any items,    *)
(* keys and limits, and lemmas on sequences for the other parts.           *)
(***************************************************************************)
EXTENDS MCTooling, SequenceTheorems, TLAPS

-----------------------------------------------------------------------------
(* Sequences.                                                              *)

LEMMA Lengths ==
  ASSUME NEW E, NEW s \in Seq(E)
  PROVE  /\ Len(s) \in Nat /\ DOMAIN s = 1..Len(s)
         /\ \A i \in 1..Len(s) : s[i] \in E
         /\ s = <<>> <=> Len(s) = 0
BY LenProperties, ElementOfSeq, EmptySeq

LEMMA Appended ==
  ASSUME NEW E, NEW s \in Seq(E), NEW x \in E
  PROVE  /\ Append(s, x) \in Seq(E)
         /\ Len(Append(s, x)) = Len(s) + 1
         /\ DOMAIN Append(s, x) = 1..(Len(s) + 1)
         /\ \A i \in 1..Len(s) : Append(s, x)[i] = s[i]
         /\ Append(s, x)[Len(s) + 1] = x
<1>1. /\ Append(s, x) \in Seq(E)
      /\ Len(Append(s, x)) = Len(s) + 1
      /\ \A i \in 1..Len(s) : Append(s, x)[i] = s[i]
      /\ Append(s, x)[Len(s) + 1] = x
  BY AppendProperties
<1>2. DOMAIN Append(s, x) = 1..(Len(s) + 1)
  BY <1>1, LenProperties
<1>. QED  BY <1>1, <1>2

(* All of s but its last element: Front(s) of SequencesExt.                *)
LEMMA FrontOf ==
  ASSUME NEW E, NEW s \in Seq(E), s # <<>>
  PROVE  /\ SubSeq(s, 1, Len(s) - 1) \in Seq(E)
         /\ Len(SubSeq(s, 1, Len(s) - 1)) = Len(s) - 1
         /\ DOMAIN SubSeq(s, 1, Len(s) - 1) = 1..(Len(s) - 1)
         /\ \A i \in 1..(Len(s) - 1) : SubSeq(s, 1, Len(s) - 1)[i] = s[i]
         /\ Len(s) > 0 /\ s[Len(s)] \in E
<1>1. /\ Len(s) \in Nat /\ Len(s) > 0 /\ s[Len(s)] \in E
      /\ \A i \in 1..Len(s) : s[i] \in E
  BY Lengths
<1>. DEFINE m == Len(s) - 1
            t == SubSeq(s, 1, m)
<1>2. m \in Nat /\ 1..m \subseteq 1..Len(s)
  BY <1>1
<1>3. /\ t \in Seq(E)
      /\ Len(t) = IF 1 <= m THEN m - 1 + 1 ELSE 0
      /\ \A i \in 1..(m - 1 + 1) : t[i] = s[1 + i - 1]
  <2>1. \A i \in 1..m : s[i] \in E
    BY <1>1, <1>2
  <2>. HIDE DEF m
  <2>. QED  BY <1>2, <2>1, SubSeqProperties
<1>4. Len(t) = m /\ \A i \in 1..m : t[i] = s[i]
  <2>. HIDE DEF m, t
  <2>. QED  BY <1>2, <1>3
<1>5. DOMAIN t = 1..m
  <2>. HIDE DEF m, t
  <2>. QED  BY <1>3, <1>4, LenProperties
<1>. QED  BY <1>1, <1>3, <1>4, <1>5

(* What a sequence of bounded length is made of.                           *)
LEMMA Bounded ==
  ASSUME NEW E, NEW n \in Nat, NEW s \in UNION {[1..m -> E] : m \in 0..n}
  PROVE  s \in Seq(E)
BY SeqDef

-----------------------------------------------------------------------------
(* The invariant.                                                          *)

(* The key in hand has been seen and is not processed yet; all others that *)
(* were not given with the call are.  The one of an error stays in hand.   *)
InProcess == IF pc = "process" \/ answer = "error" THEN {key} ELSE {}

KeysProcessed ==
  /\ InProcess \subseteq visited \ known
  /\ Q!Range(processed) = (visited \ known) \ InProcess
  /\ \A i, j \in DOMAIN processed : i # j => processed[i] # processed[j]

ItemsCounted ==
  /\ pc \in {"key", "process"} => item \in Item
  /\ pc # "ended" => iterations + Q!InHand + Len(queue) = queued
  /\ limit > 0 => iterations + Q!InHand <= limit
  /\ answer = "ok" => iterations = queued
  /\ answer = "limit" => iterations = limit /\ limit < queued

(* Nothing has happened before the call.                                   *)
NotCalled ==
  pc = "idle" => iterations = 0 /\ processed = <<>>

QInv == Q!TypeOK /\ KeysProcessed /\ ItemsCounted /\ NotCalled

-----------------------------------------------------------------------------
(* Type correctness.                                                       *)

LEMMA QueueInitType == Q!Init => Q!TypeOK
<1>1. <<>> \in Seq(Item) /\ <<>> \in Seq(Key) /\ 0 \in 0..MaxLimit
  BY EmptySeq, QueueAssumption
<1>. SUFFICES ASSUME Q!Init PROVE Q!TypeOK
  OBVIOUS
<1>. USE DEF Q!Init, Q!Pcs, Q!None
<1>2. pc \in Q!Pcs /\ answer = "none" /\ pc # "ended"
  OBVIOUS
<1>3. queue \in Seq(Item) /\ processed \in Seq(Key) /\ limit \in 0..MaxLimit
  BY <1>1
<1>4. visited = {} /\ known = {} /\ iterations = 0 /\ queued = 0
  OBVIOUS
<1>5. item = Q!None /\ key = Q!None /\ cancelled \in BOOLEAN
  OBVIOUS
<1>. QED  BY <1>2, <1>3, <1>4, <1>5 DEF Q!TypeOK

LEMMA QueueStepType ==
  ASSUME Q!TypeOK, InProcess \subseteq visited, pc = "key" => item \in Item, Q!Next
  PROVE  Q!TypeOK'
<1>. USE DEF Q!Pcs, Q!None
<1>1. CASE Q!CallQueueBfs
  <2>1. queue' \in Seq(Item)
    BY <1>1, Bounded, QueueAssumption DEF Q!CallQueueBfs, Q!SeqOf
  <2>2. queued' \in Nat
    BY <1>1, <2>1, Lengths DEF Q!CallQueueBfs
  <2>. QED  BY <1>1, <2>1, <2>2 DEF Q!CallQueueBfs, Q!TypeOK
<1>2. CASE Q!EmptyQueue
  BY <1>2 DEF Q!EmptyQueue, Q!Return, Q!TypeOK
<1>3. CASE Q!PopItem
  <2>1. queue # <<>> => Head(queue) \in Item /\ Tail(queue) \in Seq(Item)
    BY HeadTailProperties DEF Q!TypeOK
  <2>. QED  BY <1>3, <2>1 DEF Q!PopItem, Q!Return, Q!TypeOK
<1>4. CASE Q!KeySlot
  <2>1. key' \in Key
    BY <1>4, QueueAssumption DEF Q!KeySlot
  <2>. QED  BY <1>4, <2>1 DEF Q!KeySlot, Q!PassOver, Q!TypeOK
<1>5. CASE Q!ProcessSlot
  <2>1. CASE Q!Return("error") /\ UNCHANGED <<queue, queued, iterations, processed>>
    BY <1>5, <2>1 DEF Q!ProcessSlot, Q!Return, Q!TypeOK
  <2>2. ASSUME ~ (Q!Return("error") /\ UNCHANGED <<queue, queued, iterations, processed>>)
        PROVE  Q!TypeOK'
    <3>1. PICK children \in Q!SeqOf(Item, MaxChildren) :
            queue' = queue \o children /\ queued' = queued + Len(children)
      BY <1>5, <2>2 DEF Q!ProcessSlot
    <3>2. children \in Seq(Item)
      BY <3>1, Bounded, QueueAssumption DEF Q!SeqOf
    <3>3. queue' \in Seq(Item) /\ queued' \in Nat
      BY <3>1, <3>2, ConcatProperties, Lengths DEF Q!TypeOK
    <3>4. key \in Key /\ processed' = Append(processed, key)
      BY <1>5, <2>2 DEF Q!ProcessSlot, Q!TypeOK, InProcess
    <3>5. processed' \in Seq(Key)
      BY <3>4, Appended DEF Q!TypeOK
    <3>. QED  BY <1>5, <2>2, <3>3, <3>5 DEF Q!ProcessSlot, Q!TypeOK
  <2>. QED  BY <2>1, <2>2
<1>6. CASE Q!Cancel
  BY <1>6 DEF Q!Cancel, Q!TypeOK
<1>. QED  BY <1>1, <1>2, <1>3, <1>4, <1>5, <1>6 DEF Q!Next

-----------------------------------------------------------------------------
(* The keys that are processed.                                            *)

LEMMA StepCounts ==
  ASSUME QInv, Q!Next
  PROVE  ItemsCounted'
<1>. USE DEF Q!None
<1>0. /\ iterations \in Nat /\ queued \in Nat /\ limit \in Nat
      /\ Len(queue) \in Nat /\ queue \in Seq(Item)
  BY Lengths, QueueAssumption DEF QInv, Q!TypeOK
<1>1. CASE Q!CallQueueBfs
  <2>1. queue' \in Seq(Item) /\ limit' \in Nat
    BY <1>1, Bounded, QueueAssumption DEF Q!CallQueueBfs, Q!SeqOf
  <2>2. queued' = Len(queue') /\ queued' \in Nat /\ iterations' = 0 /\ Q!InHand' = 0
    BY <1>1, <2>1, Lengths DEF Q!CallQueueBfs, Q!InHand, QInv, NotCalled
  <2>3. answer' = "none" /\ pc' = "next"
    BY <1>1 DEF Q!CallQueueBfs, QInv, Q!TypeOK
  <2>. QED  BY <2>1, <2>2, <2>3 DEF ItemsCounted
<1>2. CASE Q!EmptyQueue
  <2>1. Len(queue) = 0 /\ Q!InHand = 0 /\ Q!InHand' = 0
    BY <1>2, Lengths, <1>0 DEF Q!EmptyQueue, Q!Return, Q!InHand
  <2>2. pc' = "ended" /\ answer' = "ok" /\ UNCHANGED <<iterations, queued, limit>>
    BY <1>2 DEF Q!EmptyQueue, Q!Return
  <2>3. iterations + Q!InHand + Len(queue) = queued /\ (limit > 0 => iterations + Q!InHand <= limit)
    BY <1>2 DEF QInv, ItemsCounted, Q!EmptyQueue
  <2>. QED  BY <1>0, <2>1, <2>2, <2>3 DEF ItemsCounted
<1>3. CASE Q!PopItem
  <2>0. pc = "next" /\ queue # <<>> /\ UNCHANGED <<iterations, queued, limit>>
        /\ Q!InHand = 0 /\ answer = "none"
    BY <1>3 DEF Q!PopItem, Q!InHand, QInv, Q!TypeOK
  <2>1. Head(queue) \in Item /\ Tail(queue) \in Seq(Item) /\ Len(Tail(queue)) = Len(queue) - 1
        /\ Len(queue) > 0
    BY <2>0, <1>0, HeadTailProperties, Lengths
  <2>2. iterations + Q!InHand + Len(queue) = queued /\ (limit > 0 => iterations + Q!InHand <= limit)
    BY <2>0 DEF QInv, ItemsCounted
  <2>3. CASE Q!AtLimit
    <3>1. pc' = "ended" /\ answer' = "limit" /\ Q!InHand' = 0
      BY <1>3, <2>3 DEF Q!PopItem, Q!Return, Q!InHand
    <3>2. limit > 0 /\ iterations >= limit
      BY <2>3 DEF Q!AtLimit
    <3>3. limit' > 0 /\ iterations' = limit' /\ limit' < queued'
      BY <1>0, <2>0, <2>1, <2>2, <3>2
    <3>. QED  BY <1>0, <2>0, <3>1, <3>3 DEF ItemsCounted
  <2>4. CASE ~ Q!AtLimit
    <3>1. pc' = "key" /\ answer' = "none" /\ Q!InHand' = 1 /\ item' \in Item
          /\ Len(queue') = Len(queue) - 1
      BY <1>3, <2>0, <2>1, <2>4 DEF Q!PopItem, Q!InHand
    <3>2. limit > 0 => iterations < limit
      BY <2>4, <1>0 DEF Q!AtLimit
    <3>. QED  BY <1>0, <2>0, <2>2, <3>1, <3>2 DEF ItemsCounted
  <2>. QED  BY <2>3, <2>4
<1>4. CASE Q!KeySlot
  <2>0. pc = "key" /\ UNCHANGED <<queue, limit, item, queued, answer>>
        /\ Q!InHand = 1 /\ answer = "none"
    BY <1>4 DEF Q!KeySlot, Q!InHand, QInv, Q!TypeOK
  <2>1. /\ iterations + Q!InHand + Len(queue) = queued
        /\ limit > 0 => iterations + Q!InHand <= limit
        /\ item \in Item
    BY <2>0 DEF QInv, ItemsCounted
  <2>2. \/ pc' = "next" /\ Q!InHand' = 0 /\ iterations' = iterations + 1
        \/ pc' = "process" /\ Q!InHand' = 1 /\ iterations' = iterations
    BY <1>4 DEF Q!KeySlot, Q!PassOver, Q!InHand
  <2>3. iterations' + Q!InHand' = iterations + Q!InHand /\ pc' # "ended"
    BY <1>0, <2>0, <2>2
  <2>. QED  BY <2>0, <2>1, <2>3 DEF ItemsCounted
<1>5. CASE Q!ProcessSlot
  <2>0. pc = "process" /\ UNCHANGED <<limit, item>> /\ Q!InHand = 1 /\ answer = "none"
    BY <1>5 DEF Q!ProcessSlot, Q!InHand, QInv, Q!TypeOK
  <2>1. /\ iterations + Q!InHand + Len(queue) = queued
        /\ limit > 0 => iterations + Q!InHand <= limit
        /\ item \in Item
    BY <2>0 DEF QInv, ItemsCounted
  <2>2. CASE Q!Return("error") /\ UNCHANGED <<queue, queued, iterations, processed>>
    <3>1. pc' = "ended" /\ answer' = "error" /\ Q!InHand' = 0 /\ iterations' = iterations
      BY <2>2 DEF Q!Return, Q!InHand
    <3>. QED  BY <1>0, <2>0, <2>1, <3>1 DEF ItemsCounted
  <2>3. ASSUME ~ (Q!Return("error") /\ UNCHANGED <<queue, queued, iterations, processed>>)
        PROVE  ItemsCounted'
    <3>1. PICK children \in Q!SeqOf(Item, MaxChildren) :
            queue' = queue \o children /\ queued' = queued + Len(children)
      BY <1>5, <2>3 DEF Q!ProcessSlot
    <3>2. children \in Seq(Item)
      BY <3>1, Bounded, QueueAssumption DEF Q!SeqOf
    <3>3. Len(queue') = Len(queue) + Len(children) /\ Len(children) \in Nat
      BY <1>0, <3>1, <3>2, ConcatProperties, Lengths
    <3>4. pc' = "next" /\ answer' = "none" /\ iterations' = iterations + 1 /\ Q!InHand' = 0
      BY <1>5, <2>0, <2>3 DEF Q!ProcessSlot, Q!InHand
    <3>. QED  BY <1>0, <2>0, <2>1, <3>1, <3>3, <3>4 DEF ItemsCounted
  <2>. QED  BY <2>2, <2>3
<1>6. CASE Q!Cancel
  <2>1. UNCHANGED <<pc, queue, iterations, limit, item, queued, answer>>
    BY <1>6 DEF Q!Cancel
  <2>2. Q!InHand' = Q!InHand
    BY <2>1 DEF Q!InHand
  <2>. QED  BY <2>1, <2>2 DEF QInv, ItemsCounted
<1>. QED  BY <1>1, <1>2, <1>3, <1>4, <1>5, <1>6 DEF Q!Next

LEMMA StepKeys ==
  ASSUME QInv, Q!Next
  PROVE  KeysProcessed'
<1>. USE DEF Q!None
<1>0. /\ visited \subseteq Key /\ known \subseteq visited /\ processed \in Seq(Key)
      /\ KeysProcessed
  BY DEF QInv, Q!TypeOK
<1>1. CASE Q!CallQueueBfs
  <2>1. pc' = "next" /\ answer' = "none" /\ visited' = known' /\ processed' = <<>>
    BY <1>1 DEF Q!CallQueueBfs, QInv, Q!TypeOK, NotCalled
  <2>2. InProcess' = {} /\ Q!Range(processed)' = {}
    BY <2>1 DEF InProcess, Q!Range
  <2>3. DOMAIN processed' = {}
    BY <2>1
  <2>. QED  BY <2>1, <2>2, <2>3 DEF KeysProcessed
<1>2. CASE Q!EmptyQueue
  <2>1. UNCHANGED <<visited, known, processed>>
    BY <1>2 DEF Q!EmptyQueue
  <2>2. InProcess = {} /\ InProcess' = {}
    BY <1>2 DEF Q!EmptyQueue, Q!Return, InProcess, QInv, Q!TypeOK
  <2>. QED  BY <1>0, <2>1, <2>2 DEF KeysProcessed, Q!Range
<1>3. CASE Q!PopItem
  <2>1. UNCHANGED <<visited, known, processed>>
    BY <1>3 DEF Q!PopItem
  <2>2. InProcess = {} /\ InProcess' = {}
    BY <1>3 DEF Q!PopItem, Q!Return, InProcess, QInv, Q!TypeOK
  <2>. QED  BY <1>0, <2>1, <2>2 DEF KeysProcessed, Q!Range
<1>4. CASE Q!KeySlot
  <2>1. UNCHANGED <<known, processed, answer>> /\ pc = "key" /\ answer = "none"
    BY <1>4 DEF Q!KeySlot, QInv, Q!TypeOK
  <2>2. InProcess = {}
    BY <2>1 DEF InProcess
  <2>3. CASE key' \in visited
    <3>1. visited' = visited /\ InProcess' = {}
      BY <1>4, <2>1, <2>3 DEF Q!KeySlot, InProcess
    <3>. QED  BY <1>0, <2>1, <2>2, <3>1 DEF KeysProcessed, Q!Range
  <2>4. CASE key' \notin visited
    <3>1. visited' = visited \cup {key'} /\ InProcess' = {key'}
      BY <1>4, <2>1, <2>4 DEF Q!KeySlot, InProcess
    <3>2. Q!Range(processed)' = Q!Range(processed)
      BY <2>1 DEF Q!Range
    <3>. QED  BY <1>0, <2>1, <2>2, <2>4, <3>1, <3>2 DEF KeysProcessed
  <2>. QED  BY <2>3, <2>4
<1>5. CASE Q!ProcessSlot
  <2>1. UNCHANGED <<visited, known, key>> /\ pc = "process" /\ answer = "none"
    BY <1>5 DEF Q!ProcessSlot, QInv, Q!TypeOK
  <2>2. InProcess = {key}
    BY <2>1 DEF InProcess
  <2>3. CASE Q!Return("error") /\ UNCHANGED <<queue, queued, iterations, processed>>
    <3>1. InProcess' = {key} /\ processed' = processed
      BY <2>1, <2>3 DEF Q!Return, InProcess
    <3>. QED  BY <1>0, <2>1, <2>2, <3>1 DEF KeysProcessed, Q!Range
  <2>4. ASSUME ~ (Q!Return("error") /\ UNCHANGED <<queue, queued, iterations, processed>>)
        PROVE  KeysProcessed'
    <3>1. processed' = Append(processed, key) /\ InProcess' = {}
      BY <1>5, <2>1, <2>4 DEF Q!ProcessSlot, InProcess
    <3>2. key \in visited \ known /\ key \in Key
      BY <1>0, <2>2 DEF KeysProcessed
    <3>. DEFINE n == Len(processed)
    <3>3. /\ n \in Nat /\ DOMAIN processed = 1..n
          /\ DOMAIN processed' = 1..(n + 1)
          /\ \A i \in 1..n : processed'[i] = processed[i]
          /\ processed'[n + 1] = key
      BY <1>0, <3>1, <3>2, Lengths, Appended
    <3>. HIDE DEF n
    <3>4. Q!Range(processed') = Q!Range(processed) \cup {key}
      BY <3>3 DEF Q!Range
    <3>5. key \notin Q!Range(processed)
      BY <1>0, <2>2 DEF KeysProcessed
    <3>6. \A i \in 1..n : processed[i] # key
      BY <3>3, <3>5 DEF Q!Range
    <3>7. \A i, j \in 1..n : i # j => processed[i] # processed[j]
      BY <1>0, <3>3 DEF KeysProcessed
    <3>8. \A i, j \in DOMAIN processed' : i # j => processed'[i] # processed'[j]
      BY <3>3, <3>6, <3>7
    <3>. QED  BY <1>0, <2>1, <2>2, <3>1, <3>2, <3>4, <3>8 DEF KeysProcessed
  <2>. QED  BY <2>3, <2>4
<1>6. CASE Q!Cancel
  <2>1. UNCHANGED <<pc, answer, key, visited, known, processed>>
    BY <1>6 DEF Q!Cancel
  <2>. QED  BY <1>0, <2>1 DEF KeysProcessed, Q!Range, InProcess
<1>. QED  BY <1>1, <1>2, <1>3, <1>4, <1>5, <1>6 DEF Q!Next

LEMMA QueueInit == Q!Init => QInv
<1>. SUFFICES ASSUME Q!Init PROVE QInv
  OBVIOUS
<1>. USE DEF Q!Init
<1>1. Q!TypeOK
  BY QueueInitType
<1>2. InProcess = {} /\ Q!Range(processed) = {} /\ Q!InHand = 0
  BY DEF InProcess, Q!Range, Q!InHand
<1>3. KeysProcessed
  BY <1>2 DEF KeysProcessed
<1>4. ItemsCounted /\ NotCalled
  BY <1>2, EmptySeq DEF ItemsCounted, NotCalled
<1>. QED  BY <1>1, <1>3, <1>4 DEF QInv

LEMMA QueueStep == QInv /\ Q!Next => QInv'
<1>. SUFFICES ASSUME QInv, Q!Next PROVE QInv'
  OBVIOUS
<1>1. Q!TypeOK'
  BY QueueStepType DEF QInv, KeysProcessed, ItemsCounted
<1>2. NotCalled'
  BY DEF Q!Next, Q!CallQueueBfs, Q!EmptyQueue, Q!PopItem, Q!KeySlot, Q!ProcessSlot,
         Q!Cancel, Q!Return, QInv, NotCalled
<1>. QED  BY <1>1, <1>2, StepCounts, StepKeys DEF QInv

-----------------------------------------------------------------------------
(* The search among the parts.                                             *)

QueuePart == part = "queue" => QInv

LEMMA QueueStutters ==
  ASSUME QInv, UNCHANGED <<searching, visited, answer, pc, cancelled>>
  PROVE  QInv'
<1>. USE DEF searching
<1>1. Q!TypeOK'
  BY DEF QInv, Q!TypeOK
<1>2. KeysProcessed'
  BY DEF QInv, KeysProcessed, InProcess, Q!Range
<1>3. ItemsCounted' /\ NotCalled'
  BY DEF QInv, ItemsCounted, NotCalled, Q!InHand
<1>. QED  BY <1>1, <1>2, <1>3 DEF QInv

LEMMA QueueAlways == PartsSpec => []QueuePart
<1>1. PartsInit => QueuePart
  BY QueueInit DEF PartsInit, QueuePart
<1>2. QueuePart /\ [PartsNext]_partVars => QueuePart'
  <2>. SUFFICES ASSUME QueuePart, [PartsNext]_partVars, part' = "queue"
                PROVE  QInv'
    BY DEF QueuePart
  <2>1. CASE Queue
    BY <2>1, QueueStep DEF Queue, QueuePart
  <2>2. CASE Ended \/ UNCHANGED partVars
    <3>1. UNCHANGED partVars
      BY <2>2 DEF Ended
    <3>. QED  BY <3>1, QueueStutters DEF partVars, shared, QueuePart
  <2>3. CASE Streams \/ Resolver \/ Logs \/ Scripts
    BY <2>3 DEF Streams, Resolver, Logs, Scripts
  <2>. QED  BY <2>1, <2>2, <2>3 DEF PartsNext
<1>. QED  BY <1>1, <1>2, PTL DEF PartsSpec

(* queue_bfs (src/tooling/mod.rs): no key is processed twice, nor one that *)
(* the caller gave as visited; every item that ever was in the queue is    *)
(* counted once; maxIterations is kept; and a search that succeeds has     *)
(* processed all it reports as visited.                                    *)
THEOREM SearchIsSound == PartsSpec => []SearchSound
<1>1. QueuePart => SearchSound
  <2>. SUFFICES ASSUME QInv PROVE Q!SearchSound
    BY DEF QueuePart, SearchSound
  <2>1. iterations \in Nat /\ limit \in Nat /\ (Q!InHand = 0 \/ Q!InHand = 1)
    BY QueueAssumption DEF QInv, Q!TypeOK, Q!InHand
  <2>2. Q!Range(processed) \cap known = {}
    BY DEF QInv, KeysProcessed
  <2>3. limit > 0 => iterations <= limit
    BY <2>1 DEF QInv, ItemsCounted
  <2>4. answer = "ok" => Q!Range(processed) = visited \ known
    BY DEF QInv, KeysProcessed, InProcess, Q!TypeOK
  <2>. QED  BY <2>2, <2>3, <2>4 DEF QInv, KeysProcessed, ItemsCounted, Q!SearchSound
<1>. QED  BY <1>1, QueueAlways, PTL

(* queue_bfs: the flag is looked at before and after the slot `process`,   *)
(* so that nothing counts as processed once the run is cancelled.          *)
THEOREM NothingAfterCancel == PartsSpec => CancelStopsSearch
<1>1. [PartsNext]_partVars => [cancelled => processed' = processed]_(Q!vars)
  <2>. SUFFICES ASSUME [PartsNext]_partVars, cancelled, ~ UNCHANGED Q!vars
                PROVE  processed' = processed
    OBVIOUS
  <2>1. CASE Queue
    BY <2>1 DEF Queue, Q!Next, Q!CallQueueBfs, Q!EmptyQueue, Q!PopItem, Q!KeySlot,
         Q!ProcessSlot, Q!SlotCancelled, Q!Cancel, Q!Return
  <2>2. CASE Ended \/ UNCHANGED partVars
    BY <2>2 DEF Ended, partVars, searching
  <2>3. CASE Streams \/ Resolver \/ Logs \/ Scripts
    BY <2>3 DEF Streams, Resolver, Logs, Scripts, searching
  <2>. QED  BY <2>1, <2>2, <2>3 DEF PartsNext
<1>. QED  BY <1>1, PTL DEF PartsSpec, CancelStopsSearch, Q!CancelStopsSearch
=============================================================================
