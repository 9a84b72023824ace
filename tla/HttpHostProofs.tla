--------------------------- MODULE HttpHostProofs ----------------------------
(***************************************************************************)
(* Theorems about HttpHost, for any number of hosts and clients, whoever   *)
(* calls whom.                                                             *)
(***************************************************************************)
EXTENDS HttpHost, SequenceTheorems, TLAPS

-----------------------------------------------------------------------------
(* Queues.                                                                 *)

LEMMA AppendedIn ==
  ASSUME NEW S, NEW s \in Seq(S), NEW x \in S
  PROVE  /\ Append(s, x) \in Seq(S)
         /\ \A y : In(y, Append(s, x)) <=> In(y, s) \/ y = x
         /\ NoRepeats(s) /\ ~ In(x, s) => NoRepeats(Append(s, x))
<1>1. PICK n \in Nat : Len(s) = n /\ DOMAIN s = 1..n
  BY LenProperties
<1>2. /\ Append(s, x) \in Seq(S)
      /\ DOMAIN Append(s, x) = 1..(n + 1)
      /\ Append(s, x)[n + 1] = x
      /\ \A i \in 1..n : Append(s, x)[i] = s[i]
  <2>1. Append(s, x) \in Seq(S) /\ Len(Append(s, x)) = n + 1
    BY <1>1, AppendProperties
  <2>2. DOMAIN Append(s, x) = 1..(n + 1)
    BY <2>1, LenProperties
  <2>3. Append(s, x)[n + 1] = x /\ \A i \in 1..n : Append(s, x)[i] = s[i]
    BY <1>1, AppendProperties
  <2>. QED  BY <2>1, <2>2, <2>3
<1>3. \A i \in 1..(n + 1) : i \in 1..n \/ i = n + 1
  OBVIOUS
<1>4. ASSUME NEW y  PROVE In(y, Append(s, x)) <=> In(y, s) \/ y = x
  <2>1. n + 1 \in 1..(n + 1) /\ 1..n \subseteq 1..(n + 1)
    OBVIOUS
  <2>. QED  BY <1>1, <1>2, <1>3, <2>1, Zenon DEF In
<1>5. ASSUME NoRepeats(s), ~ In(x, s)  PROVE NoRepeats(Append(s, x))
  BY <1>1, <1>2, <1>3, <1>5, Zenon DEF NoRepeats, In
<1>. QED  BY <1>2, <1>4, <1>5

LEMMA TailIn ==
  ASSUME NEW S, NEW s \in Seq(S), s # <<>>
  PROVE  /\ Tail(s) \in Seq(S) /\ Head(s) \in S /\ In(Head(s), s)
         /\ \A y : y # Head(s) => (In(y, Tail(s)) <=> In(y, s))
         /\ NoRepeats(s) => NoRepeats(Tail(s)) /\ ~ In(Head(s), Tail(s))
<1>1. PICK n \in Nat : Len(s) = n /\ DOMAIN s = 1..n /\ n > 0
  BY LenProperties, EmptySeq
<1>2. /\ Tail(s) \in Seq(S)
      /\ Head(s) \in S
      /\ Head(s) = s[1]
      /\ DOMAIN Tail(s) = 1..(n - 1)
      /\ \A i \in 1..(n - 1) : Tail(s)[i] = s[i + 1]
  <2>1. Tail(s) \in Seq(S) /\ Head(s) \in S /\ Head(s) = s[1] /\ Len(Tail(s)) = n - 1
    BY <1>1, HeadTailProperties
  <2>2. DOMAIN Tail(s) = 1..(n - 1)
    BY <2>1, LenProperties
  <2>3. \A i \in 1..(n - 1) : Tail(s)[i] = s[i + 1]
    BY <1>1, <2>1, HeadTailProperties
  <2>. QED  BY <2>1, <2>2, <2>3
<1>3. In(Head(s), s)
  BY <1>1, <1>2 DEF In
<1>4. ASSUME NEW y, y # Head(s)  PROVE In(y, Tail(s)) <=> In(y, s)
  <2>1. ASSUME NEW i \in 1..(n - 1), Tail(s)[i] = y  PROVE In(y, s)
    <3>1. i + 1 \in 1..n /\ s[i + 1] = y
      BY <1>2, <2>1
    <3>. QED  BY <1>1, <3>1 DEF In
  <2>2. ASSUME NEW i \in 1..n, s[i] = y  PROVE In(y, Tail(s))
    <3>1. i # 1
      BY <1>2, <1>4, <2>2
    <3>2. i - 1 \in 1..(n - 1) /\ (i - 1) + 1 = i
      BY <3>1
    <3>3. Tail(s)[i - 1] = y
      BY <1>2, <2>2, <3>2
    <3>. QED  BY <1>2, <3>2, <3>3 DEF In
  <2>. QED  BY <1>1, <1>2, <2>1, <2>2 DEF In
<1>5. ASSUME NoRepeats(s)  PROVE NoRepeats(Tail(s)) /\ ~ In(Head(s), Tail(s))
  <2>1. ASSUME NEW i \in 1..(n - 1), NEW j \in 1..(n - 1), Tail(s)[i] = Tail(s)[j]
        PROVE  i = j
    <3>1. i + 1 \in 1..n /\ j + 1 \in 1..n /\ s[i + 1] = s[j + 1]
      BY <1>2, <2>1
    <3>2. i + 1 = j + 1
      BY <1>1, <1>5, <3>1 DEF NoRepeats
    <3>. QED  BY <3>2
  <2>2. ASSUME NEW i \in 1..(n - 1)  PROVE Tail(s)[i] # Head(s)
    <3>1. i + 1 \in 1..n /\ 1 \in 1..n /\ i + 1 # 1
      BY <1>1
    <3>2. s[i + 1] # s[1]
      BY <1>1, <1>5, <3>1 DEF NoRepeats
    <3>. QED  BY <1>2, <3>2
  <2>. QED  BY <1>2, <2>1, <2>2 DEF NoRepeats, In
<1>. QED  BY <1>2, <1>3, <1>4, <1>5

-----------------------------------------------------------------------------
(* Type correctness.                                                       *)

LEMMA InitType == Init => TypeOK
<1>. SUFFICES ASSUME Init  PROVE TypeOK
  OBVIOUS
<1>1. <<>> \in Seq(Origin \cup {Unblock})
  BY EmptySeq
<1>. QED  BY <1>1, HostAssumption
     DEF Init, TypeOK, Thread, Origin, WorkerPc, MainPc, InContext

(* What a step of thread t to a label of its own leaves of the types.      *)
LEMMA PcType ==
  ASSUME TypeOK, NEW t \in Thread, NEW label,
         t = Main => label \in MainPc, t \in Host => label \in WorkerPc
  PROVE  /\ [pc EXCEPT ![t] = label] \in [Thread -> WorkerPc \cup MainPc]
         /\ [pc EXCEPT ![t] = label][Main] \in MainPc
         /\ \A h \in Host : [pc EXCEPT ![t] = label][h] \in WorkerPc
BY HostAssumption DEF TypeOK, Thread

LEMMA StartHostType ==
  ASSUME TypeOK, NEW t \in Thread, NEW h \in Host, StartHost(t, h)
  PROVE  TypeOK'
<1>1. "check" \in WorkerPc /\ h # Main /\ h \in Thread
  BY HostAssumption DEF WorkerPc, Thread
<1>. QED  BY <1>1, PcType DEF TypeOK, StartHost, Running, work

LEMMA SendType ==
  ASSUME TypeOK, NEW o \in Origin, NEW h \in Host, Send(o, h)
  PROVE  /\ queue' \in [Host -> Seq(Origin \cup {Unblock})]
         /\ waiting' \in [Origin -> Host \cup {None}]
<1>1. Append(queue[h], o) \in Seq(Origin \cup {Unblock})
  BY AppendedIn DEF TypeOK
<1>. QED  BY <1>1 DEF TypeOK, Send

LEMMA CallHostType ==
  ASSUME TypeOK, NEW t \in Thread, NEW h \in Host, CallHost(t, h)
  PROVE  TypeOK'
<1>1. t \in Origin /\ "call" \in MainPc /\ "call" \in WorkerPc
  BY DEF Origin, MainPc, WorkerPc, InContext
<1>. QED  BY <1>1, PcType, SendType DEF TypeOK, CallHost, Goto, context, work

LEMMA ClientSendsType ==
  ASSUME TypeOK, NEW c \in Client, NEW h \in Host, ClientSends(c, h)
  PROVE  TypeOK'
BY SendType DEF TypeOK, ClientSends, context, work, Origin

LEMMA BeginStopType ==
  ASSUME TypeOK, NEW t \in Thread, NEW h \in Host, BeginStop(t, h)
  PROVE  TypeOK'
<1>1. "swap" \in MainPc /\ "swap" \in WorkerPc
  BY DEF MainPc, WorkerPc, InContext
<1>. QED  BY <1>1, PcType DEF TypeOK, BeginStop, Goto, work

LEMMA StoppingType ==
  ASSUME TypeOK, NEW t \in Thread, target[t] \in Host,
         SwapRunning(t) \/ SendUnblock(t) \/ Join(t)
  PROVE  TypeOK'
<1>1. /\ "unblock" \in MainPc /\ "unblock" \in WorkerPc
      /\ "join" \in MainPc /\ "join" \in WorkerPc
      /\ "run" \in MainPc /\ "run" \in WorkerPc /\ "closed" \in WorkerPc
  BY DEF MainPc, WorkerPc, InContext
<1>2. CASE SwapRunning(t)
  BY <1>1, <1>2, PcType DEF TypeOK, SwapRunning, Goto, context, work
<1>3. CASE SendUnblock(t)
  <2>1. Append(queue[target[t]], Unblock) \in Seq(Origin \cup {Unblock})
    BY AppendedIn DEF TypeOK
  <2>. QED  BY <1>1, <1>3, <2>1, PcType DEF TypeOK, SendUnblock, Goto, context, work
<1>4. CASE Join(t)
  <2>1. /\ pc' \in [Thread -> WorkerPc \cup MainPc]
        /\ pc'[Main] \in MainPc /\ \A h \in Host : pc'[h] \in WorkerPc
    BY <1>1, <1>4, HostAssumption DEF TypeOK, Join, Thread
  <2>. QED  BY <1>4, <2>1 DEF TypeOK, Join, context, work
<1>. QED  BY <1>2, <1>3, <1>4

LEMMA DropRequestsType ==
  ASSUME TypeOK, NEW h \in Host, DropRequests(h)
  PROVE  TypeOK'
<1>1. <<>> \in Seq(Origin \cup {Unblock}) /\ "run" \in MainPc /\ "run" \in WorkerPc
  BY EmptySeq DEF MainPc, WorkerPc, InContext
<1>2. /\ pc' \in [Thread -> WorkerPc \cup MainPc]
      /\ pc'[Main] \in MainPc /\ \A g \in Host : pc'[g] \in WorkerPc
  BY <1>1 DEF TypeOK, DropRequests, Thread
<1>3. waiting' \in [Origin -> Host \cup {None}]
  BY DEF TypeOK, DropRequests
<1>4. queue' \in [Host -> Seq(Origin \cup {Unblock})]
  BY <1>1 DEF TypeOK, DropRequests
<1>. QED  BY <1>2, <1>3, <1>4 DEF TypeOK, DropRequests, context, work

LEMMA EndType ==
  ASSUME TypeOK,
         \/ \E h \in Host : EndHandler(h) \/ HandlerDropped(h)
         \/ EndComposition \/ CtrlC \/ EndServing \/ MainDropped
  PROVE  TypeOK'
<1>1. /\ {"run", "sleep", "done"} \subseteq MainPc /\ "reply" \in WorkerPc
      /\ Main \in Thread /\ Main \notin Host
  BY HostAssumption DEF MainPc, WorkerPc, InContext, Thread
<1>2. ASSUME NEW h \in Host, EndHandler(h)  PROVE TypeOK'
  BY <1>2 DEF TypeOK, EndHandler, work
<1>3. ASSUME NEW h \in Host, HandlerDropped(h)  PROVE TypeOK'
  <2>1. h \in Thread /\ h # Main
    BY HostAssumption DEF Thread
  <2>. QED  BY <1>1, <1>3, <2>1, PcType DEF TypeOK, HandlerDropped, Goto, context, work
<1>4. CASE EndComposition
  <2>1. CASE Goto(Main, "sleep") /\ UNCHANGED ending
    BY <1>1, <1>4, <2>1, PcType DEF TypeOK, EndComposition, Goto, work
  <2>2. CASE ending' = [ending EXCEPT ![Main] = TRUE] /\ UNCHANGED pc
    BY <1>1, <1>4, <2>2 DEF TypeOK, EndComposition, work
  <2>. QED  BY <1>4, <2>1, <2>2 DEF EndComposition
<1>5. CASE CtrlC
  BY <1>5 DEF TypeOK, CtrlC, context, work
<1>6. CASE EndServing
  BY <1>1, <1>6, PcType DEF TypeOK, EndServing, Goto, work
<1>7. CASE MainDropped
  BY <1>1, <1>7, PcType DEF TypeOK, MainDropped, Goto, context, work
<1>. QED  BY <1>2, <1>3, <1>4, <1>5, <1>6, <1>7

LEMMA WorkerType ==
  ASSUME TypeOK, NEW h \in Host,
         pc[h] = "reply" => serving[h] \in Origin,
         CheckRunning(h) \/ ReceiveToken(h) \/ ReceiveRequest(h) \/ Respond(h)
  PROVE  TypeOK'
<1>1. /\ {"recv", "exited", "check", "run", "reply"} \subseteq WorkerPc
      /\ "run" \in MainPc /\ h \in Thread /\ h # Main
  BY HostAssumption DEF MainPc, WorkerPc, InContext, Thread
<1>2. CASE CheckRunning(h)
  BY <1>1, <1>2, PcType DEF TypeOK, CheckRunning, Goto, context, work
<1>3. queue[h] # <<>> => /\ Tail(queue[h]) \in Seq(Origin \cup {Unblock})
                         /\ Head(queue[h]) \in Origin \cup {Unblock}
  BY TailIn DEF TypeOK
<1>4. CASE ReceiveToken(h)
  BY <1>1, <1>3, <1>4, PcType DEF TypeOK, ReceiveToken, Goto, context, work
<1>5. CASE ReceiveRequest(h)
  <2>1. late' \in [Host -> Nat]
    BY <1>5 DEF TypeOK, ReceiveRequest
  <2>2. queue' \in [Host -> Seq(Origin \cup {Unblock})] /\ serving' \in [Host -> Origin \cup {None}]
    BY <1>3, <1>5 DEF TypeOK, ReceiveRequest
  <2>3. PICK label \in {"reply", "run"} : pc' = [pc EXCEPT ![h] = label]
    BY <1>5 DEF ReceiveRequest, Goto
  <2>4. /\ pc' \in [Thread -> WorkerPc \cup MainPc]
        /\ pc'[Main] \in MainPc /\ \A g \in Host : pc'[g] \in WorkerPc
    BY <1>1, <2>3, PcType
  <2>5. ending' \in [Thread -> BOOLEAN]
    BY <1>5 DEF TypeOK, ReceiveRequest
  <2>. QED  BY <1>5, <2>1, <2>2, <2>4, <2>5 DEF TypeOK, ReceiveRequest
<1>6. CASE Respond(h)
  <2>1. /\ pc' \in [Thread -> WorkerPc \cup MainPc]
        /\ pc'[Main] \in MainPc /\ \A g \in Host : pc'[g] \in WorkerPc
    BY <1>1, <1>6 DEF TypeOK, Respond, Thread
  <2>2. waiting' \in [Origin -> Host \cup {None}] /\ serving' \in [Host -> Origin \cup {None}]
    BY <1>6 DEF TypeOK, Respond
  <2>. QED  BY <1>6, <2>1, <2>2 DEF TypeOK, Respond, context
<1>. QED  BY <1>2, <1>4, <1>5, <1>6

-----------------------------------------------------------------------------
(* The invariant.                                                          *)

Stops == {"swap", "unblock", "join"}

(* The hosts of a context are in its manager, or being stopped by it.      *)
Managed ==
  \A t \in Thread :
    /\ target[t] # None <=> pc[t] \in Stops
    /\ target[t] # None => owner[target[t]] = t /\ Listening(target[t])
    /\ \A h \in managed[t] : owner[h] = t /\ running[h] /\ target[t] # h
    /\ managed[t] # {} => pc[t] \in InContext \cup {"sleep"}

Owned ==
  \A h \in Host :
    /\ owner[h] = None <=> pc[h] = "off"
    /\ Listening(h) => h \in managed[owner[h]] \/ target[owner[h]] = h
    /\ running[h] => Listening(h) /\ pc[h] # "exited"

(* The flag is cleared on the way from swap to unblock.                    *)
Flagged ==
  \A t \in Thread :
    /\ pc[t] = "swap" => running[target[t]]
    /\ pc[t] \in {"unblock", "join"} => ~ running[target[t]]

(* A worker that is at a handler or about to answer has a request.         *)
Busy ==
  /\ \A h \in Host : serving[h] # None <=> pc[h] \in InContext \cup {"reply"}
  /\ \A t \in Thread : waiting[t] # None <=> pc[t] = "call"

(* There is a token in the queue from the time it was sent.                *)
Tokens ==
  /\ \A h \in Host : In(Unblock, queue[h]) => ~ running[h] /\ pc[h] # "off"
  /\ \A t \in Thread : pc[t] = "unblock" => ~ In(Unblock, queue[target[t]])

Late ==
  \A h \in Host :
    /\ late[h] <= 1
    /\ late[h] = 1 => ~ running[h] /\ pc[h] \notin {"off", "recv"}

Structure == TypeOK /\ Managed /\ Owned /\ Flagged /\ Busy

IInv == Structure /\ Tokens /\ RequestsAccounted /\ WakesUp /\ Late

LEMMA InitInv == Init => IInv
<1>. SUFFICES ASSUME Init  PROVE IInv
  OBVIOUS
<1>1. DOMAIN <<>> = {}
  BY EmptySeq
<1>2. \A x : ~ In(x, <<>>)
  BY <1>1 DEF In
<1>3. NoRepeats(<<>>)
  BY <1>1 DEF NoRepeats
<1>4. Managed /\ Owned /\ Flagged /\ Busy
  BY HostAssumption
     DEF Init, Managed, Owned, Flagged, Busy, Stops, InContext, Listening, Thread, Origin
<1>5. RequestsAccounted /\ WakesUp /\ Late
  <2>1. \A h \in Host : queue[h] = <<>> /\ serving[h] = None /\ late[h] = 0
    BY DEF Init
  <2>2. \A o \in Origin : waiting[o] = None /\ o # None
    BY HostAssumption DEF Init
  <2>3. RequestsAccounted
    <3>1. None \notin Host
      BY HostAssumption DEF Origin, Thread
    <3>. QED  BY <1>2, <1>3, <2>1, <2>2, <3>1 DEF RequestsAccounted
  <2>4. WakesUp /\ Late
    BY <2>1 DEF Init, WakesUp, Late
  <2>. QED  BY <2>3, <2>4
<1>6. Tokens
  <2>1. \A h \in Host : ~ In(Unblock, queue[h])
    BY <1>2 DEF Init
  <2>2. \A t \in Thread : pc[t] # "unblock"
    BY DEF Init
  <2>. QED  BY <2>1, <2>2 DEF Tokens
<1>. QED  BY <1>4, <1>5, <1>6, InitType DEF IInv, Structure

(* Structure is kept; an answer goes to an origin that waits for it.       *)
LEMMA StructureStep ==
  ASSUME Structure, RequestsAccounted, [Next]_vars
  PROVE  Structure'
<1>1. TypeOK /\ Managed /\ Owned /\ Flagged /\ Busy
  BY DEF Structure
<1>2. /\ Main \in Thread /\ Main \notin Host /\ None \notin Host /\ None \notin Thread
      /\ Host \subseteq Thread /\ Thread \subseteq Origin /\ Client \subseteq Origin
      /\ Client \cap Thread = {} /\ None \notin Origin
  BY HostAssumption DEF Thread, Origin
<1>3. ASSUME NEW t \in Thread, NEW h \in Host, StartHost(t, h)
      PROVE  Structure'
  <2>1. TypeOK'
    BY <1>1, <1>3, StartHostType
  <2>2. Managed'
    BY <1>1, <1>2, <1>3 DEF TypeOK, Managed, Owned, StartHost, Running, Stops, InContext, Listening
  <2>3. Owned'
    BY <1>1, <1>2, <1>3 DEF TypeOK, Managed, Owned, StartHost, Running, Stops, InContext, Listening
  <2>4. Flagged'
    BY <1>1, <1>2, <1>3 DEF TypeOK, Managed, Owned, Flagged, StartHost, Running, Stops, Listening
  <2>5. Busy'
    BY <1>1, <1>2, <1>3 DEF TypeOK, Busy, StartHost, Running, InContext, work
  <2>. QED  BY <2>1, <2>2, <2>3, <2>4, <2>5 DEF Structure
<1>4. ASSUME NEW t \in Thread, NEW h \in Host, CallHost(t, h)
      PROVE  Structure'
  <2>1. TypeOK'
    BY <1>1, <1>4, CallHostType
  <2>2. Managed'
    BY <1>1, <1>2, <1>4 DEF TypeOK, Managed, Owned, CallHost, Goto, Running, Stops, InContext, Listening, context
  <2>3. Owned'
    BY <1>1, <1>2, <1>4 DEF TypeOK, Managed, Owned, CallHost, Goto, Running, Stops, InContext, Listening, context
  <2>4. Flagged'
    BY <1>1, <1>2, <1>4 DEF TypeOK, Managed, Owned, Flagged, CallHost, Goto, Running, Stops, Listening, context
  <2>5. Busy'
    BY <1>1, <1>2, <1>4 DEF TypeOK, Busy, CallHost, Send, Goto, Running, InContext, work
  <2>. QED  BY <2>1, <2>2, <2>3, <2>4, <2>5 DEF Structure
<1>5. ASSUME NEW c \in Client, NEW h \in Host, ClientSends(c, h)
      PROVE  Structure'
  <2>1. TypeOK'
    BY <1>1, <1>5, ClientSendsType
  <2>2. Managed' /\ Owned' /\ Flagged'
    BY <1>1, <1>2, <1>5 DEF Managed, Owned, Flagged, ClientSends, Listening, context
  <2>5. Busy'
    BY <1>1, <1>2, <1>5 DEF TypeOK, Busy, ClientSends, Send, work
  <2>. QED  BY <2>1, <2>2, <2>5 DEF Structure
<1>6. ASSUME NEW t \in Thread, NEW h \in Host, BeginStop(t, h)
      PROVE  Structure'
  <2>1. TypeOK'
    BY <1>1, <1>6, BeginStopType
  <2>2. Managed'
    <3>1. owner[h] = t /\ running[h] /\ Listening(h)
      BY <1>1, <1>6 DEF Managed, Owned, BeginStop
    <3>2. /\ \A u \in Thread : u # t => /\ target'[u] = target[u] /\ pc'[u] = pc[u]
                                       /\ managed'[u] = managed[u]
          /\ target'[t] = h /\ pc'[t] = "swap" /\ managed'[t] = managed[t] \ {h}
          /\ UNCHANGED <<owner, running>>
      BY <1>1, <1>6 DEF TypeOK, BeginStop, Goto
    <3>3. \A g \in Host : Listening(g) => Listening(g)'
      BY <1>2, <1>6, <3>2 DEF Listening, BeginStop
    <3>. QED  BY <1>1, <1>2, <3>1, <3>2, <3>3 DEF TypeOK, Managed, Stops, InContext
  <2>3. Owned'
    <3>1. /\ \A u \in Thread : u # t => /\ target'[u] = target[u] /\ pc'[u] = pc[u]
                                       /\ managed'[u] = managed[u]
          /\ target'[t] = h /\ pc'[t] = "swap" /\ managed'[t] = managed[t] \ {h}
          /\ UNCHANGED <<owner, running>>
      BY <1>1, <1>6 DEF TypeOK, BeginStop, Goto
    <3>2. target[t] = None /\ pc[t] = "run"
      BY <1>1, <1>6 DEF TypeOK, Managed, BeginStop, Stops
    <3>3. \A g \in Host : Listening(g) <=> Listening(g)'
      BY <1>2, <1>6, <3>1 DEF Listening, BeginStop
    <3>4. \A g \in Host : /\ pc'[g] = "off" <=> pc[g] = "off"
                          /\ pc'[g] = "exited" <=> pc[g] = "exited"
      BY <1>2, <3>1, <3>2
    <3>5. \A g \in Host : Listening(g) => owner[g] \in Thread
      BY <1>1 DEF TypeOK, Owned, Listening
    <3>6. \A g \in Host : Listening(g) => g \in managed'[owner[g]] \/ target'[owner[g]] = g
      BY <1>1, <1>2, <3>1, <3>2, <3>5 DEF Owned
    <3>. QED  BY <1>1, <3>1, <3>3, <3>4, <3>6 DEF Owned
  <2>4. Flagged'
    BY <1>1, <1>2, <1>6 DEF TypeOK, Managed, Owned, Flagged, BeginStop, Goto, Stops, Listening
  <2>5. Busy'
    BY <1>1, <1>2, <1>6 DEF TypeOK, Busy, BeginStop, Goto, InContext, work
  <2>. QED  BY <2>1, <2>2, <2>3, <2>4, <2>5 DEF Structure
<1>7. ASSUME NEW t \in Thread, SwapRunning(t) \/ SendUnblock(t) \/ Join(t)
      PROVE  Structure'
  <2>0. target[t] \in Host /\ owner[target[t]] = t
    BY <1>1, <1>7 DEF TypeOK, Managed, Stops, SwapRunning, SendUnblock, Join
  <2>1. TypeOK'
    BY <1>1, <1>7, <2>0, StoppingType
  <2>2. CASE SwapRunning(t)
    <3>1. Managed'
      BY <1>1, <1>2, <2>0, <2>2 DEF TypeOK, Managed, SwapRunning, Goto, Stops, InContext, Listening, context
    <3>2. Owned'
      BY <1>1, <1>2, <2>0, <2>2 DEF TypeOK, Managed, Owned, SwapRunning, Goto, Stops, InContext, Listening, context
    <3>3. Flagged'
      BY <1>1, <1>2, <2>0, <2>2 DEF TypeOK, Managed, Owned, Flagged, SwapRunning, Goto, Stops, Listening, context
    <3>4. Busy'
      BY <1>1, <1>2, <2>0, <2>2 DEF TypeOK, Busy, SwapRunning, Goto, InContext, work
    <3>. QED  BY <2>1, <3>1, <3>2, <3>3, <3>4 DEF Structure
  <2>3. CASE SendUnblock(t)
    <3>1. Managed'
      BY <1>1, <1>2, <2>0, <2>3 DEF TypeOK, Managed, SendUnblock, Goto, Stops, InContext, Listening, context
    <3>2. Owned'
      BY <1>1, <1>2, <2>0, <2>3 DEF TypeOK, Managed, Owned, SendUnblock, Goto, Stops, InContext, Listening, context
    <3>3. Flagged'
      BY <1>1, <1>2, <2>0, <2>3 DEF TypeOK, Managed, Owned, Flagged, SendUnblock, Goto, Stops, Listening, context
    <3>4. Busy'
      BY <1>1, <1>2, <2>0, <2>3 DEF TypeOK, Busy, SendUnblock, Goto, InContext, work
    <3>. QED  BY <2>1, <3>1, <3>2, <3>3, <3>4 DEF Structure
  <2>4. CASE Join(t)
    <3>0. pc[target[t]] = "exited" /\ target[t] # t
      BY <2>4 DEF Join
    <3>1. Managed'
      BY <1>1, <1>2, <2>0, <2>4, <3>0 DEF TypeOK, Managed, Owned, Join, Stops, InContext, Listening, context
    <3>2. Owned'
      BY <1>1, <1>2, <2>0, <2>4, <3>0 DEF TypeOK, Managed, Owned, Join, Stops, InContext, Listening, context
    <3>3. Flagged'
      BY <1>1, <1>2, <2>0, <2>4, <3>0 DEF TypeOK, Managed, Owned, Flagged, Join, Stops, Listening, context
    <3>4. Busy'
      BY <1>1, <1>2, <2>0, <2>4, <3>0 DEF TypeOK, Busy, Join, InContext, work
    <3>. QED  BY <2>1, <3>1, <3>2, <3>3, <3>4 DEF Structure
  <2>. QED  BY <1>7, <2>2, <2>3, <2>4
<1>8. ASSUME NEW h \in Host, DropRequests(h)
      PROVE  Structure'
  <2>1. TypeOK'
    BY <1>1, <1>8, DropRequestsType
  <2>2. \A t \in Thread : \/ pc'[t] = pc[t] /\ waiting'[t] = waiting[t]
                          \/ pc[t] = "call" /\ pc'[t] = "run" /\ waiting[t] # None /\ waiting'[t] = None
    BY <1>1, <1>2, <1>8 DEF DropRequests, Busy, TypeOK
  <2>3. /\ UNCHANGED <<target, managed, owner, running, serving>>
        /\ \A g \in Host : (Listening(g) <=> Listening(g)') /\ (pc[g] = "off" <=> pc'[g] = "off")
                          /\ (pc[g] = "exited" <=> pc'[g] = "exited")
    BY <1>2, <1>8, <2>2 DEF DropRequests, Listening, context, work
  <2>4. Managed'
    BY <1>1, <1>2, <2>2, <2>3 DEF TypeOK, Managed, Stops, InContext
  <2>5. Owned'
    BY <1>1, <2>3 DEF Owned
  <2>6. Flagged'
    BY <1>1, <2>2, <2>3 DEF Flagged
  <2>7. Busy'
    BY <1>1, <1>2, <2>2, <2>3 DEF Busy, InContext
  <2>. QED  BY <2>1, <2>4, <2>5, <2>6, <2>7 DEF Structure
<1>9. ASSUME NEW h \in Host, EndHandler(h) \/ HandlerDropped(h)
      PROVE  Structure'
  <2>1. TypeOK'
    BY <1>1, <1>9, EndType
  <2>2. CASE EndHandler(h)
    BY <1>1, <2>1, <2>2 DEF Structure, Managed, Owned, Flagged, Busy, Listening, EndHandler, work
  <2>3. CASE HandlerDropped(h)
    <3>1. Managed'
      BY <1>1, <1>2, <2>3 DEF TypeOK, Managed, HandlerDropped, Goto, Stops, InContext, Listening, context
    <3>2. Owned' /\ Flagged'
      BY <1>1, <1>2, <2>3
         DEF TypeOK, Owned, Flagged, HandlerDropped, Goto, Listening, context
    <3>3. Busy'
      BY <1>1, <1>2, <2>3 DEF TypeOK, Busy, HandlerDropped, Goto, InContext, work
    <3>. QED  BY <2>1, <3>1, <3>2, <3>3 DEF Structure
  <2>. QED  BY <1>9, <2>2, <2>3
<1>10. ASSUME EndComposition \/ CtrlC \/ EndServing \/ MainDropped
       PROVE  Structure'
  <2>1. TypeOK'
    BY <1>1, <1>10, EndType
  <2>2. /\ UNCHANGED <<target, managed, owner, running, serving, waiting>>
        /\ \/ UNCHANGED pc
           \/ pc[Main] = "run" /\ pc' = [pc EXCEPT ![Main] = "sleep"]
           \/ pc[Main] = "sleep" /\ pc' = [pc EXCEPT ![Main] = "run"]
           \/ pc[Main] = "run" /\ managed[Main] = {} /\ pc' = [pc EXCEPT ![Main] = "done"]
    BY <1>10 DEF EndComposition, CtrlC, EndServing, MainDropped, Running, Goto, context, work
  <2>3. \A h \in Host : pc'[h] = pc[h]
    BY <1>1, <1>2, <2>2 DEF TypeOK
  <2>4. Managed'
    BY <1>1, <1>2, <2>2, <2>3 DEF TypeOK, Managed, Stops, InContext, Listening
  <2>5. Owned'
    BY <1>1, <2>2, <2>3 DEF Owned, Listening
  <2>6. Flagged'
    BY <1>1, <1>2, <2>2, <2>3 DEF TypeOK, Flagged
  <2>7. Busy'
    BY <1>1, <1>2, <2>2, <2>3 DEF TypeOK, Busy
  <2>. QED  BY <2>1, <2>4, <2>5, <2>6, <2>7 DEF Structure
<1>11. ASSUME NEW h \in Host,
              CheckRunning(h) \/ ReceiveToken(h) \/ ReceiveRequest(h) \/ Respond(h)
       PROVE  Structure'
  <2>0. pc[h] = "reply" => serving[h] \in Origin /\ waiting[serving[h]] = h
    BY <1>1 DEF TypeOK, Busy, RequestsAccounted
  <2>1. TypeOK'
    BY <1>1, <1>11, <2>0, WorkerType
  <2>2. CASE CheckRunning(h)
    <3>1. Managed'
      BY <1>1, <1>2, <2>2 DEF TypeOK, Managed, CheckRunning, Goto, Stops, InContext, Listening, context
    <3>2. Owned' /\ Flagged'
      BY <1>1, <1>2, <2>2 DEF TypeOK, Owned, Flagged, CheckRunning, Goto, Listening, context
    <3>3. Busy'
      BY <1>1, <1>2, <2>2 DEF TypeOK, Busy, CheckRunning, Goto, InContext, work
    <3>. QED  BY <2>1, <3>1, <3>2, <3>3 DEF Structure
  <2>3. CASE ReceiveToken(h)
    <3>1. Managed'
      BY <1>1, <1>2, <2>3 DEF TypeOK, Managed, ReceiveToken, Goto, Stops, InContext, Listening, context
    <3>2. Owned' /\ Flagged'
      BY <1>1, <1>2, <2>3 DEF TypeOK, Owned, Flagged, ReceiveToken, Goto, Listening, context
    <3>3. Busy'
      BY <1>1, <1>2, <2>3 DEF TypeOK, Busy, ReceiveToken, Goto, InContext, work
    <3>. QED  BY <2>1, <3>1, <3>2, <3>3 DEF Structure
  <2>4. CASE ReceiveRequest(h)
    <3>0. PICK label \in {"reply", "run"} : pc' = [pc EXCEPT ![h] = label]
      BY <2>4 DEF ReceiveRequest, Goto
    <3>1. Managed'
      BY <1>1, <1>2, <2>4, <3>0 DEF TypeOK, Managed, ReceiveRequest, Stops, InContext, Listening
    <3>2. Owned' /\ Flagged'
      BY <1>1, <1>2, <2>4, <3>0 DEF TypeOK, Owned, Flagged, ReceiveRequest, Listening
    <3>3. Head(queue[h]) # None
      BY <1>1, <2>4, TailIn, HostAssumption DEF TypeOK, ReceiveRequest
    <3>4. Busy'
      BY <1>1, <1>2, <2>4, <3>0, <3>3 DEF TypeOK, Busy, ReceiveRequest, InContext
    <3>. QED  BY <2>1, <3>1, <3>2, <3>4 DEF Structure
  <2>5. CASE Respond(h)
    <3>0. serving[h] \in Thread => pc[serving[h]] = "call" /\ serving[h] # h
      BY <1>1, <1>2, <2>0, <2>5 DEF Busy, Respond
    <3>1. /\ UNCHANGED <<target, managed, owner, running>>
          /\ \A t \in Thread : \/ pc'[t] = pc[t]
                               \/ t = h /\ pc[t] = "reply" /\ pc'[t] = "check"
                               \/ t = serving[h] /\ pc[t] = "call" /\ pc'[t] = "run"
      BY <2>5, <3>0 DEF Respond, context
    <3>2. Managed'
      <4>1. \A g \in Host : Listening(g) => Listening(g)'
        BY <1>2, <3>1 DEF Listening
      <4>2. \A t \in Thread : /\ pc[t] \in Stops <=> pc'[t] \in Stops
                              /\ pc[t] \in InContext \cup {"sleep"}
                                   => pc'[t] \in InContext \cup {"sleep"}
        BY <3>1 DEF Stops, InContext
      <4>. QED  BY <1>1, <1>2, <3>1, <4>1, <4>2 DEF TypeOK, Managed
    <3>3. Owned'
      BY <1>1, <1>2, <3>1 DEF TypeOK, Owned, Listening
    <3>4. Flagged'
      BY <1>1, <1>2, <3>1 DEF TypeOK, Flagged
    <3>5. Busy'
      <4>1. \A g \in Host : serving'[g] # None <=> pc'[g] \in InContext \cup {"reply"}
        BY <1>1, <1>2, <2>5, <3>0 DEF TypeOK, Busy, Respond, InContext
      <4>2. \A t \in Thread : waiting'[t] # None <=> pc'[t] = "call"
        BY <1>1, <1>2, <2>0, <2>5, <3>0 DEF TypeOK, Busy, Respond
      <4>. QED  BY <4>1, <4>2 DEF Busy
    <3>. QED  BY <2>1, <3>2, <3>3, <3>4, <3>5 DEF Structure
  <2>. QED  BY <1>11, <2>2, <2>3, <2>4, <2>5
<1>12. CASE UNCHANGED vars
  BY <1>1, <1>12 DEF Structure, TypeOK, Managed, Owned, Flagged, Busy, Listening, vars, context, work
<1>. QED
  BY <1>2, <1>3, <1>4, <1>5, <1>6, <1>7, <1>8, <1>9, <1>10, <1>11, <1>12
     DEF Next, Serving, Ending, Choice, Stopping, Terminating

(* A token is sent only to a host whose flag is cleared, and once.         *)
LEMMA TokensStep ==
  ASSUME IInv, [Next]_vars
  PROVE  Tokens'
<1>1. TypeOK /\ Managed /\ Owned /\ Flagged /\ Tokens
  BY DEF IInv, Structure
<1>2. /\ Main \in Thread /\ Main \notin Host /\ None \notin Host /\ Host \subseteq Thread
      /\ Thread \subseteq Origin /\ Client \subseteq Origin /\ Unblock \notin Origin
  BY HostAssumption DEF Thread, Origin
<1>3. \A t \in Thread : pc[t] \in Stops => target[t] \in Host /\ Listening(target[t])
  BY <1>1 DEF TypeOK, Managed
<1>4. \A t, u \in Thread : target[t] # None /\ target[t] = target[u] => t = u
  BY <1>1 DEF Managed
<1>5. ASSUME NEW t \in Thread, NEW h \in Host, StartHost(t, h)
      PROVE  Tokens'
  BY <1>1, <1>2, <1>5 DEF TypeOK, Tokens, StartHost, Running
<1>6. ASSUME NEW o \in Origin, NEW h \in Host, Send(o, h)
      PROVE  \A g \in Host : In(Unblock, queue'[g]) <=> In(Unblock, queue[g])
  <2>1. queue[h] \in Seq(Origin \cup {Unblock}) /\ o \in Origin \cup {Unblock} /\ o # Unblock
    BY <1>1, <1>2, <1>6 DEF TypeOK
  <2>2. In(Unblock, Append(queue[h], o)) <=> In(Unblock, queue[h])
    BY <2>1, AppendedIn
  <2>. QED  BY <1>1, <1>6, <2>2 DEF TypeOK, Send
<1>7. ASSUME NEW t \in Thread, NEW h \in Host, CallHost(t, h)
      PROVE  Tokens'
  <2>1. \A g \in Host : In(Unblock, queue'[g]) <=> In(Unblock, queue[g])
    BY <1>2, <1>6, <1>7 DEF CallHost
  <2>2. /\ UNCHANGED <<target, running>>
        /\ \A u \in Thread : /\ pc'[u] = "unblock" => pc[u] = "unblock"
                             /\ pc'[u] = "off" => pc[u] = "off"
    BY <1>1, <1>7 DEF TypeOK, CallHost, Goto, Running
  <2>. QED  BY <1>1, <1>2, <1>3, <2>1, <2>2 DEF Tokens, Stops
<1>8. ASSUME NEW c \in Client, NEW h \in Host, ClientSends(c, h)
      PROVE  Tokens'
  <2>1. \A g \in Host : In(Unblock, queue'[g]) <=> In(Unblock, queue[g])
    BY <1>2, <1>6, <1>8 DEF ClientSends
  <2>. QED  BY <1>1, <1>3, <1>8, <2>1 DEF Tokens, Stops, ClientSends
<1>9. ASSUME NEW t \in Thread, SwapRunning(t)
      PROVE  Tokens'
  BY <1>1, <1>2, <1>3, <1>4, <1>9 DEF TypeOK, Tokens, Flagged, Stops, SwapRunning, Goto
<1>10. ASSUME NEW t \in Thread, SendUnblock(t)
       PROVE  Tokens'
  <2>1. target[t] \in Host /\ Listening(target[t]) /\ ~ running[target[t]]
    BY <1>1, <1>3, <1>10 DEF Flagged, Stops, SendUnblock
  <2>2. \A g \in Host : g # target[t] => queue'[g] = queue[g]
    BY <1>1, <1>10 DEF TypeOK, SendUnblock
  <2>3. /\ UNCHANGED <<target, running>>
        /\ pc'[t] = "join" /\ \A u \in Thread : u # t => pc'[u] = pc[u]
    BY <1>1, <1>10 DEF TypeOK, SendUnblock, Goto
  <2>4. \A h \in Host : In(Unblock, queue'[h]) => ~ running'[h] /\ pc'[h] # "off"
    BY <1>1, <1>2, <2>1, <2>2, <2>3 DEF Tokens, Listening
  <2>5. ASSUME NEW u \in Thread, pc'[u] = "unblock"  PROVE ~ In(Unblock, queue'[target[u]])
    <3>1. u # t /\ pc[u] = "unblock"
      BY <2>3, <2>5
    <3>2. target[u] \in Host /\ target[u] # target[t]
      BY <1>2, <1>3, <1>4, <2>1, <3>1 DEF Stops
    <3>. QED  BY <1>1, <2>2, <3>1, <3>2 DEF Tokens
  <2>. QED  BY <2>3, <2>4, <2>5 DEF Tokens
<1>11. ASSUME NEW t \in Thread, NEW h \in Host, BeginStop(t, h)
       PROVE  Tokens'
  BY <1>1, <1>2, <1>3, <1>11 DEF TypeOK, Tokens, BeginStop, Goto
<1>12. ASSUME NEW t \in Thread, Join(t)
       PROVE  Tokens'
  BY <1>1, <1>2, <1>3, <1>12 DEF TypeOK, Tokens, Stops, Join
<1>13. ASSUME NEW h \in Host, DropRequests(h)
       PROVE  Tokens'
  <2>1. \A x : ~ In(x, <<>>)
    BY EmptySeq DEF In
  <2>2. \A g \in Host : In(Unblock, queue'[g]) => In(Unblock, queue[g])
    BY <1>1, <1>13, <2>1 DEF TypeOK, DropRequests
  <2>3. /\ UNCHANGED <<target, running>>
        /\ \A u \in Thread : pc'[u] = pc[u] \/ pc'[u] = "run"
    BY <1>13 DEF DropRequests
  <2>. QED  BY <1>1, <1>2, <1>3, <2>2, <2>3 DEF Tokens, Stops
<1>14. ASSUME NEW h \in Host, ReceiveToken(h) \/ ReceiveRequest(h)
       PROVE  Tokens'
  <2>1. PICK label \in {"check", "reply", "run"} : pc' = [pc EXCEPT ![h] = label]
    BY <1>14 DEF ReceiveToken, ReceiveRequest, Goto
  <2>2. queue[h] # <<>> /\ queue' = [queue EXCEPT ![h] = Tail(@)]
    BY <1>14 DEF ReceiveToken, ReceiveRequest
  <2>3. queue[h] \in Seq(Origin \cup {Unblock})
    BY <1>1 DEF TypeOK
  <2>4. In(Unblock, Tail(queue[h])) => In(Unblock, queue[h])
    BY <2>2, <2>3, TailIn
  <2>5. \A g \in Host : In(Unblock, queue'[g]) => In(Unblock, queue[g])
    BY <1>1, <2>2, <2>4 DEF TypeOK
  <2>6. /\ UNCHANGED <<target, running>>
        /\ \A u \in Thread : pc'[u] = pc[u] \/ pc'[u] \in {"check", "reply", "run"}
    BY <1>1, <1>14, <2>1 DEF TypeOK, ReceiveToken, ReceiveRequest
  <2>. QED  BY <1>1, <1>2, <1>3, <2>5, <2>6 DEF Tokens, Stops
<1>15. ASSUME NEW h \in Host,
              CheckRunning(h) \/ Respond(h) \/ EndHandler(h) \/ HandlerDropped(h)
       PROVE  Tokens'
  <2>1. /\ UNCHANGED <<target, running, queue>>
        /\ \A u \in Thread : pc'[u] = pc[u] \/ pc'[u] \in {"recv", "exited", "check", "run", "reply"}
    BY <1>1, <1>15 DEF TypeOK, CheckRunning, Respond, EndHandler, HandlerDropped, Goto, context
  <2>. QED  BY <1>1, <1>2, <1>3, <2>1 DEF Tokens, Stops
<1>16. ASSUME EndComposition \/ CtrlC \/ EndServing \/ MainDropped
       PROVE  Tokens'
  <2>1. /\ UNCHANGED <<target, running, queue>>
        /\ \A u \in Thread : pc'[u] = pc[u] \/ pc'[u] \in {"sleep", "run", "done"}
    BY <1>1, <1>16 DEF TypeOK, EndComposition, CtrlC, EndServing, MainDropped, Goto, context
  <2>. QED  BY <1>1, <1>2, <1>3, <2>1 DEF Tokens, Stops
<1>17. CASE UNCHANGED vars
  BY <1>1, <1>3, <1>17 DEF Tokens, vars
<1>. QED
  BY <1>2, <1>5, <1>7, <1>8, <1>9, <1>10, <1>11, <1>12, <1>13, <1>14, <1>15, <1>16, <1>17
     DEF Next, Serving, Ending, Choice, Stopping, Terminating

-----------------------------------------------------------------------------
(* Requests, wake-ups and late requests.                                   *)

(* A request that is sent is in the queue of its host, and nowhere else.   *)
LEMMA SendAccounted ==
  ASSUME TypeOK, RequestsAccounted, NEW o \in Origin, NEW h \in Host, Send(o, h),
         UNCHANGED serving
  PROVE  RequestsAccounted'
<1>1. queue[h] \in Seq(Origin \cup {Unblock}) /\ o # None /\ None \notin Host
  BY HostAssumption DEF TypeOK, Origin, Thread
<1>2. ~ In(o, queue[h]) /\ serving[h] # o
  BY HostAssumption DEF RequestsAccounted, Send, Origin, Thread
<1>3. /\ \A y : In(y, Append(queue[h], o)) <=> In(y, queue[h]) \/ y = o
      /\ NoRepeats(Append(queue[h], o))
  BY <1>1, <1>2, AppendedIn DEF RequestsAccounted
<1>4. /\ queue'[h] = Append(queue[h], o) /\ \A g \in Host \ {h} : queue'[g] = queue[g]
      /\ waiting'[o] = h /\ \A p \in Origin \ {o} : waiting'[p] = waiting[p]
      /\ waiting[o] = None
  BY DEF TypeOK, Send
<1>5. ASSUME NEW g \in Host, g # h  PROVE /\ \A p \in Origin : waiting'[p] = g <=> In(p, queue'[g]) \/ serving'[g] = p
                                          /\ NoRepeats(queue'[g])
                                          /\ serving'[g] # None => ~ In(serving'[g], queue'[g])
  BY <1>1, <1>4, <1>5 DEF RequestsAccounted
<1>6. /\ \A p \in Origin : waiting'[p] = h <=> In(p, queue'[h]) \/ serving'[h] = p
      /\ NoRepeats(queue'[h])
      /\ serving'[h] # None => ~ In(serving'[h], queue'[h])
  BY <1>2, <1>3, <1>4 DEF RequestsAccounted
<1>. QED  BY <1>5, <1>6 DEF RequestsAccounted

LEMMA RequestsAccountedStep ==
  ASSUME IInv, [Next]_vars
  PROVE  RequestsAccounted'
<1>1. TypeOK /\ Managed /\ Busy /\ Tokens /\ RequestsAccounted
  BY DEF IInv, Structure
<1>2. /\ None \notin Host /\ Thread \subseteq Origin /\ Client \subseteq Origin
      /\ Unblock \notin Origin /\ None \notin Origin \cup {Unblock}
  BY HostAssumption DEF Thread, Origin
<1>3. ASSUME UNCHANGED <<queue, serving, waiting>>
      PROVE  RequestsAccounted'
  BY <1>1, <1>3 DEF RequestsAccounted
<1>4. ASSUME NEW t \in Thread, NEW h \in Host, CallHost(t, h)
      PROVE  RequestsAccounted'
  BY <1>1, <1>2, <1>4, SendAccounted DEF CallHost, work
<1>5. ASSUME NEW c \in Client, NEW h \in Host, ClientSends(c, h)
      PROVE  RequestsAccounted'
  BY <1>1, <1>2, <1>5, SendAccounted DEF ClientSends, work
<1>6. ASSUME NEW t \in Thread, SendUnblock(t)
      PROVE  RequestsAccounted'
  <2>1. target[t] \in Host /\ ~ In(Unblock, queue[target[t]])
    BY <1>1, <1>6 DEF TypeOK, Managed, Tokens, Stops, SendUnblock
  <2>2. queue[target[t]] \in Seq(Origin \cup {Unblock})
    BY <1>1, <2>1 DEF TypeOK
  <2>3. /\ \A y : In(y, Append(queue[target[t]], Unblock)) <=> In(y, queue[target[t]]) \/ y = Unblock
        /\ NoRepeats(Append(queue[target[t]], Unblock))
    BY <1>1, <2>1, <2>2, AppendedIn DEF RequestsAccounted
  <2>4. \A h \in Host : /\ NoRepeats(queue'[h])
                        /\ \A y \in Origin : In(y, queue'[h]) <=> In(y, queue[h])
    BY <1>1, <1>2, <1>6, <2>1, <2>3 DEF TypeOK, RequestsAccounted, SendUnblock
  <2>5. UNCHANGED <<serving, waiting>> /\ \A h \in Host : serving[h] \in Origin \cup {None}
    BY <1>1, <1>6 DEF TypeOK, SendUnblock, work
  <2>. QED  BY <1>1, <2>4, <2>5 DEF RequestsAccounted
<1>7. ASSUME NEW h \in Host, DropRequests(h)
      PROVE  RequestsAccounted'
  <2>1. (\A x : ~ In(x, <<>>)) /\ NoRepeats(<<>>)
    BY EmptySeq DEF In, NoRepeats
  <2>2. serving[h] = None
    BY <1>1, <1>7 DEF Busy, DropRequests, InContext
  <2>3. /\ queue'[h] = <<>> /\ \A g \in Host \ {h} : queue'[g] = queue[g]
        /\ \A o \in Origin : waiting'[o] = IF waiting[o] = h THEN None ELSE waiting[o]
        /\ UNCHANGED serving
    BY <1>1, <1>7 DEF TypeOK, DropRequests, work
  <2>. QED  BY <1>1, <1>2, <2>1, <2>2, <2>3 DEF RequestsAccounted
<1>8. ASSUME NEW h \in Host, ReceiveToken(h) \/ ReceiveRequest(h)
      PROVE  RequestsAccounted'
  <2>1. queue[h] # <<>> /\ queue[h] \in Seq(Origin \cup {Unblock}) /\ serving[h] = None
    BY <1>1, <1>8 DEF TypeOK, Busy, InContext, ReceiveToken, ReceiveRequest
  <2>2. /\ Head(queue[h]) \in Origin \cup {Unblock} /\ In(Head(queue[h]), queue[h])
        /\ \A y : y # Head(queue[h]) => (In(y, Tail(queue[h])) <=> In(y, queue[h]))
        /\ NoRepeats(Tail(queue[h])) /\ ~ In(Head(queue[h]), Tail(queue[h]))
    BY <1>1, <2>1, TailIn DEF RequestsAccounted
  <2>3. /\ queue'[h] = Tail(queue[h]) /\ \A g \in Host \ {h} : queue'[g] = queue[g]
        /\ UNCHANGED waiting /\ \A g \in Host \ {h} : serving'[g] = serving[g]
        /\ \/ Head(queue[h]) = Unblock /\ serving'[h] = None
           \/ Head(queue[h]) # Unblock /\ serving'[h] = Head(queue[h])
    BY <1>1, <1>8, <2>1 DEF TypeOK, ReceiveToken, ReceiveRequest, work
  <2>4. /\ \A o \in Origin : waiting'[o] = h <=> In(o, queue'[h]) \/ serving'[h] = o
        /\ NoRepeats(queue'[h])
        /\ serving'[h] # None => ~ In(serving'[h], queue'[h])
    BY <1>1, <1>2, <2>1, <2>2, <2>3 DEF RequestsAccounted
  <2>. QED  BY <1>1, <2>3, <2>4 DEF RequestsAccounted
<1>9. ASSUME NEW h \in Host, Respond(h)
      PROVE  RequestsAccounted'
  <2>1. serving[h] \in Origin /\ waiting[serving[h]] = h /\ ~ In(serving[h], queue[h])
    BY <1>1, <1>9 DEF TypeOK, Busy, RequestsAccounted, Respond
  <2>2. /\ UNCHANGED queue /\ serving'[h] = None /\ \A g \in Host \ {h} : serving'[g] = serving[g]
        /\ waiting'[serving[h]] = None
        /\ \A o \in Origin \ {serving[h]} : waiting'[o] = waiting[o]
    BY <1>1, <1>9, <2>1 DEF TypeOK, Respond
  <2>. QED  BY <1>1, <1>2, <2>1, <2>2 DEF RequestsAccounted
<1>10. ASSUME \/ \E t \in Thread, h \in Host : StartHost(t, h) \/ BeginStop(t, h)
              \/ \E t \in Thread : SwapRunning(t) \/ Join(t)
              \/ \E h \in Host : EndHandler(h) \/ HandlerDropped(h) \/ CheckRunning(h)
              \/ EndComposition \/ CtrlC \/ EndServing \/ MainDropped
              \/ UNCHANGED vars
       PROVE  UNCHANGED <<queue, serving, waiting>>
  BY <1>10
     DEF StartHost, BeginStop, SwapRunning, Join, EndHandler, HandlerDropped, CheckRunning,
         EndComposition, CtrlC, EndServing, MainDropped, vars, work
<1>11. Main \in Thread /\ Host \subseteq Thread
  BY DEF Thread
<1>. QED
  BY <1>3, <1>4, <1>5, <1>6, <1>7, <1>8, <1>9, <1>10, <1>11
     DEF Next, Serving, Ending, Choice, Stopping, Terminating

(* A worker goes to sleep only while its flag is set, and its owner waits  *)
(* for it only after it cleared the flag and sent the token.               *)
LEMMA WakesUpStep ==
  ASSUME IInv, [Next]_vars
  PROVE  WakesUp'
<1>1. TypeOK /\ Managed /\ Flagged /\ WakesUp
  BY DEF IInv, Structure
<1>2. Main \in Thread /\ Main \notin Host /\ Host \subseteq Thread
  BY HostAssumption DEF Thread
<1>3. \A t \in Thread : pc[t] = "join" => target[t] \in Host /\ ~ running[target[t]]
  BY <1>1 DEF TypeOK, Managed, Flagged, Stops
(* Steps after which nobody is at join or recv who was not before, and     *)
(* that leave the tokens in the queue.                                     *)
<1>4. ASSUME /\ \A t \in Thread : pc'[t] = "join" => pc[t] = "join" /\ target'[t] = target[t]
             /\ \A h \in Host : /\ pc'[h] = "recv" => pc[h] = "recv"
                                /\ pc'[h] = "recv" /\ In(Unblock, queue[h]) => In(Unblock, queue'[h])
      PROVE  WakesUp'
  BY <1>1, <1>3, <1>4 DEF WakesUp
<1>5. ASSUME NEW t \in Thread, NEW h \in Host, StartHost(t, h) \/ BeginStop(t, h)
      PROVE  WakesUp'
  <2>1. CASE StartHost(t, h)
    BY <1>1, <1>2, <1>4, <2>1 DEF TypeOK, StartHost
  <2>2. CASE BeginStop(t, h)
    BY <1>1, <1>2, <1>4, <2>2 DEF TypeOK, BeginStop, Goto
  <2>. QED  BY <1>5, <2>1, <2>2
<1>6. ASSUME NEW o \in Origin, NEW h \in Host, Send(o, h)
      PROVE  \A g \in Host : In(Unblock, queue[g]) => In(Unblock, queue'[g])
  <2>1. queue[h] \in Seq(Origin \cup {Unblock})
    BY <1>1 DEF TypeOK
  <2>2. In(Unblock, queue[h]) => In(Unblock, Append(queue[h], o))
    BY <2>1, AppendedIn
  <2>. QED  BY <1>1, <1>6, <2>2 DEF TypeOK, Send
<1>7. ASSUME NEW t \in Thread, NEW h \in Host, CallHost(t, h)
      PROVE  WakesUp'
  <2>1. \A g \in Host : In(Unblock, queue[g]) => In(Unblock, queue'[g])
    BY <1>6, <1>7 DEF CallHost, Origin
  <2>. QED  BY <1>1, <1>2, <1>4, <1>7, <2>1 DEF TypeOK, CallHost, Goto
<1>8. ASSUME NEW c \in Client, NEW h \in Host, ClientSends(c, h)
      PROVE  WakesUp'
  <2>1. \A g \in Host : In(Unblock, queue[g]) => In(Unblock, queue'[g])
    BY <1>6, <1>8 DEF ClientSends, Origin
  <2>. QED  BY <1>4, <1>8, <2>1 DEF ClientSends
<1>9. ASSUME NEW t \in Thread, SwapRunning(t)
      PROVE  WakesUp'
  <2>1. running[target[t]]
    BY <1>1, <1>9 DEF Flagged, SwapRunning
  <2>. QED  BY <1>1, <1>2, <1>4, <1>9, <2>1 DEF TypeOK, SwapRunning, Goto
<1>10. ASSUME NEW t \in Thread, SendUnblock(t)
       PROVE  WakesUp'
  <2>1. target[t] \in Host
    BY <1>1, <1>10 DEF TypeOK, Managed, Stops, SendUnblock
  <2>2. queue[target[t]] \in Seq(Origin \cup {Unblock})
    BY <1>1, <2>1 DEF TypeOK
  <2>3. /\ In(Unblock, queue'[target[t]])
        /\ \A h \in Host : In(Unblock, queue[h]) => In(Unblock, queue'[h])
    <3>1. \A y : In(y, Append(queue[target[t]], Unblock)) <=> In(y, queue[target[t]]) \/ y = Unblock
      BY <2>2, AppendedIn
    <3>. QED  BY <1>1, <1>10, <2>1, <3>1 DEF TypeOK, SendUnblock
  <2>4. /\ UNCHANGED target
        /\ \A u \in Thread : u # t => pc'[u] = pc[u]
        /\ pc'[t] = "join"
    BY <1>1, <1>10 DEF TypeOK, SendUnblock, Goto
  <2>5. ASSUME NEW u \in Thread, pc'[u] = "join", pc'[target[u]] = "recv"
        PROVE  In(Unblock, queue'[target[u]])
    <3>1. CASE u = t
      BY <2>3, <3>1
    <3>2. CASE u # t
      <4>1. pc[u] = "join" /\ target[u] \in Host /\ pc[target[u]] = "recv"
        BY <1>2, <1>3, <2>4, <2>5, <3>2
      <4>. QED  BY <1>1, <2>3, <4>1 DEF WakesUp
    <3>. QED  BY <3>1, <3>2
  <2>. QED  BY <2>4, <2>5 DEF WakesUp
<1>11. ASSUME NEW t \in Thread, Join(t)
       PROVE  WakesUp'
  <2>1. target[t] \in Host
    BY <1>3, <1>11 DEF Join
  <2>. QED  BY <1>1, <1>2, <1>4, <1>11, <2>1 DEF TypeOK, Join
<1>12. ASSUME NEW h \in Host, DropRequests(h)
       PROVE  WakesUp'
  <2>1. pc'[h] # "recv"
    BY <1>2, <1>12 DEF DropRequests
  <2>2. \A g \in Host \ {h} : queue'[g] = queue[g]
    BY <1>1, <1>12 DEF TypeOK, DropRequests
  <2>. QED  BY <1>2, <1>4, <1>12, <2>1, <2>2 DEF DropRequests
<1>13. ASSUME NEW h \in Host, CheckRunning(h)
       PROVE  WakesUp'
  <2>1. /\ UNCHANGED <<target, queue>>
        /\ pc'[h] = "recv" => running[h]
        /\ pc'[h] \in {"recv", "exited"}
        /\ \A u \in Thread : u # h => pc'[u] = pc[u]
    BY <1>1, <1>2, <1>13 DEF TypeOK, CheckRunning, Goto
  <2>2. ASSUME NEW u \in Thread, pc'[u] = "join", pc'[target[u]] = "recv"
        PROVE  pc[u] = "join" /\ pc[target[u]] = "recv"
    <3>1. pc[u] = "join" /\ target[u] \in Host /\ ~ running[target[u]]
      BY <1>3, <2>1, <2>2
    <3>2. target[u] # h
      BY <2>1, <2>2, <3>1
    <3>3. target[u] \in Thread
      BY <1>2, <3>1
    <3>. QED  BY <2>1, <2>2, <3>1, <3>2, <3>3
  <2>3. ASSUME NEW u \in Thread, pc'[u] = "join", pc'[target[u]] = "recv"
        PROVE  In(Unblock, queue[target[u]])
    BY <1>1, <2>2, <2>3 DEF WakesUp
  <2>. QED  BY <2>1, <2>3 DEF WakesUp
<1>14. ASSUME NEW h \in Host, ReceiveToken(h) \/ ReceiveRequest(h)
       PROVE  WakesUp'
  <2>1. /\ UNCHANGED target
        /\ \E label \in {"check", "reply", "run"} : pc' = [pc EXCEPT ![h] = label]
        /\ \A g \in Host \ {h} : queue'[g] = queue[g]
    BY <1>1, <1>14 DEF TypeOK, ReceiveToken, ReceiveRequest, Goto
  <2>. QED  BY <1>1, <1>2, <1>4, <2>1 DEF TypeOK
<1>15. ASSUME NEW h \in Host, Respond(h) \/ EndHandler(h) \/ HandlerDropped(h)
       PROVE  WakesUp'
  <2>1. /\ UNCHANGED <<target, queue>>
        /\ \A u \in Thread : pc'[u] = pc[u] \/ pc'[u] \in {"check", "run", "reply"}
    BY <1>1, <1>15 DEF TypeOK, Respond, EndHandler, HandlerDropped, Goto
  <2>. QED  BY <1>2, <1>4, <2>1
<1>16. ASSUME EndComposition \/ CtrlC \/ EndServing \/ MainDropped
       PROVE  WakesUp'
  <2>1. /\ UNCHANGED <<target, queue>>
        /\ \A u \in Thread : pc'[u] = pc[u] \/ pc'[u] \in {"sleep", "run", "done"}
    BY <1>1, <1>16 DEF TypeOK, EndComposition, CtrlC, EndServing, MainDropped, Goto
  <2>. QED  BY <1>2, <1>4, <2>1
<1>17. CASE UNCHANGED vars
  BY <1>4, <1>17 DEF vars
<1>. QED
  BY <1>2, <1>5, <1>7, <1>8, <1>9, <1>10, <1>11, <1>12, <1>13, <1>14, <1>15, <1>16, <1>17
     DEF Next, Serving, Ending, Choice, Stopping, Terminating

(* After a late request, a worker finds its flag cleared.                  *)
LEMMA LateStep ==
  ASSUME IInv, [Next]_vars
  PROVE  Late'
<1>1. TypeOK /\ Owned /\ Late
  BY DEF IInv, Structure
<1>2. Main \in Thread /\ Main \notin Host /\ Host \subseteq Thread
  BY HostAssumption DEF Thread
(* Steps that receive nothing and set no flag.                             *)
<1>3. ASSUME UNCHANGED late,
             \A h \in Host : /\ running'[h] => running[h]
                             /\ pc'[h] \in {"off", "recv"} => pc[h] = pc'[h]
      PROVE  Late'
  BY <1>1, <1>3 DEF Late
<1>4. ASSUME NEW t \in Thread, NEW h \in Host, StartHost(t, h)
      PROVE  Late'
  <2>1. /\ UNCHANGED late /\ pc[h] = "off" /\ running' = [running EXCEPT ![h] = TRUE]
        /\ pc' = [pc EXCEPT ![h] = "check"]
    BY <1>4 DEF StartHost, work
  <2>. QED  BY <1>1, <1>2, <2>1 DEF TypeOK, Late
<1>5. ASSUME NEW h \in Host, CheckRunning(h)
      PROVE  Late'
  <2>1. /\ UNCHANGED <<late, running>>
        /\ pc' = [pc EXCEPT ![h] = IF running[h] THEN "recv" ELSE "exited"]
    BY <1>5 DEF CheckRunning, Goto, work
  <2>. QED  BY <1>1, <1>2, <2>1 DEF TypeOK, Late
<1>6. ASSUME NEW h \in Host, ReceiveRequest(h)
      PROVE  Late'
  <2>1. late[h] = 0
    BY <1>1, <1>6 DEF TypeOK, Late, ReceiveRequest
  <2>2. /\ UNCHANGED running
        /\ late' = [late EXCEPT ![h] = IF running[h] THEN 0 ELSE 1]
        /\ \E label \in {"reply", "run"} : pc' = [pc EXCEPT ![h] = label]
    BY <1>1, <1>6, <2>1 DEF TypeOK, ReceiveRequest, Goto
  <2>. QED  BY <1>1, <1>2, <2>2 DEF TypeOK, Late
<1>7. ASSUME NEW t \in Thread, NEW h \in Host,
             CallHost(t, h) \/ BeginStop(t, h)
      PROVE  Late'
  <2>1. UNCHANGED <<late, running>> /\ \E label \in {"call", "swap"} : pc' = [pc EXCEPT ![t] = label]
    BY <1>7 DEF CallHost, BeginStop, Goto, work
  <2>. QED  BY <1>1, <1>2, <1>3, <2>1 DEF TypeOK
<1>8. ASSUME NEW c \in Client, NEW h \in Host, ClientSends(c, h)
      PROVE  Late'
  BY <1>3, <1>8 DEF ClientSends, work
<1>9. ASSUME NEW t \in Thread, SwapRunning(t) \/ SendUnblock(t) \/ Join(t)
      PROVE  Late'
  <2>1. /\ UNCHANGED late /\ \A h \in Host : running'[h] => running[h]
        /\ \A u \in Thread : pc'[u] = pc[u] \/ pc'[u] \in {"unblock", "join", "run", "closed"}
    BY <1>1, <1>9 DEF TypeOK, SwapRunning, SendUnblock, Join, Goto, work
  <2>. QED  BY <1>2, <1>3, <2>1
<1>10. ASSUME NEW h \in Host,
              \/ DropRequests(h) \/ ReceiveToken(h) \/ Respond(h)
              \/ EndHandler(h) \/ HandlerDropped(h)
       PROVE  Late'
  <2>1. /\ UNCHANGED <<late, running>>
        /\ \A u \in Thread : pc'[u] = pc[u] \/ pc'[u] \in {"check", "reply", "run"}
    BY <1>1, <1>10
       DEF TypeOK, DropRequests, ReceiveToken, Respond, EndHandler, HandlerDropped, Goto, work
  <2>. QED  BY <1>2, <1>3, <2>1
<1>11. ASSUME EndComposition \/ CtrlC \/ EndServing \/ MainDropped
       PROVE  Late'
  <2>1. /\ UNCHANGED <<late, running>>
        /\ \A u \in Thread : pc'[u] = pc[u] \/ pc'[u] \in {"sleep", "run", "done"}
    BY <1>1, <1>11 DEF TypeOK, EndComposition, CtrlC, EndServing, MainDropped, Goto, work
  <2>. QED  BY <1>2, <1>3, <2>1
<1>12. CASE UNCHANGED vars
  BY <1>3, <1>12 DEF vars, work
<1>. QED
  BY <1>2, <1>4, <1>5, <1>6, <1>7, <1>8, <1>9, <1>10, <1>11, <1>12
     DEF Next, Serving, Ending, Choice, Stopping, Terminating

-----------------------------------------------------------------------------
(* The theorems.                                                           *)

(* The invariant holds of every state the hosts can reach.                 *)
THEOREM Inductive == Spec => []IInv
<1>1. IInv /\ [Next]_vars => IInv'
  <2>. SUFFICES ASSUME IInv, [Next]_vars  PROVE IInv'
    OBVIOUS
  <2>1. Structure'
    BY StructureStep DEF IInv
  <2>. QED
    BY <2>1, TokensStep, RequestsAccountedStep, WakesUpStep, LateStep DEF IInv
<1>. QED  BY InitInv, <1>1, PTL DEF Spec

(* The state of the program, its hosts, contexts and queues stays of its   *)
(* type, whoever starts, calls and stops what.                             *)
THEOREM HttpTypeCorrect == Spec => []TypeOK
<1>1. IInv => TypeOK
  BY DEF IInv, Structure
<1>. QED  BY <1>1, Inductive, PTL

(* Every request sent to a host is, once, in its queue or being served     *)
(* until it is answered: none is lost, none is answered twice (the loop of *)
(* serve_loop in http/mod.rs).                                             *)
THEOREM RequestsKept == Spec => []RequestsAccounted
<1>1. IInv => RequestsAccounted
  BY DEF IInv
<1>. QED  BY <1>1, Inductive, PTL

(* Whoever stops a host has left a token for its worker before joining it: *)
(* the swap of the flag and the token of stop cannot miss the worker,      *)
(* however they interleave with its loop.                                  *)
THEOREM WakeupsNotLost == Spec => []WakesUp
<1>1. IInv => WakesUp
  BY DEF IInv
<1>. QED  BY <1>1, Inductive, PTL

(* When a context has ended, the hosts it started are closed and serve     *)
(* nothing, even those started by handlers of their handlers.              *)
THEOREM HostsEnd == Spec => []HostsEndWithContext
<1>1. IInv => HostsEndWithContext
  <2>. SUFFICES ASSUME IInv, NEW h \in Host,
                       owner[h] # None, pc[owner[h]] \notin InContext \cup {"sleep"}
                PROVE  pc[h] = "closed" /\ serving[h] = None
    BY DEF HostsEndWithContext
  <2>1. TypeOK /\ Managed /\ Owned /\ Busy
    BY DEF IInv, Structure
  <2>2. owner[h] \in Thread /\ None \notin Host
    BY <2>1, HostAssumption DEF TypeOK, Origin, Thread
  <2>3. managed[owner[h]] = {} /\ target[owner[h]] = None
    BY <2>1, <2>2 DEF Managed, Stops, InContext
  <2>4. ~ Listening(h) /\ pc[h] # "off"
    BY <2>1, <2>2, <2>3 DEF Owned
  <2>5. pc[h] = "closed"
    BY <2>4 DEF Listening
  <2>. QED  BY <2>1, <2>5 DEF Busy, InContext
<1>. QED  BY <1>1, Inductive, PTL

(* A host that is being stopped serves at most one more request.           *)
THEOREM StopIsPrompt == Spec => []StopsPromptly
<1>1. IInv => StopsPromptly
  BY DEF IInv, Late, StopsPromptly
<1>. QED  BY <1>1, Inductive, PTL
=============================================================================
