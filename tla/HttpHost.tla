------------------------------ MODULE HttpHost -------------------------------
(***************************************************************************)
(* HTTP hosts (src/src/http): the thread of the program and one worker     *)
(* thread for each host.  A worker takes requests from the queue of its    *)
(* host and runs a handler for each in a new context.  Handlers, like the  *)
(* program, may start hosts, stop those they started and call any host     *)
(* they know of.  Stopping a host joins its worker, and a context that is  *)
(* dropped stops the hosts it has left.  In run_compose, Ctrl-C ends the   *)
(* serving.                                                                *)
(*                                                                         *)
(* Sockets and queue belong to tiny_http, which is external: a queue of    *)
(* requests and tokens that unblock the receiver.                          *)
(***************************************************************************)
EXTENDS Naturals, Sequences

CONSTANTS Host,     \* bound: the hosts a run may start, each once
          Client,   \* clients outside of the program
          Main,     \* the thread of the program
          OwnOnly,  \* the program and its handlers call only hosts they started
          Unblock,  \* the token
          None

Thread == Host \cup {Main}
Origin == Client \cup Thread   \* who sends requests, one at a time

ASSUME HostAssumption ==
  /\ Main \notin Host
  /\ Client \cap Thread = {}
  /\ Unblock \notin Origin /\ None \notin Origin \cup {Unblock}
  /\ OwnOnly \in BOOLEAN

VARIABLES pc,       \* what each thread is about to do
          target,   \* the host a thread is stopping
          managed,  \* the hosts in the manager of the thread's context
          ending,   \* that context is being dropped
          owner,    \* the thread whose context started the host
          running,  \* the flag the worker looks at
          queue,    \* requests, by origin, and tokens
          serving,  \* the request a worker is serving
          late,     \* history: requests received after running was cleared
          waiting,  \* the host an origin waits for
          ctrlc     \* the user wants run_compose to end

context == <<managed, ending, owner>>
work == <<serving, late>>
vars == <<pc, target, context, running, queue, work, waiting, ctrlc>>

(* A worker goes round check, recv, perhaps run, reply; the program ends   *)
(* in sleep, if it serves, and done.  Whoever runs a context is at run, at *)
(* call while it waits for an answer, or at swap, unblock and join while   *)
(* it stops a host.  A worker that is closed has ended and been joined.    *)
InContext == {"run", "call", "swap", "unblock", "join"}
WorkerPc == {"off", "check", "recv", "reply", "exited", "closed"} \cup InContext
MainPc == {"sleep", "done"} \cup InContext

TypeOK ==
  /\ pc \in [Thread -> WorkerPc \cup MainPc]
  /\ pc[Main] \in MainPc /\ \A h \in Host : pc[h] \in WorkerPc
  /\ target \in [Thread -> Host \cup {None}]
  /\ managed \in [Thread -> SUBSET Host]
  /\ ending \in [Thread -> BOOLEAN]
  /\ owner \in [Host -> Thread \cup {None}]
  /\ running \in [Host -> BOOLEAN]
  /\ queue \in [Host -> Seq(Origin \cup {Unblock})]
  /\ serving \in [Host -> Origin \cup {None}]
  /\ late \in [Host -> Nat]
  /\ waiting \in [Origin -> Host \cup {None}]
  /\ ctrlc \in BOOLEAN

Init ==
  /\ pc = [t \in Thread |-> IF t = Main THEN "run" ELSE "off"]
  /\ target = [t \in Thread |-> None]
  /\ managed = [t \in Thread |-> {}]
  /\ ending = [t \in Thread |-> FALSE]
  /\ owner = [h \in Host |-> None]
  /\ running = [h \in Host |-> FALSE]
  /\ queue = [h \in Host |-> <<>>]
  /\ serving = [h \in Host |-> None]
  /\ late = [h \in Host |-> 0]
  /\ waiting = [o \in Origin |-> None]
  /\ ctrlc = FALSE

Goto(t, label) == pc' = [pc EXCEPT ![t] = label]

(* The composition or handler of t is at a step of its own choice.         *)
Running(t) == pc[t] = "run" /\ ~ ending[t]

-----------------------------------------------------------------------------
(* Starting and calling hosts.                                             *)

StartHost(t, h) ==
  /\ Running(t)
  /\ pc[h] = "off"
  /\ pc' = [pc EXCEPT ![h] = "check"]
  /\ running' = [running EXCEPT ![h] = TRUE]
  /\ owner' = [owner EXCEPT ![h] = t]
  /\ managed' = [managed EXCEPT ![t] = @ \cup {h}]
  /\ UNCHANGED <<target, ending, queue, work, waiting, ctrlc>>

Listening(h) == pc[h] \notin {"off", "closed"}

Send(o, h) ==
  /\ Listening(h)
  /\ waiting[o] = None
  /\ queue' = [queue EXCEPT ![h] = Append(@, o)]
  /\ waiting' = [waiting EXCEPT ![o] = h]

(* A call without timeoutMs.  Calls of hosts that do not listen fail.      *)
CallHost(t, h) ==
  /\ Running(t)
  /\ OwnOnly => owner[h] = t
  /\ Send(t, h)
  /\ Goto(t, "call")
  /\ UNCHANGED <<target, context, running, work, ctrlc>>

ClientSends(c, h) ==
  /\ Send(c, h)
  /\ UNCHANGED <<pc, target, context, running, work, ctrlc>>

-----------------------------------------------------------------------------
(* Stopping a host, because the handler or program asks for it or because  *)
(* its context is dropped.                                                 *)

BeginStop(t, h) ==
  /\ pc[t] = "run"
  /\ h \in managed[t]
  /\ managed' = [managed EXCEPT ![t] = @ \ {h}]
  /\ target' = [target EXCEPT ![t] = h]
  /\ Goto(t, "swap")
  /\ UNCHANGED <<ending, owner, running, queue, work, waiting, ctrlc>>

(* Faulty variant: the condition is negated.                               *)
SwapRunning_Negated(t) ==
  /\ pc[t] = "swap"
  /\ running' = [running EXCEPT ![target[t]] = FALSE]
  /\ Goto(t, IF running[target[t]] THEN "join" ELSE "unblock")
  /\ UNCHANGED <<target, context, queue, work, waiting, ctrlc>>

SwapRunning(t) ==
  /\ pc[t] = "swap"
  /\ running' = [running EXCEPT ![target[t]] = FALSE]
  /\ Goto(t, IF running[target[t]] THEN "unblock" ELSE "join")
  /\ UNCHANGED <<target, context, queue, work, waiting, ctrlc>>

SendUnblock(t) ==
  /\ pc[t] = "unblock"
  /\ queue' = [queue EXCEPT ![target[t]] = Append(@, Unblock)]
  /\ Goto(t, "join")
  /\ UNCHANGED <<target, context, running, work, waiting, ctrlc>>

(* The worker has ended; the socket is closed with the control.            *)
Join(t) ==
  /\ pc[t] = "join"
  /\ pc[target[t]] = "exited"
  /\ pc' = [pc EXCEPT ![t] = "run", ![target[t]] = "closed"]
  /\ target' = [target EXCEPT ![t] = None]
  /\ UNCHANGED <<context, running, queue, work, waiting, ctrlc>>

(* What is left in the queue of a closed host is answered with an error if *)
(* the library drops it; nothing says that it does.                        *)
DropRequests(h) ==
  /\ pc[h] = "closed"
  /\ \E o \in Origin : waiting[o] = h
  /\ queue' = [queue EXCEPT ![h] = <<>>]
  /\ pc' = [t \in Thread |-> IF waiting[t] = h THEN "run" ELSE pc[t]]
  /\ waiting' = [o \in Origin |-> IF waiting[o] = h THEN None ELSE waiting[o]]
  /\ UNCHANGED <<target, context, running, work, ctrlc>>

-----------------------------------------------------------------------------
(* The end of a context.                                                   *)

(* A handler is over.                                                      *)
EndHandler(h) ==
  /\ Running(h)
  /\ ending' = [ending EXCEPT ![h] = TRUE]
  /\ UNCHANGED <<pc, target, managed, owner, running, queue, work, waiting, ctrlc>>

(* Faulty variant: the answer is sent before the context is dropped.       *)
HandlerDropped_Early(h) ==
  /\ pc[h] = "run" /\ ending[h]
  /\ Goto(h, "reply")
  /\ UNCHANGED <<target, context, running, queue, work, waiting, ctrlc>>

HandlerDropped(h) ==
  /\ pc[h] = "run" /\ ending[h]
  /\ managed[h] = {}
  /\ Goto(h, "reply")
  /\ UNCHANGED <<target, context, running, queue, work, waiting, ctrlc>>

(* The composition is over.  run_compose serves until Ctrl-C if asked to.  *)
EndComposition ==
  /\ Running(Main)
  /\ \/ Goto(Main, "sleep") /\ UNCHANGED ending
     \/ ending' = [ending EXCEPT ![Main] = TRUE] /\ UNCHANGED pc
  /\ UNCHANGED <<target, managed, owner, running, queue, work, waiting, ctrlc>>

CtrlC ==
  /\ pc[Main] = "sleep"
  /\ ~ ctrlc
  /\ ctrlc' = TRUE
  /\ UNCHANGED <<pc, target, context, running, queue, work, waiting>>

EndServing ==
  /\ pc[Main] = "sleep"
  /\ ctrlc
  /\ Goto(Main, "run")
  /\ ending' = [ending EXCEPT ![Main] = TRUE]
  /\ UNCHANGED <<target, managed, owner, running, queue, work, waiting, ctrlc>>

MainDropped ==
  /\ pc[Main] = "run" /\ ending[Main]
  /\ managed[Main] = {}
  /\ Goto(Main, "done")
  /\ UNCHANGED <<target, context, running, queue, work, waiting, ctrlc>>

-----------------------------------------------------------------------------
(* A worker.                                                               *)

(* Faulty variant: the loop ends only when the receiver was unblocked.     *)
CheckRunning_Ignored(h) ==
  /\ pc[h] = "check"
  /\ Goto(h, "recv")
  /\ UNCHANGED <<target, context, running, queue, work, waiting, ctrlc>>

CheckRunning(h) ==
  /\ pc[h] = "check"
  /\ Goto(h, IF running[h] THEN "recv" ELSE "exited")
  /\ UNCHANGED <<target, context, running, queue, work, waiting, ctrlc>>

(* The next in the queue, if it is a token: the flag is looked at again.   *)
ReceiveToken(h) ==
  /\ pc[h] = "recv"
  /\ queue[h] # <<>> /\ Head(queue[h]) = Unblock
  /\ queue' = [queue EXCEPT ![h] = Tail(@)]
  /\ Goto(h, "check")
  /\ UNCHANGED <<target, context, running, work, waiting, ctrlc>>

(* Faulty variant: a token is taken for a request.                         *)
ReceiveRequest_OrToken(h) ==
  /\ pc[h] = "recv"
  /\ queue[h] # <<>>
  /\ queue' = [queue EXCEPT ![h] = Tail(@)]
  /\ serving' = [serving EXCEPT ![h] = Head(queue[h])]
  /\ Goto(h, "reply")
  /\ UNCHANGED <<target, context, running, late, waiting, ctrlc>>

(* Faulty variant: a request for which there is no route is dropped.       *)
ReceiveRequest_Unanswered(h) ==
  /\ pc[h] = "recv"
  /\ queue[h] # <<>> /\ Head(queue[h]) # Unblock
  /\ queue' = [queue EXCEPT ![h] = Tail(@)]
  /\ Goto(h, "check")
  /\ UNCHANGED <<target, context, running, work, waiting, ctrlc>>

(* A request is answered at once if it has no route or a handler that      *)
(* cannot be run; otherwise its handler gets a context.  One whose body or *)
(* URL cannot be read is only dropped by the code, with an error that is   *)
(* logged: tiny_http (external) answers a request that is dropped.         *)
ReceiveRequest(h) ==
  /\ pc[h] = "recv"
  /\ queue[h] # <<>> /\ Head(queue[h]) # Unblock
  /\ queue' = [queue EXCEPT ![h] = Tail(@)]
  /\ serving' = [serving EXCEPT ![h] = Head(queue[h])]
  /\ late' = [late EXCEPT ![h] = IF running[h] THEN @ ELSE @ + 1]
  /\ \/ Goto(h, "reply") /\ UNCHANGED ending
     \/ Goto(h, "run") /\ ending' = [ending EXCEPT ![h] = FALSE]
  /\ UNCHANGED <<target, managed, owner, running, waiting, ctrlc>>

Respond(h) ==
  /\ pc[h] = "reply"
  /\ waiting' = [waiting EXCEPT ![serving[h]] = None]
  /\ pc' = [t \in Thread |-> IF t = h THEN "check"
                             ELSE IF t = serving[h] THEN "run" ELSE pc[t]]
  /\ serving' = [serving EXCEPT ![h] = None]
  /\ UNCHANGED <<target, context, running, queue, late, ctrlc>>

-----------------------------------------------------------------------------
Stopping(t) ==
  \/ SwapRunning(t) \/ SendUnblock(t) \/ Join(t)
  \/ ending[t] /\ \E h \in Host : BeginStop(t, h)

Serving(h) ==
  \/ CheckRunning(h) \/ ReceiveToken(h) \/ ReceiveRequest(h) \/ Respond(h)
  \/ HandlerDropped(h) \/ Stopping(h)

Ending == EndServing \/ MainDropped \/ Stopping(Main)

(* What a composition or handler chooses to do.                            *)
Choice(t) ==
  \E h \in Host : StartHost(t, h) \/ CallHost(t, h) \/ BeginStop(t, h)

Terminating == pc[Main] = "done" /\ UNCHANGED vars

Next ==
  \/ \E h \in Host : Serving(h) \/ EndHandler(h) \/ DropRequests(h)
  \/ \E t \in Thread : Choice(t)
  \/ \E c \in Client, h \in Host : ClientSends(c, h)
  \/ Ending \/ EndComposition \/ CtrlC
  \/ Terminating

Spec == Init /\ [][Next]_vars

(* Threads are not starved.  Handlers come to an end unless they wait for  *)
(* an answer or for a worker; that is up to those who write them, since a  *)
(* handler cannot be cancelled.  Nothing forces Ctrl-C or a request.       *)
FairSpec ==
  /\ Spec
  /\ WF_vars(Ending)
  /\ \A h \in Host : WF_vars(Serving(h)) /\ SF_vars(EndHandler(h))
-----------------------------------------------------------------------------
(* Properties.                                                             *)

In(x, s) == \E i \in DOMAIN s : s[i] = x
NoRepeats(s) == \A i, j \in DOMAIN s : s[i] = s[j] => i = j

(* A worker that has to end is never left asleep: when the owner of a host *)
(* waits for its worker and the worker waits for requests, a token is in   *)
(* the queue.                                                              *)
WakesUp ==
  \A t \in Thread :
    pc[t] = "join" /\ pc[target[t]] = "recv" => In(Unblock, queue[target[t]])

(* Nothing is lost or answered twice: someone waits for a host if and only *)
(* if its request is, once, in the queue of the host or being served.      *)
RequestsAccounted ==
  \A h \in Host :
    /\ \A o \in Origin : waiting[o] = h <=> In(o, queue[h]) \/ serving[h] = o
    /\ NoRepeats(queue[h])
    /\ serving[h] # None => ~ In(serving[h], queue[h])

(* Hosts do not outlive the context that started them: when a worker is    *)
(* not in a handler, or the program is over, every host it started is      *)
(* closed and serves nothing.                                              *)
HostsEndWithContext ==
  \A h \in Host :
    owner[h] # None /\ pc[owner[h]] \notin InContext \cup {"sleep"} =>
      pc[h] = "closed" /\ serving[h] = None

(* A host that is being stopped serves at most one more request: the one   *)
(* its worker was about to receive when the flag was cleared.              *)
StopsPromptly == \A h \in Host : late[h] <= 1

(* Stopping a host returns.  It does if nobody calls a host it does not    *)
(* own: otherwise hosts may wait for each other, or one for itself.        *)
StopReturns == \A t \in Thread : pc[t] = "join" ~> pc[t] # "join"

(* Requests are answered, unless the host was stopped, under the same      *)
(* condition.                                                              *)
RequestsAnswered ==
  \A h \in Host, o \in Origin :
    waiting[o] = h ~> waiting[o] # h \/ pc[h] = "closed"

(* When run_compose serves, Ctrl-C ends it, as it announces.  It does under *)
(* the same condition.                                                     *)
CtrlCStops == ctrlc ~> pc[Main] = "done"
=============================================================================
