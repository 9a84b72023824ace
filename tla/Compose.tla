------------------------------ MODULE Compose ------------------------------
(***************************************************************************)
(* The compose engine of the kernel: run_steps and the slot executor of    *)
(* src/src/compose.rs, Context::call and Context::run_slot of              *)
(* src/src/registry.rs, the flow operators of src/src/flow/mod.rs and the  *)
(* contracts that run slots (compose/run_slot, log.context,                *)
(* registry/scope).                                                        *)
(*                                                                         *)
(* The engine is recursive Rust; here the call stack is explicit.  Frames  *)
(* alternate between a list of steps being run ("steps") and a function    *)
(* being executed for one of those steps ("call").  A result travels from  *)
(* a finished frame to the one below in `reply`.  What a step reads and    *)
(* writes is abstracted: conditions, list lengths, limits and the success  *)
(* of a primitive are chosen freely.  Another thread (the timer and the    *)
(* Ctrl-C handler of lcod_run) may cancel the run between any two steps.   *)
(***************************************************************************)
EXTENDS Slots, FiniteSets

CONSTANTS Programs,       \* the programs a run may start with
          Main,           \* the block run_compose is given
          MaxItems,       \* bound: the longest list given to foreach
          MaxIterations,  \* bound: the largest maxIterations given to while
          MaxTags         \* bound: log.context pushes no tags beyond it

(* The functions modelled, and a step of a program.  `call` may also name  *)
(* something nobody registered ("missing"); `target` and `optional` are    *)
(* what compose/run_slot is given, `body` is the block of a component.     *)
Functions == {"primitive", "break", "continue", "check_abort", "if", "try",
              "foreach", "while", "run_slot", "log_context", "scope",
              "component"}

Step == [call : Functions \cup {"missing"}, children : StepChildren,
         slots : StepChildren, target : SlotName, optional : BOOLEAN,
         body : Block]

(* Programs are well formed, and so is where they start.                   *)
ASSUME ProgramsAssumption == Programs \subseteq [Block -> Seq(Step)]

ASSUME BoundsAssumption ==
  /\ Main \in Block
  /\ MaxItems \in Nat /\ MaxIterations \in Nat /\ MaxTags \in Nat

VARIABLES prog,       \* the program being run: Block -> sequence of steps
          stack,      \* the frames, innermost last
          reply,      \* result on its way to the innermost frame, or "none"
          handler,    \* ctx.run_slot_handler followed by its fallbacks
          tags,       \* length of ctx.log_tag_stack
          scopes,     \* length of ctx.registry_scope_stack
          cancelled,  \* the shared cancellation flag
          noticed     \* history: some check has answered CancelledError

vars == <<prog, stack, reply, handler, tags, scopes, cancelled, noticed>>

-----------------------------------------------------------------------------
(* Results: a value, a flow signal, or one of the errors told apart by     *)
(* downcasts; every other error is "error".                                *)
Signals  == {"break", "continue"}
Failures == {"cancelled", "slot_not_found", "error"}
Replies  == {"ok"} \cup Signals \cup Failures

Chain == Seq(SlotMap)

(* `taken` holds the executors run_slot took out of the context to run     *)
(* this block as a slot: the owner of the slot and those that delegated to *)
(* it; empty for run_compose.  A call frame is at label pc; n and limit    *)
(* are the counters of the function and `pending` its pending error.  Two  *)
(* fields are history: `chain`, the executors in the context when the      *)
(* frame was entered, and `ran`, that the slot last asked for was run.     *)
StepsFrame == [kind : {"steps"}, block : Block, i : Nat \ {0},
               taken : Chain, chain : Chain]

Labels == {"enter", "run", "next", "test", "branch", "body", "catch", "finally",
           "condition", "else", "slot", "children", "compose"}

CallFrame == [kind : {"call"}, step : Step, pc : Labels, n : Nat,
              limit : Nat, pending : Replies, ran : BOOLEAN, chain : Chain]

Top  == stack[Len(stack)]
Rest == SubSeq(stack, 1, Len(stack) - 1)

Init ==
  /\ prog \in Programs
  /\ stack = <<[kind |-> "steps", block |-> Main, i |-> 1, taken |-> <<>>,
                chain |-> <<>>]>>
  /\ reply = "none"
  /\ handler = <<>>
  /\ tags = 0
  /\ scopes = 0
  /\ cancelled = FALSE
  /\ noticed = FALSE

-----------------------------------------------------------------------------
(* The engine.                                                             *)

(* Faulty variant: the context was made with a flag of its own.            *)
IsCancelled_OwnFlag == FALSE

IsCancelled == cancelled

Notice(r) == noticed' = (noticed \/ r = "cancelled")

(* Faulty variant: an error returns before the executors are put back.     *)
LeaveBlock_ErrorFirst(r, current) ==
  /\ stack' = Rest
  /\ reply' = r
  /\ handler' = IF r = "ok" THEN Top.taken \o current ELSE current
  /\ Notice(r)

(* The innermost block ends with r.  A slot's executors go back in front   *)
(* of whatever the block left in the context, and run_slot looks at the    *)
(* flag once more before it hands r on.                                    *)
LeaveBlock(r, current) ==
  LET result == IF Top.taken # <<>> /\ IsCancelled THEN "cancelled" ELSE r
  IN  /\ stack' = Rest
      /\ reply' = result
      /\ handler' = Top.taken \o current
      /\ Notice(result)

(* run_steps starts the next step: it wraps the executors in the context   *)
(* in one that holds the slots of the step, and calls the function.        *)
BeginStep ==
  /\ stack # <<>> /\ Top.kind = "steps" /\ reply = "none"
  /\ Top.i <= Len(prog[Top.block])
  /\ ~ IsCancelled
  /\ LET step  == prog[Top.block][Top.i]
         chain == <<NormalizeChildren(step)>> \o handler
     IN  /\ handler' = chain
         /\ stack' = Append(stack, [kind |-> "call", step |-> step,
                                    pc |-> "enter", n |-> 0, limit |-> 0,
                                    pending |-> "ok", ran |-> FALSE,
                                    chain |-> chain])
  /\ UNCHANGED <<prog, reply, tags, scopes, cancelled, noticed>>

StepCancelled ==
  /\ stack # <<>> /\ Top.kind = "steps" /\ reply = "none"
  /\ Top.i <= Len(prog[Top.block])
  /\ IsCancelled
  /\ LeaveBlock("cancelled", handler)
  /\ UNCHANGED <<prog, tags, scopes, cancelled>>

EndBlock ==
  /\ stack # <<>> /\ Top.kind = "steps" /\ reply = "none"
  /\ Top.i > Len(prog[Top.block])
  /\ LeaveBlock("ok", handler)
  /\ UNCHANGED <<prog, tags, scopes, cancelled>>

(* The innermost frame goes on as frame f.                                 *)
Become(f) ==
  /\ stack' = Append(Rest, f)
  /\ reply' = "none"

(* The function of the step is back: its executor is unwrapped to its      *)
(* fallback whatever the result, and an error ends the block.              *)
Unwrapped == IF handler = <<>> THEN <<>> ELSE Tail(handler)

StepReturns ==
  /\ stack # <<>> /\ Top.kind = "steps" /\ reply # "none"
  /\ \/ /\ reply = "ok"
        /\ Become([Top EXCEPT !.i = @ + 1])
        /\ handler' = Unwrapped
        /\ UNCHANGED noticed
     \/ /\ reply # "ok"
        /\ LeaveBlock(reply, Unwrapped)
  /\ UNCHANGED <<prog, tags, scopes, cancelled>>

(* The function of the innermost frame returns r.                          *)
Finish(r) ==
  /\ stack' = Rest
  /\ reply' = r
  /\ Notice(r)
  /\ UNCHANGED handler

EnterBlock(f, b, taken, chain) ==
  /\ stack' = Rest \o <<[f EXCEPT !.ran = TRUE],
                         [kind |-> "steps", block |-> b, i |-> 1,
                          taken |-> taken, chain |-> chain]>>
  /\ handler' = chain
  /\ reply' = "none"
  /\ UNCHANGED noticed

(* Context::run_slot, for a function that will go on from frame f.  The    *)
(* executors up to the owner of the slot leave the context; the block runs *)
(* with the owner's fallback.  Inside a composition there always is an     *)
(* executor (SlotDiscipline), so "runSlot not available" is not an option. *)
RunSlot(name, f) ==
  \/ /\ IsCancelled
     /\ stack' = Append(Rest, [f EXCEPT !.ran = FALSE])
     /\ reply' = "cancelled"
     /\ Notice("cancelled")
     /\ UNCHANGED handler
  \/ /\ ~ IsCancelled
     /\ NobodyHolds(handler, name)
     /\ stack' = Append(Rest, [f EXCEPT !.ran = FALSE])
     /\ reply' = "slot_not_found"
     /\ UNCHANGED <<handler, noticed>>
  \/ /\ ~ IsCancelled
     /\ \E k \in DOMAIN handler :
          /\ Owns(handler, k, name)
          /\ EnterBlock(f, SlotSteps(handler[k], name),
                        SubSeq(handler, 1, k),
                        SubSeq(handler, k + 1, Len(handler)))

(* Context::call: the flag is read, then the function is looked up.        *)
CallFunction ==
  /\ stack # <<>> /\ Top.kind = "call" /\ Top.pc = "enter"
  /\ \/ /\ IsCancelled
        /\ Finish("cancelled")
     \/ /\ ~ IsCancelled
        /\ Top.step.call \notin Functions
        /\ Finish("error")
     \/ /\ ~ IsCancelled
        /\ Top.step.call \in Functions
        /\ Become([Top EXCEPT !.pc = "run"])
        /\ UNCHANGED <<handler, noticed>>
  /\ UNCHANGED <<prog, tags, scopes, cancelled>>

(* A function is about to run, or its slot has replied at pc.              *)
Running(call) ==
  /\ stack # <<>> /\ Top.kind = "call" /\ Top.step.call = call
  /\ Top.pc = "run"

Replied(call, pc) ==
  /\ stack # <<>> /\ Top.kind = "call" /\ Top.step.call = call
  /\ Top.pc = pc /\ reply # "none"

-----------------------------------------------------------------------------
(* Functions that run no slot.                                             *)

Primitive ==
  /\ Running("primitive")
  /\ \E r \in {"ok", "error"} : Finish(r)
  /\ UNCHANGED <<prog, tags, scopes, cancelled>>

FlowSignal ==
  /\ \E signal \in Signals : Running(signal) /\ Finish(signal)
  /\ UNCHANGED <<prog, tags, scopes, cancelled>>

FlowCheckAbort ==
  /\ Running("check_abort")
  /\ Finish(IF IsCancelled THEN "cancelled" ELSE "ok")
  /\ UNCHANGED <<prog, tags, scopes, cancelled>>

-----------------------------------------------------------------------------
(* flow/if: a branch that is not found is an empty one.                    *)

FlowIf ==
  /\ Running("if")
  /\ \E branch \in {"then", "else"} : RunSlot(branch, [Top EXCEPT !.pc = "branch"])
  /\ UNCHANGED <<prog, tags, scopes, cancelled>>

(* Faulty variant: any failure counts as a missing branch.                 *)
IfReturns_AnyFailure ==
  /\ Replied("if", "branch")
  /\ Finish(IF reply \in Failures THEN "ok" ELSE reply)
  /\ UNCHANGED <<prog, tags, scopes, cancelled>>

IfReturns ==
  /\ Replied("if", "branch")
  /\ Finish(IF reply = "slot_not_found" THEN "ok" ELSE reply)
  /\ UNCHANGED <<prog, tags, scopes, cancelled>>

-----------------------------------------------------------------------------
(* flow/try: signals pass through; an error of the body goes to the catch  *)
(* slot if meta shows one; the finally slot runs before an error that is   *)
(* still pending is returned, and its own error replaces it.               *)

FlowTry ==
  /\ Running("try")
  /\ RunSlot("children", [Top EXCEPT !.pc = "body"])
  /\ UNCHANGED <<prog, tags, scopes, cancelled>>

TrySignal ==
  /\ Replied("try", "body") \/ Replied("try", "catch")
  /\ reply \in Signals
  /\ Finish(reply)
  /\ UNCHANGED <<prog, tags, scopes, cancelled>>

Catches == Top.pc = "body" /\ reply \in Failures /\ HasSlot(Top.step, "catch", prog)

TryCatch ==
  /\ Replied("try", "body")
  /\ Catches
  /\ RunSlot("catch", [Top EXCEPT !.pc = "catch"])
  /\ UNCHANGED <<prog, tags, scopes, cancelled>>

(* Faulty variant: a pending error is returned without the finally slot.   *)
TryFinally_ErrorFirst ==
  /\ Replied("try", "body") \/ Replied("try", "catch")
  /\ reply \notin Signals
  /\ ~ Catches
  /\ IF reply = "ok" /\ HasSlot(Top.step, "finally", prog)
     THEN RunSlot("finally", [Top EXCEPT !.pc = "finally"])
     ELSE Finish(reply)
  /\ UNCHANGED <<prog, tags, scopes, cancelled>>

TryFinally ==
  /\ Replied("try", "body") \/ Replied("try", "catch")
  /\ reply \notin Signals
  /\ ~ Catches
  /\ IF HasSlot(Top.step, "finally", prog)
     THEN RunSlot("finally", [Top EXCEPT !.pc = "finally", !.pending = reply])
     ELSE Finish(reply)
  /\ UNCHANGED <<prog, tags, scopes, cancelled>>

TryReturns ==
  /\ Replied("try", "finally")
  /\ Finish(IF reply = "ok" THEN Top.pending ELSE reply)
  /\ UNCHANGED <<prog, tags, scopes, cancelled>>

-----------------------------------------------------------------------------
(* flow/foreach over a list of `limit` items, n of them done.  The result  *)
(* of the else slot is dropped, errors included.                           *)

FlowForeach ==
  /\ Running("foreach")
  /\ \/ Finish("error")                      \* `list` is not a list
     \/ RunSlot("else", [Top EXCEPT !.pc = "else"])
     \/ \E items \in 1..MaxItems :
          /\ Become([Top EXCEPT !.pc = "next", !.limit = items])
          /\ UNCHANGED <<handler, noticed>>
  /\ UNCHANGED <<prog, tags, scopes, cancelled>>

ForeachElseReturns ==
  /\ Replied("foreach", "else")
  /\ Finish("ok")
  /\ UNCHANGED <<prog, tags, scopes, cancelled>>

ForeachItem ==
  /\ stack # <<>> /\ Top.kind = "call" /\ Top.step.call = "foreach"
  /\ Top.pc = "next"
  /\ IF Top.n = Top.limit THEN Finish("ok")
     ELSE RunSlot("body", [Top EXCEPT !.pc = "body"])
  /\ UNCHANGED <<prog, tags, scopes, cancelled>>

(* Faulty variant: only break is taken for a signal to the loop.           *)
ForeachBodyReturns_BreakOnly ==
  /\ Replied("foreach", "body")
  /\ \/ /\ reply = "ok"
        /\ Become([Top EXCEPT !.pc = "next", !.n = @ + 1])
        /\ UNCHANGED <<handler, noticed>>
     \/ /\ reply # "ok"
        /\ Finish(IF reply = "break" THEN "ok" ELSE reply)
  /\ UNCHANGED <<prog, tags, scopes, cancelled>>

ForeachBodyReturns ==
  /\ Replied("foreach", "body")
  /\ \/ /\ reply \in {"ok", "continue"}
        /\ Become([Top EXCEPT !.pc = "next", !.n = @ + 1])
        /\ UNCHANGED <<handler, noticed>>
     \/ /\ reply = "break"
        /\ Finish("ok")
     \/ /\ reply \in Failures
        /\ Finish(reply)
  /\ UNCHANGED <<prog, tags, scopes, cancelled>>

-----------------------------------------------------------------------------
(* flow/while with maxIterations = limit, 0 for none, after n iterations.  *)
(* Without a limit only whether n is zero matters, so n stops at 1.        *)

FlowWhile ==
  /\ Running("while")
  /\ \/ Finish("error")                      \* malformed state or limit
     \/ \E limit \in 0..MaxIterations :
          /\ Become([Top EXCEPT !.pc = "test", !.limit = limit])
          /\ UNCHANGED <<handler, noticed>>
  /\ UNCHANGED <<prog, tags, scopes, cancelled>>

(* Faulty variant: the limit is passed by one iteration.                   *)
WhileTest_OffByOne ==
  /\ stack # <<>> /\ Top.kind = "call" /\ Top.step.call = "while"
  /\ Top.pc = "test"
  /\ IF ~ IsCancelled /\ Top.limit > 0 /\ Top.n > Top.limit
     THEN Finish("error")
     ELSE RunSlot("condition", [Top EXCEPT !.pc = "condition"])
  /\ UNCHANGED <<prog, tags, scopes, cancelled>>

WhileTest ==
  /\ stack # <<>> /\ Top.kind = "call" /\ Top.step.call = "while"
  /\ Top.pc = "test"
  /\ IF ~ IsCancelled /\ Top.limit > 0 /\ Top.n >= Top.limit
     THEN Finish("error")
     ELSE RunSlot("condition", [Top EXCEPT !.pc = "condition"])
  /\ UNCHANGED <<prog, tags, scopes, cancelled>>

WhileConditionReturns ==
  /\ Replied("while", "condition")
  /\ \/ reply # "ok" /\ Finish(reply)
     \/ reply = "ok" /\ Finish("error")      \* neither a boolean nor a decision
     \/ reply = "ok" /\ RunSlot("body", [Top EXCEPT !.pc = "body"])
     \/ /\ reply = "ok"
        /\ IF Top.n = 0 THEN RunSlot("else", [Top EXCEPT !.pc = "else"])
           ELSE Finish("ok")
  /\ UNCHANGED <<prog, tags, scopes, cancelled>>

WhileBodyReturns ==
  /\ Replied("while", "body")
  /\ \/ /\ reply \in {"ok", "continue"}
        /\ Become([Top EXCEPT !.pc = "test",
                              !.n = IF Top.limit = 0 THEN 1 ELSE @ + 1])
        /\ UNCHANGED <<handler, noticed>>
     \/ /\ reply = "break"
        /\ Finish("ok")
     \/ /\ reply \in Failures
        /\ Finish(reply)
  /\ UNCHANGED <<prog, tags, scopes, cancelled>>

WhileElseReturns ==
  /\ Replied("while", "else")
  /\ Finish(reply)
  /\ UNCHANGED <<prog, tags, scopes, cancelled>>

-----------------------------------------------------------------------------
(* compose/run_slot: whatever happens in the slot becomes a value, which   *)
(* says whether the slot ran.                                              *)

ComposeRunSlot ==
  /\ Running("run_slot")
  /\ \/ Finish("error")                      \* no slot named
     \/ RunSlot(Top.step.target, [Top EXCEPT !.pc = "slot"])
  /\ UNCHANGED <<prog, tags, scopes, cancelled>>

ReportsRan == ~ (Top.step.optional /\ reply = "slot_not_found")

ComposeRunSlotReturns ==
  /\ Replied("run_slot", "slot")
  /\ Finish("ok")
  /\ UNCHANGED <<prog, tags, scopes, cancelled>>

-----------------------------------------------------------------------------
(* log.context pushes its tags (n = 1) unless they are empty (n = 0), runs *)
(* the children - meta.children is always there - and pops on success.  Tags  *)
(* left behind pile up in loops, hence the bound.                          *)

LogContext ==
  /\ Running("log_context")
  /\ \/ Finish("error") /\ UNCHANGED tags    \* malformed tags
     \/ \E pushed \in {0, 1} :
          /\ tags + pushed <= MaxTags
          /\ tags' = tags + pushed
          /\ RunSlot("children", [Top EXCEPT !.pc = "children", !.n = pushed])
  /\ UNCHANGED <<prog, scopes, cancelled>>

(* Faulty variant: the tags are popped whether or not any were pushed.     *)
LogContextReturns_AlwaysPops ==
  /\ Replied("log_context", "children")
  /\ Finish(reply)
  /\ tags' = IF reply = "ok" /\ tags > 0 THEN tags - 1 ELSE tags
  /\ UNCHANGED <<prog, scopes, cancelled>>

LogContextReturns ==
  /\ Replied("log_context", "children")
  /\ Finish(reply)
  /\ tags' = IF reply = "ok" THEN tags - Top.n ELSE tags
  /\ UNCHANGED <<prog, scopes, cancelled>>

-----------------------------------------------------------------------------
(* registry/scope leaves the scope whatever became of its children, or of  *)
(* the registration of its inline components.                              *)

RegistryScope ==
  /\ Running("scope")
  /\ \/ Finish("error") /\ UNCHANGED scopes  \* an inline component is malformed
     \/ /\ scopes' = scopes + 1
        /\ RunSlot("children", [Top EXCEPT !.pc = "children"])
  /\ UNCHANGED <<prog, tags, cancelled>>

(* Faulty variant: an error of the children leaves the scope open.         *)
RegistryScopeReturns_ErrorFirst ==
  /\ Replied("scope", "children")
  /\ Finish(reply)
  /\ scopes' = IF reply = "ok" THEN scopes - 1 ELSE scopes
  /\ UNCHANGED <<prog, tags, cancelled>>

RegistryScopeReturns ==
  /\ Replied("scope", "children")
  /\ Finish(reply)
  /\ scopes' = scopes - 1
  /\ UNCHANGED <<prog, tags, cancelled>>

-----------------------------------------------------------------------------
(* A component registered from a compose: run_compose in the same context, *)
(* so that its steps fall back on the slots of the calling step.           *)

Component ==
  /\ Running("component")
  /\ EnterBlock([Top EXCEPT !.pc = "compose"], Top.step.body, <<>>, handler)
  /\ UNCHANGED <<prog, tags, scopes, cancelled>>

ComponentReturns ==
  /\ Replied("component", "compose")
  /\ Finish(reply)
  /\ UNCHANGED <<prog, tags, scopes, cancelled>>

-----------------------------------------------------------------------------
(* Another thread sets the flag; it is never cleared.                      *)
Cancel ==
  /\ stack # <<>> /\ ~ cancelled
  /\ cancelled' = TRUE
  /\ UNCHANGED <<prog, stack, reply, handler, tags, scopes, noticed>>

Ended == stack = <<>>

(* The run is over; its result is in `reply`.                              *)
Terminating == Ended /\ UNCHANGED vars

Engine == BeginStep \/ StepCancelled \/ EndBlock \/ StepReturns \/ CallFunction

Flow ==
  \/ Primitive \/ FlowSignal \/ FlowCheckAbort \/ FlowIf \/ IfReturns
  \/ FlowTry \/ TrySignal \/ TryCatch \/ TryFinally \/ TryReturns
  \/ FlowForeach \/ ForeachElseReturns \/ ForeachItem \/ ForeachBodyReturns
  \/ FlowWhile \/ WhileTest \/ WhileConditionReturns \/ WhileBodyReturns
  \/ WhileElseReturns

Contracts ==
  \/ ComposeRunSlot \/ ComposeRunSlotReturns \/ LogContext \/ LogContextReturns
  \/ RegistryScope \/ RegistryScopeReturns \/ Component \/ ComponentReturns

Run == Engine \/ Flow \/ Contracts

Next == Run \/ Cancel \/ Terminating

Spec == Init /\ [][Next]_vars

(* The thread running the composition is never starved; nothing forces a   *)
(* cancellation.                                                           *)
FairSpec == Spec /\ WF_vars(Run)
-----------------------------------------------------------------------------
(* Properties.                                                             *)

TypeOK ==
  /\ prog \in [Block -> Seq(Step)]
  /\ stack \in Seq(StepsFrame \cup CallFrame)
  /\ reply \in Replies \cup {"none"}
  /\ handler \in Chain
  /\ tags \in Nat
  /\ scopes \in Nat
  /\ cancelled \in BOOLEAN
  /\ noticed \in BOOLEAN

(* Executors are moved in and out of the context by run_steps and run_slot *)
(* on every path, errors and cancellation included.  Whenever control is   *)
(* back in a frame the context holds exactly the executors it held when    *)
(* the frame was entered; a function never finds the context without one   *)
(* ("runSlot not available"); and a finished run leaves none behind.       *)
SlotDiscipline ==
  /\ stack # <<>> /\ reply = "none" => handler = Top.chain
  /\ stack # <<>> /\ Top.kind = "call" => handler # <<>>
  /\ stack = <<>> => handler = <<>>

(* registry/scope leaves every scope it entered, whichever way its         *)
(* children ended: the snapshots kept are those of the calls in progress.  *)
InScope(f) == f.kind = "call" /\ f.step.call = "scope" /\ f.pc = "children"

OpenScopes == {k \in DOMAIN stack : InScope(stack[k])}

ScopeBalance == scopes = Cardinality(OpenScopes)

(* log.context never pops tags it did not push: while a log.context is     *)
(* running its children its own tags are there.                            *)
Tagging(f) == f.kind = "call" /\ f.step.call = "log_context" /\ f.n = 1

OpenLogContexts == {k \in DOMAIN stack : Tagging(stack[k])}

TagsKept == tags >= Cardinality(OpenLogContexts)

(* log.context restores the tags it found: outside of it none are left.    *)
(* It does not when the children fail, since only success pops them.       *)
TagsRestored == tags <= Cardinality(OpenLogContexts)

(* A cancellation that any check of the run has noticed is what the run    *)
(* reports: nothing turns it into another result on its way up.            *)
CancellationReported == Ended /\ noticed => reply = "cancelled"

(* It is true of programs without the two functions that drop the errors   *)
(* of a slot: compose/run_slot, and foreach those of its else slot.        *)
Calls(p) == UNION {{p[b][i].call : i \in DOMAIN p[b]} : b \in Block}

CancellationKept ==
  Calls(prog) \cap {"run_slot", "foreach"} = {} => CancellationReported

(* compose/run_slot reports that an optional slot did not run only if the  *)
(* slot is missing, not when the slot ran and met a missing slot itself.   *)
NotRanMeansMissing ==
  stack # <<>> /\ Replied("run_slot", "slot") /\ ~ ReportsRan => ~ Top.ran

(* The counters of the loops never pass their limit, and the body of a     *)
(* while with maxIterations is never run once more than allowed.           *)
LoopBounds ==
  \A k \in DOMAIN stack :
    stack[k].kind = "call" /\ stack[k].limit > 0 =>
      /\ stack[k].n <= stack[k].limit
      /\ stack[k].pc = "body" => stack[k].n < stack[k].limit

(* What a step does to the innermost call: it leaves it with a result.     *)
Leaves(call) ==
  /\ stack # <<>> /\ Top.kind = "call" /\ Top.step.call = call
  /\ Len(stack') < Len(stack)

(* A try that was entered is not left before its finally slot has been     *)
(* asked for, unless a flow signal passes through it or the run is         *)
(* cancelled, in which case the finally slot is skipped.                   *)
FinallyRuns ==
  [][Leaves("try") /\ HasSlot(Top.step, "finally", prog) =>
       Top.pc = "finally" \/ reply' \in Signals \/ cancelled]_vars

(* A break or continue raised in the body of a loop, however deep inside   *)
(* other blocks and components, ends in that loop.                         *)
LoopsContainSignals ==
  [][(Leaves("foreach") \/ Leaves("while")) /\ Top.pc = "body" =>
       reply' \notin Signals]_vars

(* A cancelled run ends, whatever loops without limit it was in.           *)
CancelEndsRun == cancelled ~> Ended
=============================================================================
