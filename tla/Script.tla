------------------------------- MODULE Script -------------------------------
(***************************************************************************)
(* tooling/script (src/src/tooling/script.rs), a step that runs JavaScript *)
(* on a copy of its state, and what run_steps makes of its answer.  The    *)
(* engine is external: a script may log, call back into the kernel, run    *)
(* the tools that came with it, catch what is thrown, change its copy, and *)
(* end, in any order.  Time is counted in steps.                           *)
(***************************************************************************)
EXTENDS ToolingData, SequencesExt

VARIABLES pc,
          running,    \* the script and the tools it runs, innermost last
          thrown,     \* the innermost is throwing
          clock,
          cancelled,
          snapshot,   \* the state the script was given
          copy,       \* its copy of it
          messages,   \* the buffer of messages, shared with the tools
          said,       \* history: the messages of script and tools
          overran,    \* history: the script took longer than its timeout
          answer,     \* what the contract answers
          state,      \* the state of the composition: whose each key is
          output      \* messages in what the step puts out

engine == <<running, thrown, clock, snapshot, copy>>
log    == <<messages, said>>
ending == <<answer, overran, state, output>>
vars   == <<pc, engine, log, ending, cancelled>>

(* A state as a script has it: an object that lacks some of the keys, or   *)
(* no object.                                                              *)
Snapshot == [Field -> {"absent", "given"}] \cup {NoObject}

Copy == [Field -> {"absent", "given", "written"}] \cup {NoObject}

Answer == [success : BOOLEAN, object : BOOLEAN, patch : Copy,
           messages : 0..MaxMessages]

NoAnswer == [success |-> FALSE, object |-> FALSE, patch |-> NoObject, messages |-> 0]

(* What the keys of the composition have, or do not, before the step.      *)
Before == [f \in Field |-> "before"]

(* timeout: in milliseconds, 0 for none.                                   *)
Invocation == [timeout : 0..MaxTime, started : 0..MaxTime]

TypeOK ==
  /\ pc \in {"idle", "prepare", "run", "answered", "ended", "refused"}
  /\ running \in Seq(Invocation) /\ (pc = "run" <=> running # <<>>)
  /\ thrown \in BOOLEAN /\ cancelled \in BOOLEAN
  /\ snapshot \in Snapshot /\ copy \in Copy
  /\ clock \in 0..MaxTime
  /\ messages \in 0..MaxMessages /\ said \in 0..MaxMessages
  /\ answer \in Answer
  /\ overran \in BOOLEAN
  /\ state \in [Field -> {"before", "given", "written"}]
  /\ output \in 0..MaxMessages

Init ==
  /\ pc = "idle"
  /\ running = <<>>
  /\ thrown = FALSE /\ cancelled = FALSE
  /\ snapshot = NoObject /\ copy = NoObject
  /\ clock = 0
  /\ messages = 0 /\ said = 0 /\ output = 0
  /\ answer = NoAnswer
  /\ overran = FALSE
  /\ state = Before

Top == Last(running)

(* Context::call, and the checks of the call: its language and source, the *)
(* streams it names, its tools.  The state it is given is its input.       *)
CallScript ==
  /\ pc = "idle"
  /\ \/ pc' = "refused" /\ UNCHANGED <<snapshot, copy>>
     \/ /\ ~ cancelled
        /\ pc' = "prepare"
        /\ snapshot' \in Snapshot
        /\ copy' = snapshot'
  /\ UNCHANGED <<running, thrown, clock, cancelled, log, ending>>

(* An error, a cancellation too, becomes a value, without a patch.         *)
Fail ==
  /\ pc' = "answered"
  /\ running' = <<>>
  /\ thrown' = FALSE
  /\ answer' = [success |-> FALSE, object |-> TRUE, patch |-> NoObject,
                messages |-> messages]

BeginScript ==
  /\ pc = "prepare"
  /\ IF cancelled
       THEN Fail
       ELSE /\ \E timeout \in 0..MaxTime :
                 running' = <<[timeout |-> timeout, started |-> clock]>>
            /\ pc' = "run"
            /\ UNCHANGED <<thrown, answer>>
  /\ UNCHANGED <<clock, cancelled, snapshot, copy, state, output, overran, log>>

Executes == pc = "run" /\ ~ thrown

Pass(time) == clock + time <= MaxTime /\ clock' = clock + time

(* Faulty variant: a tool has a buffer of its own.                         *)
Buffer_OfScript == IF Len(running) = 1 THEN messages + 1 ELSE messages

Buffer == messages + 1

(* api.log, and console.*, which also calls the logger and does not care.  *)
Message ==
  /\ Executes /\ said < MaxMessages
  /\ said' = said + 1
  /\ messages' = Buffer
  /\ UNCHANGED <<pc, cancelled, engine, ending>>

(* api.call, api.runSlot and the imports: an error of the kernel, a signal *)
(* or a cancellation is thrown as text.                                    *)
Callback ==
  /\ Executes
  /\ \E time \in {0, 1} : Pass(time)
  /\ thrown' \in IF cancelled THEN {TRUE} ELSE BOOLEAN
  /\ UNCHANGED <<pc, running, cancelled, snapshot, copy, log, ending>>

Throw ==
  /\ Executes
  /\ thrown' = TRUE
  /\ UNCHANGED <<pc, running, clock, cancelled, snapshot, copy, log, ending>>

Catch ==
  /\ pc = "run" /\ thrown
  /\ thrown' = FALSE
  /\ UNCHANGED <<pc, running, clock, cancelled, snapshot, copy, log, ending>>

(* The copy of the script itself, which it may also replace; tools get a   *)
(* payload, whose changes are dropped.                                     *)
Change ==
  /\ Executes /\ Len(running) = 1
  /\ copy' \in Copy
  /\ UNCHANGED <<pc, running, thrown, clock, snapshot, cancelled, log, ending>>

(* api.run: the timeout is that of the call, of the tool or of the script. *)
RunTool ==
  /\ Executes
  /\ IF cancelled
       THEN thrown' = TRUE /\ UNCHANGED running
       ELSE /\ Len(running) <= MaxTools
            /\ \E timeout \in 0..MaxTime :
                 running' = Append(running, [timeout |-> timeout, started |-> clock])
            /\ UNCHANGED thrown
  /\ UNCHANGED <<pc, clock, cancelled, snapshot, copy, log, ending>>

(* Only now is it looked at the time.                                      *)
Late == Top.timeout > 0 /\ clock - Top.started > Top.timeout

ToolEnds ==
  /\ pc = "run" /\ Len(running) > 1
  /\ running' = Front(running)
  /\ thrown' = (thrown \/ Late)
  /\ UNCHANGED <<pc, clock, cancelled, snapshot, copy, log, ending>>

ScriptFails ==
  /\ pc = "run" /\ Len(running) = 1
  /\ thrown \/ Late
  /\ Fail
  /\ overran' = Late
  /\ UNCHANGED <<clock, cancelled, snapshot, copy, state, output, log>>

(* The copy, if it is an object and not what the script was given.         *)
Patch == IF copy # snapshot THEN copy ELSE NoObject

(* Faulty variant: the time is not looked at.                              *)
ScriptReturns_Late ==
  /\ Executes /\ Len(running) = 1
  /\ pc' = "answered"
  /\ running' = <<>>
  /\ \E object \in BOOLEAN :
       answer' = [success |-> TRUE, object |-> object, patch |-> Patch,
                  messages |-> messages]
  /\ overran' = Late
  /\ UNCHANGED <<thrown, clock, cancelled, snapshot, copy, state, output, log>>

(* The result may be an object or another value.                           *)
ScriptReturns ==
  /\ Executes /\ Len(running) = 1 /\ ~ Late
  /\ pc' = "answered"
  /\ running' = <<>>
  /\ \E object \in BOOLEAN :
       answer' = [success |-> TRUE, object |-> object, patch |-> Patch,
                  messages |-> messages]
  /\ overran' = Late
  /\ UNCHANGED <<thrown, clock, cancelled, snapshot, copy, state, output, log>>

(* A value that is no object is wrapped, to carry the patch or the         *)
(* messages; run_steps takes it out of the wrapping for a patch.           *)
Wrapped == answer.patch # NoObject /\ ~ answer.object

(* The state with the keys of a patch inserted: none is removed.           *)
Patched(patch) ==
  [f \in Field |-> IF patch[f] = "absent" THEN state[f] ELSE patch[f]]

StepReturns ==
  /\ pc = "answered"
  /\ pc' = "ended"
  /\ state' = IF answer.patch = NoObject THEN state ELSE Patched(answer.patch)
  /\ output' = IF Wrapped THEN 0 ELSE answer.messages
  /\ UNCHANGED <<cancelled, overran, answer, engine, log>>

Cancel ==
  /\ pc # "ended"
  /\ cancelled' = TRUE
  /\ UNCHANGED <<pc, engine, log, ending>>

Next ==
  \/ CallScript \/ BeginScript
  \/ Message \/ Callback \/ Throw \/ Catch \/ Change \/ RunTool
  \/ ToolEnds \/ ScriptFails \/ ScriptReturns
  \/ StepReturns \/ Cancel
-----------------------------------------------------------------------------
(* Properties.                                                             *)

(* The state of a composition changes only if the script succeeds in time  *)
(* with a copy that is an object and is not what it was given: not if it   *)
(* fails, is cancelled or is late, whatever it did before.  Then each key  *)
(* of the copy is in the state as the script left it, those it was given   *)
(* and did not touch too, and the keys it removed stay as they were.       *)
PatchMerged ==
  LET patches == answer.success /\ copy \notin {snapshot, NoObject}
  IN /\ state # Before => patches /\ ~ overran
     /\ pc = "ended" /\ patches =>
          \A f \in Field :
            state[f] = IF copy[f] = "absent" THEN "before" ELSE copy[f]

(* What a script and its tools have said is in the output of its step,     *)
(* unless it changed its state and returned something else than an object. *)
MessagesKept == pc = "ended" => output = said \/ Wrapped
=============================================================================
