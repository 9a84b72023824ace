------------------------------ MODULE MCTooling ------------------------------
(***************************************************************************)
(* Instances of the parts of the kernel that share no state: the streams,  *)
(* the resolution of dependencies, the queue helper, logging and scripts.  *)
(* A behaviour is one of a single part.  Variables of the same name are    *)
(* declared once, for the part that runs.                                  *)
(***************************************************************************)
EXTENDS MCStreamManager, ToolingData

Parts == {"streams", "resolver", "queue", "logging", "script"}

VARIABLES part,
          (* Resolver, QueueBfs *)
          links, files, edits, moved, call, path, lookup, cache, tree, visited,
          answer,
          queue, iterations, limit, item, key, known, queued, processed,
          (* QueueBfs, Logging, Script *)
          pc, cancelled, running, threshold, logger, spec, truncated,
          thrown, clock, snapshot, copy, messages, said, overran, verdict, state,
          output

R == INSTANCE Resolver
Q == INSTANCE QueueBfs
L == INSTANCE Logging
S == INSTANCE Script WITH answer <- verdict

resolving == <<links, files, edits, moved, call, path, lookup, cache, tree>>
searching == <<queue, iterations, limit, item, key, known, queued, processed>>
logging   == <<threshold, logger, spec, truncated>>
scripting == <<thrown, clock, snapshot, copy, messages, said, overran, verdict,
               state, output>>
shared    == <<visited, answer, pc, cancelled, running>>
partVars  == <<part, vars, resolving, searching, logging, scripting, shared>>

PartsInit ==
  /\ part \in Parts
  /\ Init /\ R!Init /\ Q!Init /\ L!Init /\ S!Init
  /\ part # "resolver" =>
       \A d \in Descriptor : links[d] = d /\ files[d] = Gone
  /\ part # "logging" => threshold = 0 /\ logger = "none"

Streams ==
  /\ part = "streams" /\ Next
  /\ UNCHANGED <<part, resolving, searching, logging, scripting, shared>>

Resolver ==
  /\ part = "resolver" /\ R!Next
  /\ UNCHANGED <<part, vars, searching, logging, scripting, pc, cancelled, running>>

Queue ==
  /\ part = "queue" /\ Q!Next
  /\ UNCHANGED <<part, vars, resolving, logging, scripting, running>>

Logs ==
  /\ part = "logging" /\ L!Next
  /\ UNCHANGED <<part, vars, resolving, searching, scripting, visited, answer, pc>>

Scripts ==
  /\ part = "script" /\ S!Next
  /\ UNCHANGED <<part, vars, resolving, searching, logging, visited, answer>>

(* The resolution or the search has answered, the step has ended.          *)
Ended ==
  /\ \/ part = "resolver" /\ answer # "none"
     \/ part = "queue" /\ pc = "ended"
     \/ part = "script" /\ pc \in {"ended", "refused"}
  /\ UNCHANGED partVars

PartsNext == Streams \/ Resolver \/ Queue \/ Logs \/ Scripts \/ Ended

(* Streams have not been registered, and nothing is being resolved, in a   *)
(* behaviour of another part: there these conditions are void.             *)
PartsSpec ==
  /\ PartsInit /\ [][PartsNext]_partVars
  /\ \A id \in 1..MaxStreams : WF_vars(\E n \in Limit \ {0} : Read(id, n))
  /\ WF_(R!vars)(R!Resolve)
-----------------------------------------------------------------------------
(* Descriptors: two files, one of which two dependencies share; a cycle    *)
(* with and without something before it; a dependency shared by two others *)
(* or listed twice; one that is skipped.                                   *)
CONSTANTS a, b, c, axiom, fileA, fileB, ka, kb, k, fieldA, fieldB

MCDep == {a, b, c, axiom}
MCSkipped == {axiom}
MCRequires == {<<>>, <<c>>, <<a, b>>, <<b, b, axiom>>}
MCDescriptor == {fileA, fileB}
MCSourceMaps ==
  {<<>>,
   [d \in {a, b} |-> IF d = a THEN fileA ELSE fileB],
   [d \in MCDep |-> IF d \in {c, axiom} THEN fileB ELSE fileA],
   [d \in {b, c} |-> IF d = b THEN Unusable ELSE fileB]}

MCItem == {ka, kb}
MCKey == {ka, kb, k}

MCField == {fieldA, fieldB}

(* The types of Resolver, QueueBfs, Logging and Script.                    *)
TypesOK ==
  /\ part = "resolver" => R!TypeOK
  /\ part = "queue"    => Q!TypeOK
  /\ part = "logging"  => L!TypeOK
  /\ part = "script"   => S!TypeOK

(* resolve_dependencies: what succeeds has followed every dependency, of   *)
(* one reading of each file while files are only written to.               *)
ResolvesWhole == part = "resolver" => R!ResolvesWhole

(* resolve_dependency_node: a cycle that is reported is there.             *)
CyclesAreReal == R!CyclesAreReal

(* resolve_dependencies: every resolution ends, cyclic or not.             *)
ResolutionEnds == R!ResolutionEnds

(* queue_bfs: each key once, each item counted, the limit kept, nothing    *)
(* left out of a success.                                                  *)
SearchSound == part = "queue" => Q!SearchSound

(* queue_bfs: nothing is processed after a cancellation.                   *)
CancelStopsSearch == Q!CancelStopsSearch

(* emit_log: the steps of a logger do not reach it at thresholds above     *)
(* error.                                                                  *)
LoggerNotReentered == part = "logging" => L!LoggerNotReentered

(* push_spec_log: the first entries are kept, then one notice.             *)
SpecLogBounded == part = "logging" => L!SpecLogBounded

(* script_contract, run_steps: a script that fails or is late leaves the   *)
(* state as it was, one that succeeds is merged into it, key by key.       *)
PatchMerged == part = "script" => S!PatchMerged

(* script_contract: what was said is in the output, unless it is lost with *)
(* a wrapping.                                                             *)
MessagesKept == part = "script" => S!MessagesKept
=============================================================================
