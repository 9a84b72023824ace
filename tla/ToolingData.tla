----------------------------- MODULE ToolingData -----------------------------
(***************************************************************************)
(* What the functions under src/src/tooling are given, and the bounds of   *)
(* their models: Resolver, QueueBfs, Logging and Script.                   *)
(***************************************************************************)
EXTENDS Integers, Sequences

CONSTANTS
  (* Resolver *)
  Dep,         \* the dependencies that descriptors may name
  Skipped,     \* contracts, axioms and the like: they are not resolved
  Root,        \* what is being resolved, not itself a dependency
  Descriptor,  \* paths of descriptors
  NoKey,       \* not one of them
  Requires,    \* lists of dependencies that occur in descriptors
  Unreadable,  \* the state of a file that is malformed
  Gone,        \* the state of a file that is not there
  Unusable,    \* a source that leads to no file
  SourceMaps,  \* maps of sources that occur
  MaxEdits,    \* bound: changes to the files in the meantime
  (* QueueBfs *)
  Item,        \* items of the queue; as text, an item is also a key
  Key,         \* keys the key slot may answer
  MaxItems,    \* bound: items the queue starts with
  MaxChildren, \* bound: children of an item
  MaxLimit,    \* bound: the largest maxIterations
  (* Logging *)
  SpecLogLimit,  \* entries kept by the spec log (1024)
  MaxNesting,    \* bound: loggers called from within a logger
  (* Script *)
  Field,       \* keys of a state
  NoObject,    \* a state that is not an object
  MaxMessages, \* bound: messages of a script
  MaxTools,    \* bound: tools run from within a tool
  MaxTime      \* bound: the time that passes

ASSUME ResolverAssumption ==
  /\ Skipped \subseteq Dep /\ Root \notin Dep
  /\ Unusable \notin Descriptor /\ NoKey \notin Descriptor
  /\ <<>> \in Requires /\ Requires \subseteq Seq(Dep)
  /\ Unreadable \notin Requires /\ Gone \notin Requires
  /\ MaxEdits \in Nat

ASSUME SourcesAssumption ==
  \A m \in SourceMaps : /\ DOMAIN m \subseteq Dep
                        /\ m \in [DOMAIN m -> Descriptor \cup {Unusable}]

ASSUME QueueAssumption ==
  /\ Item \subseteq Key
  /\ MaxItems \in Nat /\ MaxChildren \in Nat /\ MaxLimit \in Nat

ASSUME LogAssumption == SpecLogLimit \in Nat /\ MaxNesting \in Nat

ASSUME ScriptAssumption ==
  /\ NoObject \notin [Field -> {"absent", "given", "written"}]
  /\ MaxMessages \in Nat /\ MaxTools \in Nat /\ MaxTime \in Nat
=============================================================================
