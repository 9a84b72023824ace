# Verification of lcod-kernel-rs

TLA+ models of the LCOD kernel in Rust, checked by TLC on small instances, with
theorems about them proved by TLAPS. Paths like `compose.rs:720` are relative to
`src/src/`; `PROJECT.json` maps every definition to the lines it stands for.

## 1. The system

The kernel runs *compositions*: JSON or YAML documents whose steps call
functions by name. A step may hand blocks of steps ("slots") to the function it
calls, and functions run those slots through the context. There is one registry
of functions, shared by every context made from it; a context holds what one
thread of execution needs. Only three things run concurrently: the timer and
Ctrl-C threads of `lcod-run`, which set a flag; one thread for each HTTP host;
and other processes that share the caches on disk.

| Part | State it keeps | Operations | Works with |
|---|---|---|---|
| compose engine (`compose.rs`) | none of its own: the state of the composition and the executor it puts into the context | `run_compose`, `run_steps`, `ComposeSlotHandler::run_slot`, normalisation of steps | calls functions through the context; replaces the context's slot executor around each step |
| contexts (`registry.rs` 267-539) | cancellation flag, slot executor, scope snapshots, log tags, spec log, streams, HTTP hosts, raw inputs | `call`, `run_slot`, `replace_run_slot_handler`, `enter/leave_registry_scope`, `push/pop_log_tags`, `cancel` | the registry, behind a mutex; the flag is shared with other threads |
| registry (`registry.rs` 72-265) | functions, bindings | `register*`, `set_binding`, `context`, lookup | every context |
| flow operators (`flow/mod.rs`) | none | `if`, `try`, `foreach`, `while`, `break`, `continue`, `check_abort` | run slots, raise and catch signals |
| compose contracts (`compose_contracts.rs`) | none | `compose/run_slot` | runs a slot, turns its outcome into a value |
| registry scopes (`tooling/registry_scope.rs`) | a snapshot for each open scope | `tooling/registry/scope` | the registry, and the slot `children` |
| logging (`tooling/logging.rs`) | tags of the context; level threshold shared by all threads | `log`, `log.context`, kernel log | calls the logger bound to the contract |
| streams (`streams.rs`) | entries by handle, a counter | register, `read`, `close` | fed by `core/http`, read by components and by the resolver's download |
| HTTP hosts (`http/`) | hosts by handle, a flag and a thread each | start, stop, handle a request | handlers run in contexts of their own |
| scripts (`tooling/script.rs`) | none | `tooling/script` | calls back into the context |
| tooling helpers (`tooling/mod.rs`) | none | queue_bfs, resolver/register, test checker, value helpers | run slots, register functions |
| resolver (`tooling/resolver.rs`) | path and cache of one resolution | resolve, download | the file system, HTTP streams |
| `lcod-run` (`bin/lcod_run.rs`) | cache directories, the installed runtime, the lock file, the timer | resolve a component, run it | kernel, network, other processes |
| `run-compose`, test runner | none | run a file, serve | kernel |
| core (`core/`) | none | file system, strings, arrays, git, ... | the operating system |

### What is hard, and what makes each part correct

*Compose engine and contexts.* The executor of slots is moved in and out of the
context by every step and every slot, so one path that forgets to put it back -
an error, a flow signal, a cancellation between two checks, a component that
falls back on the slots of its caller - leaves all later steps with the wrong
slots. Correct means: control always comes back to a frame with the executors
it had; scopes and tags are balanced; a cancellation, which is an error on its
way up through operators that catch errors, is what the run reports; a break
ends in the innermost loop; and a cancelled run ends.

*Registry and scopes.* A scope is a copy of the whole registry, taken under one
lock and written back, with overrides, under another. Correct means lexical
scoping for one context, and for several that what a scope changed is gone when
it was left.

*Streams.* Chunks, limits and characters do not align. Correct means that no
byte is lost or repeated, that readers cannot tell the cuts, and that a handle
that was closed stays so.

*HTTP hosts.* A worker thread and a queue behind each host; `stop` joins the
thread. Correct means that a host that is stopped serves at most the request its
worker was about to take, that no request is lost or answered twice, that hosts
started by a handler end with it, that a worker is never left asleep by whoever
joins it, and that stopping does not wait for ever.

*`lcod-run`.* Files are written under their final names, in directories that
processes share. A file that is there need not be complete after a crash, a copy
that broke off or one that two processes made at a time, nor a runtime after an
installation of which that is true, since the clean-ups of the code may fail and
ignore it; correct means that nothing *else* leaves a part behind that a later
process takes for a file, that such a fault ends with the next copy or installation
by one process alone, that a runtime that is installed stays, and that neither a
lock file nor a cancellation is passed over.

*Resolver.* The set that detects cycles holds the path of the search: cycles must
be found, a dependency shared by two others must not be taken for one, and the
result must be of one piece even if files are written to meanwhile. The cache of
descriptors is keyed by a canonical path that is computed anew at each lookup, so
nothing more can be had once links are turned or files come and go.

*queue_bfs.* Errors and cancellations of its `key` slot are dropped; keys given,
keys seen, the limit and the count of iterations must agree all the same.

*Logging.* The kernel logs the steps of compositions, and a logger may be one. The
spec log is cut at a limit and must say so once.

*Scripts.* Errors become values, tools share the messages of their script, the
time is looked at only afterwards. Correct means that a script that failed or was
late has not changed the state, that one that succeeded has its copy merged into
it key by key, and that what it said is not lost.

`PROJECT.json` lists each hazard at its line with the properties that cover it.

## 2. The models

| Module | Models | Abstract specification |
|---|---|---|
| `Slots` | steps and their children, normalisation, which executor owns a slot | |
| `Compose` | compose engine, call and run_slot of contexts, flow operators, `compose/run_slot`, `log.context`, `registry/scope`, cancellation | |
| `RegistryScope` | the registry, its contexts and their scopes | `ScopedRegistry` |
| `StreamManager` | the streams of a context | `ByteStreams` |
| `HttpHost` | the program, HTTP hosts, their workers and queues, the contexts of handlers, Ctrl-C in `run_compose` | |
| `LcodRun` | processes of `lcod-run`: the installation of the runtime, the caches, finding a composition, the lock file, timer and Ctrl-C, crashes | |
| `Resolver` | `resolve_dependencies` and files that change meanwhile | |
| `QueueBfs` | `queue_bfs` and its two slots | |
| `Logging` | threshold, dispatch to the bound logger, steps of loggers, spec log | |
| `Script` | a script and its tools, their calls back, and the step that runs them | |
| `ToolingData` | constants of the last four and what is assumed of them | |
| `MC*` | the instances that TLC checks; `MCTooling` holds the modules that share no state with others | |
| `ComposeProofs`, `RegistryScopeProofs`, `StreamManagerProofs`, `HttpHostProofs`, `LcodRunProofs` | theorems about these modules and their proofs | |
| `QueueBfsProofs`, `ResolverProofs`, `ToolingProofs` | the same for the last four, as parts of `MCTooling`; each extends the one before it | |

### Compose

The Rust is recursive; the model keeps the call stack. A frame is either a list
of steps being run (`run_steps`) or a function called for one of them, at a
label `pc` between two of the slots it runs. A result travels down in `reply`:
`"ok"`, a flow signal, or one of the errors that the code tells apart with
downcasts. One action is one run of the code between two points where another
frame takes over:

* `BeginStep`, `StepCancelled`, `EndBlock`, `StepReturns` are the loop of
  `run_steps`; `LeaveBlock` is also the end of a slot in
  `ComposeSlotHandler::run_slot` and `Context::run_slot`, which put the executors
  back and look at the flag again;
* `CallFunction` is `Context::call`; a name nobody registered is an error;
* `RunSlot` is `Context::run_slot` with the executors' search through their
  fallbacks. `handler` is the executor in the context followed by its fallbacks;
  a slot takes it apart at the owner of the slot, and `taken` is what goes back;
* one action for the start of each function and one for each point where a slot
  replies to it.

The state of a composition, conditions, list lengths and limits are free
choices: each choice the data could make is made in some behaviour. `Cancel` may
happen between any two steps of the run, which is the granularity at which the
code looks at the flag. `chain`, `ran` and `noticed` are history.

Programs are values of a constant: functions from blocks to sequences of steps,
so the theorems speak of every program. TLC gets all nestings of two functions
that run slots over every leaf (see `MCCompose`).

### RegistryScope

`CopyRegistry` and `WriteScope` are the two locked sections of
`enter_registry_scope` (and the code between them); `LeaveScope`, `Register`,
`SetBinding` and `Call` take the lock once each. Functions and bindings are
functions from names; definitions are opaque. `base` and `exclusive` are history.
`ScopedRegistry` is lexical scoping: a stack of registries, where leaving a scope
drops the innermost. The refinement maps the stack to the snapshots of the context
followed by the registry, so that a stack of *copies written back* is shown to
behave as a stack of *layers*.

### StreamManager

A content is a sequence of bytes and the places where its chunks end. `ReadBytes`,
`ReadNothing` and `ReadExhausted` are the exits of `read`; which chunk a read stops
at (`FillsUpTo`) is the loop that pulls chunks. Bytes are of three sorts, those that
UTF-8 decoding can trip over: one that stands for itself, and the first and second
of a longer character. `ByteStreams` knows no chunks: a read takes the next bytes
up to its limit. The refinement maps an entry to its bytes and how many left it.

### HttpHost

The threads are that of the program and one worker for each host. `pc` says where
a thread is: a worker goes round `check` (the flag, `http/mod.rs` 336), `recv`
(the blocking receive), perhaps `run` (the composition of the handler, in a context
of its own) and `reply`; a thread that stops a host goes through `swap`, `unblock`
and `join`, the three statements of `HttpHostControl::stop` (`http/manager.rs`
27-38). Between any two of them every other thread may take steps. `managed` is
the manager of the context a thread is running, `owner` the context that started
a host. `EndHandler` and `EndComposition` start the drop of a context, which stops
its hosts one after the other (`BeginStop` while `ending`); `HandlerDropped` is the
drop coming to its end *before* the answer is sent, as the order of `http/mod.rs`
has it. `EndServing` is the serve loop of `run_compose`.

A run may start each host once: handles are numbered and not used again, and a
second host of the same route is another host of the constant. `tiny_http` is
external: a queue in which requests and unblocking tokens arrive in order, and a
receive that returns the first. Whether it answers what is left in the queue of a
dropped server is not assumed either way: `DropRequests` may happen, nothing forces
it. A request whose body or URL cannot be read ends `handle_http_request` with an
error (`http/mod.rs` 416-435) and is dropped; `ReceiveRequest` takes it for answered,
because `tiny_http` answers a single request that is dropped. A handler may call any host it knows (`CallHost`, a call without `timeoutMs`,
which waits for the answer); the body of a request is taken to have arrived.
`late` is history.

### LcodRun

A process is at a label `pc` of `run` (lines 156-262) or of what it calls; between
two of its steps others may take theirs, since they share only the disk. A file
is absent, there in part, or whole; `CreateFile` and `CopyEnds` are the beginning
and the end of writing one, for downloads (`download_url_to_path`), copies from
beside a manifest and what the resolver pipeline writes alike. A file remembers
who created it last, since a process that finishes a copy of a file that another
has created again has not finished *that* file. A file that was created while
another process was writing it is *contested*: it holds bytes of both, which
need not be the same (each may have a server, a release or a resolution of its
own), and whether it is whole when the last of them has finished is left open
(`Finished`).

The runtime is a set of groups of files, removed (`CleanRuntime`) and unpacked
(`Unpack`) one after the other. Each of its error exits is modelled with what it
leaves: `CleanFails` whatever has not been removed yet; `UnpackFails` and the last
two branches of `FinishInstall` any part of what was unpacked, the manifest
included, because the result of `remove_dir_all` is ignored there (1109, 1129) and
a directory that cannot be listed (1115) is left alone. So a runtime may look
installed and not be, without anybody having been killed.

`GiveUp` and `NotFound` say where a process goes on when it could not have its file;
`ResolveComponent`, `ReleaseManifest`, `Catalogue`, `FindEntry` and `Locate` are the
places where a component is looked for, in that order; `ComposeFile` and `LcpFile`
take what is in the cache for complete. `CheckLock` decides about the pipeline,
which runs in a context of its own: `PipelineWrites` and `PipelineEnds` do not look
at the flag, `RunStep` does. `Kill` may happen at any step; each process runs
once, so that a second one also stands for a later start. `world` is what does
not change: the bundle that was embedded, what the workspace holds, the input,
whether the composition has a manifest.

`faults`, `took`, `early` and `ran` are history. `faults` has a file from when its
copy broke off, was killed or was joined by another until it is created again by
one process alone, and `"runtime"` from when an installation broke off with
something left, was killed or was begun beside another process until one process
alone has removed what there was; `"overlap"` is in it once two processes have
been live together. `took` names what the last step took for whole although it
was not. `SpoiledByFaultsOnly` thus excuses a file for its own faults only, not for
those of another file, nor for an overlap that is past.

### Resolver

`path` is the recursion of `resolve_dependency_node`, each frame with the
dependencies of its descriptor that its loop has not reached yet. One step is one
turn of that loop - `SkipDependency` for a name that is passed over (contracts,
axioms and the like, `Skipped`), otherwise the head of the call (`Cycle`, `NoSource`,
then the lookup) - or the tail of a call (`LeaveDependency`). A failure leaves
`visited` as it is, like the code: the set is dropped with the call.

`links` gives the canonical path of each path and `files` what is at each canonical
path, if anything. A lookup computes its key (`CanonicalKey`: the canonical path, or
the path as it is if there is no file at the time), and finds a descriptor in the
cache (`CacheHit`) or not (`CacheMiss`). In the latter case the file is read in a
step of its own, by its path, which may lead elsewhere by then (`Read`), and what
is read is cached under the key found before (`ReadDescriptor`), or the call fails
(`BadDescriptor`). `Edit` is what somebody else does between any two of these
steps: write a descriptor, create or remove one, or turn a link. A descriptor is
what it requires. `tree` is the result: each node with the walk from the root at
whose end it is, the key its descriptor was found under and what that required
(the last two are history, and so is `moved`, which says that a link was turned or
a file came or went).

### QueueBfs

`PopItem`, `KeySlot` and `ProcessSlot` are the three parts of an iteration, and
`Cancel` may come between them. Slots are free choices: a key slot may answer any
key, or fail, which leaves the text of the item; a process slot answers children
or fails. `known`, `queued` and `processed` are history.

### Logging

`Emit` is `emit_log` after its checks of the entry. A composition that logs is in
`running`, before its step, at it, or after it; `run_steps` logs the beginning and
the end of that step like any other, through `Emit` again. The kernel's level is
fixed for a run: the environment changes, if at all, between two compositions, and
`--log-level` is read before the first thread that logs is started. The steps of a logger do not themselves
call the log contract; a logger that did would call itself.

### Script

The engine is external: between `BeginScript` and its end a script may do any of
`Message`, `Callback`, `RunTool`, `Throw`, `Catch`, `Change` in any order. `running`
holds the script and the tools it runs in engines of their own, each with its
timeout and the time it began; `messages` is the one buffer they share. `Late` is
looked at only when they end. A state is an object that lacks some of the keys, or
no object at all: `snapshot` is what the script was given, `copy` what it makes of
that, removing keys or replacing the whole included. `Fail` and `ScriptReturns` are
what `script_contract` makes of the end: the copy becomes a patch if it is an object
and not equal to the snapshot. `StepReturns` is what `run_steps` makes of the answer: it
inserts the keys of the patch into the state of the composition one by one, so
that keys the script has removed stay (`Patched`). Results that use the names
`__lcod_state_patch` or `__lcod_result` themselves are left out. `said` and `overran`
are history.

## 3. What the runs show

| Run | Bounds | Shows |
|---|---|---|
| `compose_flow` | two nested functions with slots, every leaf, lists and limits up to 2, 2 tags | `SlotDiscipline`, `ScopeBalance`, `TagsKept`, `LoopBounds`, `FinallyRuns`, `LoopsContainSignals`, on all paths and with a cancellation at any step; a cancellation that was noticed is the result in programs without `compose/run_slot` and `foreach` (`CancellationKept`); a cancelled run ends (`CancelEndsRun`) |
| `compose_else` | one step | counterexample to `CancellationReported` |
| `compose_tags` | a try around a log.context | counterexample to `TagsRestored` |
| `compose_optional` | one step | counterexample to `NotRanMeansMissing` |
| `registry_single` | one context, two scopes deep, three names | the registry implements lexical scopes (`LexicalScoping`) |
| `registry_serial` | two contexts, one scope each | `RestoredIfExclusive` |
| `registry_overlap` | two contexts, one scope each | counterexample to `RestoredWhenIdle` |
| `tooling` | *streams:* one, contents up to 3 bytes in up to 3 chunks, limits 0, 1, 2 and none | `Conserved`, `ChunkingInvisible`, `ReadersFinish` |
| | *resolver:* 3 dependencies and one skipped, with and without a source for the latter, 2 paths with every link between them and every content, one change of a file or a link | `ResolvesWhole`, `CyclesAreReal`, `ResolutionEnds` |
| | *queue_bfs:* 2 items, 3 keys, 2 items to begin with, one child each, limits up to 2 | `SearchSound`, `CancelStopsSearch` |
| | *logging:* every threshold and logger, loggers nested up to 3 times, a spec log of 2 | `LoggerNotReentered`, `SpecLogBounded` |
| | *script:* states of 2 keys, 2 messages, tools nested twice, timeouts and time up to 2 | `PatchMerged`, `MessagesKept` |
| `http_hosts` | two hosts, one client outside, calls of own hosts only | `WakesUp`, `RequestsAccounted`, `HostsEndWithContext`, `StopsPromptly`; stopping returns, requests are answered and Ctrl-C ends the serving (`StopReturns`, `RequestsAnswered`, `CtrlCStops`) |
| `http_self` | one host, whose handler may call it | counterexample to `CtrlCStops` |
| `lcod_run` | two processes, 12 worlds | `SpoiledByFaultsOnly`, `PartsAreUnfinished`, `InstalledForGood`, `LockBeforeRun`, `EarlyCancelRunsNothing` |
| `lcod_timeout` | the same | counterexample to `TimeoutAborts` |

The passing runs also check the type invariant of their module, but for
`registry_single`, which leaves it to `registry_serial`; `TypesOK` are those of the
four modules that `tooling` adds to the streams. In `tooling` a behaviour is one of
a single part: nothing is composed that the code does not compose, the parts only
share a run.

*Why the bounds are enough.* Everything a function does with the executors
involves itself, the function of the slot it is in, and the one around that: two
nested functions with slots above a leaf, with the list form of slots (which
falls through to enclosing executors) and the map form, have every pair of
owner and delegate; two items and two iterations have a first, a last and a next.
`MaxTags` = 2 lets tags that were left behind be there while another log.context
runs. For scopes, two levels have an outer to be restored and one to be dropped.
For streams, three bytes with a character of two have each way in which chunk,
limit and character boundaries can differ, and three chunks leave one before,
in and after a read. Two hosts are enough for a handler to start a host, call it,
stop it or leave it to the end of its context, while it is itself being stopped;
one client and the threads fill a queue behind the request being served.
Two processes of `lcod-run` are one that disturbs another, or one that comes
after another; files do not depend on each other beyond the archive and the
manifest in it. Two descriptors with three dependencies have two that share a
file, directly or by a link, a cycle through one and through two files, one behind
a node that is no part of it, and a dependency that two others require or one
lists twice; one change of a file or a link, at any step, can come before, between
and after two lookups of the same descriptor and between a lookup and its reading.
Two keys of a state have one that a script removes while it writes the other. Two
items and a key of neither have a child that is seen already, one that is new and
a key that was given with the call. A spec log of two has a first entry, a last
one and those dropped. Loggers that nest three times have called one that is
called already; the code has no limit there. A tool in a tool has a timeout that
ends before, with and after those around it. The theorems remove the bounds where
they apply.

### Disagreements with the documentation and the tests

The six violation runs; each counterexample is a run of the code.

1. `compose_else` - `flow/mod.rs:260`: `foreach` drops the result of its else slot,
   so that a cancellation noticed there ends with success.
   `tests/cancellation.rs:104` expects the error. `compose/run_slot`
   (`compose_contracts.rs:28`), which makes a value of every error of its slot, has
   the same effect.
2. `compose_tags` - `tooling/logging.rs:295`: `log.context` returns with `?` before
   its tags are popped; they stay for what is logged later, for instance by the
   catch of the try around it. `tests/tooling_logging.rs:75` says that tags are
   restored.
3. `compose_optional` - `compose_contracts.rs:29`: any `SlotNotFoundError` is taken for
   the absence of the slot asked for, also one raised by a step that ran inside it.
4. `registry_overlap` - `registry.rs:433`: a snapshot taken while another context's
   scope is open holds that scope's overrides and writes them back for good.
   `ROADMAP.md:26` speaks of automatic restoration.
5. `http_self` - `http/manager.rs:33`: a handler that calls its own host waits for
   an answer that only its own worker could give; stopping the host joins that
   worker, so the serving that was announced to stop on Ctrl-C does not.
6. `lcod_timeout` - `bin/lcod_run.rs:1169`: the resolver pipeline runs in a context
   whose flag neither the timer nor Ctrl-C sets, and is begun without a look at the
   one they set. The help of `--timeout` (`bin/lcod_run.rs:135`) promises to abort
   the execution after the duration.

### Fairness

`Compose!FairSpec` says only that the thread running the composition is not
starved (weak fairness of `Run`: as long as it can take a step it takes one). The
code has no lock or wait between two steps, so the operating system's scheduler
justifies it. Nothing forces a cancellation, a condition to become false, or a
list to be short; `CancelEndsRun` starts from a cancellation that has happened.
`StreamManager!FairSpec` speaks about the reader, not the manager: it goes on
reading with limits above zero until it is told that the stream is over, or
closes it. That is the loop of the resolver's download (`tooling/resolver.rs`
482-493). A reader that asks for no bytes for ever makes no progress, and in the
code neither.

`MCTooling!PartsSpec` repeats that of the readers and adds weak fairness of
`Resolver!Resolve`: the thread that resolves waits for nothing but the disk. Nothing
forces a call, or an edit. `LcodRun`, `QueueBfs`, `Logging` and `Script` state no
fairness: their slots, downloads and scripts need not end, and no property says
that they do.

`HttpHost!FairSpec` has weak fairness of each worker (`Serving(h)`) and of the end
of the program (`Ending`): each is a thread of its own that the operating system
schedules. `SF_vars(EndHandler(h))` is an assumption about the compositions that are
run as handlers: they come to an end unless they wait for an answer or a worker.
The code cannot enforce it, since the context of a handler has a cancellation flag
that nobody sets. Nothing forces Ctrl-C, the end of the composition, or a request.
The liveness properties are checked with `OwnOnly`: without it, hosts can wait for
each other, or one for itself, which `http_self` shows.

## 4. What is proved

Every invariant, action property and refinement that a passing run checks is stated
by a theorem, for every value of the constants that meets the assumptions of the
modules: `ProgramsAssumption`, `BoundsAssumption` and the two of `Slots`,
`CtxAssumption`, `NamesAssumption`, `ContentAssumption`, `LimitAssumption`,
`HostAssumption`, `ProcAssumption`, `WorldAssumption`, and those of `ToolingData`. They
say what the constants are, none that the code behaves.

Each inductive invariant below was an invariant of the corresponding run before it
was proved.

`ComposeProofs` - `TypeCorrect`, `SlotsRestored`, `ScopesBalanced`, `TagsNeverLost`.
None of these is inductive, since they speak of the innermost frame only. The
inductive invariant `IInv` is about the whole stack: `Shape` gives each frame its
type and the rule that steps and calls alternate; `Linked` says of each two
adjacent frames how the executors of the upper follow from those of the lower
(a call has one executor more than the block it is in; a slot has what is left
when those taken out are put back; a component has those of its caller);
`Held` says that the context holds what the innermost frame was entered with, or,
while a result is on its way, what the frame below will find; `Counters` counts
the scopes and tags of the frames in progress. The proof has a step for each
action; most actions are instances of a few lemmas about what the stack becomes
(`Finish`, `Become`, `EnterBlock`, `LeaveBlock`, `RunSlot`).

`LoopsBounded`, `CancellationsKept`, `FinallyBeforeLeaving` and `SignalsContained` need a
second invariant, `JInv`, on top of the first. `Waits` says what the frames below the
innermost are at: a call waits for a slot it asked for, a loop that runs its body
has an iteration left, and so has a while that asks for its condition. That last
clause fails for the innermost frame, and has to: a while whose iterations are used
up does ask for its condition once more when the run is cancelled, and is told
`"cancelled"` (`Answered`). `Reported` says that a cancellation that was noticed has
happened, and that in programs without `compose/run_slot` and `foreach` the answer on
its way up is then `"cancelled"` and stays so. The two action properties follow from
a lemma which says by which steps a call can be left (`Leaving`).

`CancelledWindsDown` is the safety half of `CancelEndsRun`. `StepsLeft` is six for each
frame plus a weight of the label of the innermost one; `StepsLeftNatural` says that it
is a natural number, and `WindsDown` that each step of a cancelled run lowers it,
through whatever loops and operators that catch errors. With n frames at most
6n + 8 steps are therefore left. The other half, that a step can be taken as long
as there are frames, is what TLC shows when it checks for deadlock and for
`CancelEndsRun`.

`RegistryScopeProofs` - `RegistryTypeCorrect`; `ScopesRestore`, from an invariant
which says that, as long as no two contexts got into each other's way, at most
one of them has scopes open and its outermost snapshot (or the copy with which it
is entering its first scope) is the registry as made outside of scopes; and
`ScopesAreLexical`, a refinement, for a registry with a single context. The
refinement needs that assumption: with two it is false, as `registry_overlap`
shows.

`StreamManagerProofs` - `StreamTypeCorrect`, `BytesConserved`, `HandlesNeverReused`, and the
refinement `ChunksInvisible`. The inductive invariant adds to `Conserved` that an
entry that is done has visited all its chunks, and that no handle beyond the
counter is in use. The core of the refinement is that the buffer of a read is a
prefix of the bytes left, and so is what the read takes of it; it is the prefix
of the length asked for because a read stops short of it only at the last chunk.

`HttpHostProofs` - `HttpTypeCorrect`, `RequestsKept`, `WakeupsNotLost`, `HostsEnd` and
`StopIsPrompt`, for any number of hosts and clients and whoever calls whom
(`OwnOnly` or not). `IInv` adds to the properties: a host that listens is in the
manager of its owner's context or is the one being stopped by it, and only one
thread stops it (`Managed`, `Owned`); the flag of a host is set in its manager and
cleared from `unblock` on (`Flagged`); a thread waits if and only if it is at a call,
and a worker has a request if and only if it is at its handler or about to answer
(`Busy`); a token is only in the queue of a host that was started and whose flag is
cleared, and only once (`Tokens`); and a worker that received a request too late is
not about to receive another (`Late`). `Tokens` is what makes `WakesUp` inductive:
the worker goes to sleep only while the flag is set, and then no token was sent
that it could have consumed.

`LcodRunProofs` - `TypeCorrect`, `TakenWhole`, `PartsFinished`, `LockedBeforeRun`,
`CancelledEarly` and `InstalledStays`, for any number of processes and any world. `IInv`
adds to the properties: two processes are live at once only if that was recorded
(`OneAtATime`); a file that is there was created by a process, and the file a process
is writing is there, but for the archive, which another may remove (`Written`); every
file in part is one of `faults` or being written by its author, and a contested one
is one of `faults` (`PartsKnown`); while no two processes overlap, one that cleans up
found no runtime that seemed installed (`Cleaning`); unless the runtime is one of
`faults`, one process at most installs it, and when none does it is absent or complete,
and complete for whoever has passed the installation (`RuntimeKnown`); a manifest is fetched before its composition counts as
cached (`Manifests`); and how lock files and cancellations were seen (`Locked`,
`Cancelled`). The types are not inductive alone: a process that is at the lock file
must have a composition, which `Typed` says. `TakenWhole` is an action property: what
a step takes for whole although it is not is, by `PartsKnown` or `RuntimeKnown`, spoilt
or being written. Nothing is assumed of clean-ups or of what two writers of one file
write. `InstalledStays` follows from `Cleaning`, for bundles with their manifest on top and
while no two processes overlap, whichever of them are killed or break off: only a
process that found no runtime removes or unpacks one.

The theorems about `Resolver`, `QueueBfs`, `Logging` and `Script` are about
`MCTooling!PartsSpec`, whose behaviours are those of one of these parts each, and
about all values of its constants, not those of the run. The modules are chained
because facts about an instance that mention the next state are about the
variables of that instance; the lemmas on sequences are shared.

`QueueBfsProofs` - `SearchIsSound`, `NothingAfterCancel`. The invariant has three parts:
the keys processed are those seen, less the ones given with the call and the one in
hand (`KeysProcessed`); the items queued so far are those in the queue, those counted
by the iterations and the one in hand (`ItemsCounted`); and a search not yet called has done nothing (`NotCalled`).

`ResolverProofs` - `ReportedCyclesExist`, `ResolutionWhole`. `OnPath` says that `visited` is
what lies on the path, that the path has no repetition, and that each of its
dependencies is required by the one before it; `ToVisit`, that each dependency wanted
by a descriptor on the path is still to be reached, next on the path, or a node
already; `Grown`, that what a node wants is a node and that its walk does not repeat;
`Rooted`, that each node and each descriptor on the path hangs below another or the
root. `Reading` says that frames and nodes hold what the cache has under their key,
which is never replaced, so what was read stays true although its file changes; and
that, unless a link was turned or a file came or went, the key of a node is the file
its source leads to. `Looking` says the same of a lookup whose file has not been read
yet. The agreement of nodes follows from these two. With `moved` it would be false: two
paths to one file are two keys when the file was gone at the time of one lookup.

`ToolingProofs` - `NoReentry` and `SpecLogKeepsFirst`, which with the types are inductive
as they stand; `PatchIsMerged` and `MessagesComeOut`, from `Buffered` (what was said is in
the buffer until the script ends, and then in its answer) and `Patching` (which
answers carry a patch, that it is the copy, and what the step makes of it); and
`PartsTypeCorrect`.

## 5. What is only model-checked

The liveness properties (`CancelEndsRun`, `ReadersFinish`, `StopReturns`,
`RequestsAnswered`, `CtrlCStops`, `ResolutionEnds`), since TLAPS does not reason about
fairness and `ENABLED`. The converse holds of `HandlesNeverReused` and of
`CancelledWindsDown`: they are proved, and no run checks them.

## 6. What is not modelled

* The expression language of `in` and `out`, spread and the placing of results
  (`compose.rs` 113-202, 424-605, 733-799): pure functions of JSON; conditions and
  lists they compute are free choices in `Compose`.
* The parsing of inline components of `registry/scope`: that it may fail is
  modelled, before and after the scope was entered.
* Raw inputs and the filter of outputs in `Context::call`: pure functions.
* In `tooling/resolver.rs`, the cache directory and the download through the HTTP
  axiom (`http_download`): calls in sequence, whose reading loop is that of
  `StreamManager!FairSpec`; the buckets of warnings.
* In `tooling/mod.rs`, `resolver/register` and its search for candidates, the test
  checker, `jsonl/read` and the value helpers: loops over files and values that
  keep no state between calls.
* In `bin/lcod_run.rs`, the parsing of arguments, the state prepared for the
  composition, the output and its wording; files of other components than the one
  asked for (they have names of their own).
* The JavaScript engine, bindings and paths in the configuration of scripts, and
  the conversion of values to and from JavaScript.
* `core/`: single calls of the operating system, curl, libgit2, or pure functions.
* Timeouts of HTTP calls, the routing and the bodies of requests and answers.
* The demo functions, command line parsing, the runner of the specification tests,
  wording of messages.

## 7. Theorems planned

Measures like `StepsLeft` for the other liveness properties: that the dependencies a
resolution has yet to reach grow less (`ResolutionEnds`), and that each step of a
worker and of the thread that stops it brings `stop` closer to its return
(`StopReturns`, for `OwnOnly`).
