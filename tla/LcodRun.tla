------------------------------ MODULE LcodRun ------------------------------
(***************************************************************************)
(* The program lcod-run (src/src/bin/lcod_run.rs): it installs its         *)
(* runtime, finds the composition it is asked to run, in a workspace, in   *)
(* the runtime or through a catalogue, resolves its lock file and runs it. *)
(* Processes of one user share the runtime and the caches in the home      *)
(* directory.  Every file is written under its final name: it is whole     *)
(* when the process that created it last has come to the end of its copy.  *)
(***************************************************************************)
CONSTANTS Proc,    \* the runs of the program
          Nobody,  \* no process
          World    \* what the processes may find: bundle, input, ...

Bundles == {"none",      \* no runtime is embedded and LCOD_HOME is not set
            "external",  \* LCOD_HOME names a runtime with a manifest
            "flat",      \* embedded, manifest.json on top
            "nested"}    \* embedded, all files in one directory

Workspaces == {"none",    \* no manifest file in the workspace
               "other",   \* one that does not list the component
               "away",    \* one that lists it, its files are elsewhere
               "partly",  \* its lcp.toml is beside the manifest
               "beside"}  \* its compose file is beside the manifest

ASSUME ProcAssumption == Nobody \notin Proc

ASSUME WorldAssumption ==
  World \subseteq [bundle : Bundles, workspace : Workspaces,
                   input : {"file", "url", "component"},
                   manifest : BOOLEAN,  \* the composition has an lcp.toml
                   listed : BOOLEAN]    \* the catalogues list the component

(* The groups of files of a runtime: manifest.json, manifest.jsonl, and    *)
(* the components, the resolver among them.                                *)
Parts == {"manifest", "list", "files"}

(* The files in the caches, and the lock file.                             *)
File == {"archive", "release", "catalogue", "compose", "lcp", "lock"}

VARIABLES world,     \* the member of World that is the case
          disk,      \* the state of each file and who created it last
          unpacked,  \* what there is of the installed runtime
          proc,      \* the processes
          faults     \* history: what was left in part, and "overlap"

vars == <<world, disk, unpacked, proc, faults>>

Absent == [state |-> "absent", author |-> Nobody]

(* A file that several processes write at a time is contested: it may hold *)
(* bytes of all of them.                                                   *)
Content == [state : {"absent", "partial", "contested", "whole"},
            author : Proc \cup {Nobody}]

Process ==
  [pc : {"idle", "runtime", "clean", "unpack", "acquire", "release",
         "catalogue", "entry", "compose", "lcp", "request", "copy", "lock",
         "pipeline", "load", "run", "locate", "ended"},
   file : File \cup {"none"},   \* being read or written
   asked : BOOLEAN,             \* locate_component has been asked
   left : SUBSET Parts,         \* still to be unpacked
   handle : {"none", "local", "temporary", "cached"},  \* ComposeHandle
   flag : BOOLEAN,              \* cancellation
   early : BOOLEAN,             \* history: it was set before the composition
   ran : BOOLEAN,               \* history: a step of the composition has run
   took : SUBSET (File \cup {"runtime"}),
                                \* history: what its last step took for whole
                                \* that was not
   code : {"none", "ok", "error", "cancelled", "killed"}]

NotStarted ==
  [pc |-> "idle", file |-> "none", asked |-> FALSE, left |-> {},
   handle |-> "none", flag |-> FALSE, early |-> FALSE, ran |-> FALSE,
   took |-> {}, code |-> "none"]

TypeOK ==
  /\ world \in World
  /\ disk \in [File -> Content]
  /\ unpacked \subseteq Parts
  /\ proc \in [Proc -> Process]
  /\ faults \subseteq File \cup {"runtime", "overlap"}
  /\ \A p \in Proc :
       /\ proc[p].file # "none" <=>
            proc[p].pc \in {"request", "copy", "entry"}
       /\ proc[p].left # {} => proc[p].pc = "unpack"
       /\ proc[p].pc \in {"lock", "pipeline", "load", "run"} =>
            proc[p].handle # "none"

Init ==
  /\ world \in World
  /\ disk = [f \in File |-> Absent]
  /\ unpacked = IF world.bundle = "external" THEN Parts ELSE {}
  /\ proc = [p \in Proc |-> NotStarted]
  /\ faults = {}

At(p, label) == proc[p].pc = label

Live(p) == ~ At(p, "idle") /\ ~ At(p, "ended")

Alone(p) == \A q \in Proc \ {p} : ~ Live(q)

Present(f) == disk[f].state # "absent"

Writes(p, f) == At(p, "copy") /\ proc[p].file = f

(* p removes the runtime there was, or puts the new one in its place.      *)
Installs(p) == At(p, "clean") \/ At(p, "unpack")

(* Of the files in fs those that are there in part, or mixed.              *)
Torn(fs) == {f \in fs : disk[f].state \in {"partial", "contested"}}

(* LCOD_HOME names a runtime, for a process that has passed its start.     *)
HasHome == world.bundle # "none"

Unsound == IF unpacked = Parts THEN {} ELSE {"runtime"}

(* Faulty variant: the file of the step before is kept.                    *)
Proceed_KeepsFile(p, label, bad) ==
  proc' = [proc EXCEPT ![p].pc = label, ![p].took = bad]

(* p goes on at label, having taken what is in the set bad for whole.      *)
Proceed(p, label, bad) ==
  proc' = [proc EXCEPT ![p].pc = label, ![p].took = bad,
                       ![p].file = IF label = "entry" THEN @ ELSE "none"]

(* p goes on to write file f, which it has to get first.                   *)
Fetch(p, f) ==
  proc' = [proc EXCEPT ![p].pc = "request", ![p].file = f, ![p].took = {}]

Found(p, handle) ==
  proc' = [proc EXCEPT ![p].pc = "lock", ![p].handle = handle,
                       ![p].file = "none", ![p].took = {}]

(* Only its code is left of a process that ends.                           *)
Exit(p, code) ==
  proc' = [proc EXCEPT ![p] =
             [NotStarted EXCEPT !.pc = "ended", !.code = code]]

-----------------------------------------------------------------------------
(* The start of the program and what happens to it from outside.           *)

(* With a timeout of zero the flag is set at once.                         *)
Start(p) ==
  /\ At(p, "idle")
  /\ \E expired \in BOOLEAN :
       proc' = [proc EXCEPT ![p] =
                  [NotStarted EXCEPT !.pc = "runtime", !.flag = expired]]
  /\ faults' = IF \E q \in Proc \ {p} : Live(q)
                 THEN faults \cup {"overlap"} ELSE faults
  /\ UNCHANGED <<world, disk, unpacked>>

(* The timer of --timeout, or Ctrl-C.                                      *)
Interrupt(p) ==
  /\ Live(p)
  /\ proc' = [proc EXCEPT ![p].flag = TRUE]
  /\ UNCHANGED <<world, disk, unpacked, faults>>

Kill(p) ==
  /\ Live(p)
  /\ Exit(p, "killed")
  /\ faults' = faults \cup (IF At(p, "copy") THEN {proc[p].file} ELSE {})
                     \cup (IF Installs(p) THEN {"runtime"} ELSE {})
  /\ UNCHANGED <<world, disk, unpacked>>

-----------------------------------------------------------------------------
(* The runtime.                                                            *)

(* Faulty variant: the bundle embedded is not looked for where it was put. *)
SeemsInstalled_Elsewhere ==
  world.bundle = "external" /\ "manifest" \in unpacked

(* runtime_manifest_present: a nested bundle has none on top.              *)
SeemsInstalled ==
  world.bundle \in {"external", "flat"} /\ "manifest" \in unpacked

EnsureRuntimeHome(p) ==
  /\ At(p, "runtime")
  /\ \/ /\ world.bundle = "none"
        /\ Proceed(p, "acquire", {})
        /\ UNCHANGED faults
     \/ /\ SeemsInstalled
        /\ Proceed(p, "acquire", Unsound)
        /\ UNCHANGED faults
     \/ /\ HasHome /\ ~ SeemsInstalled
        /\ Proceed(p, "clean", {})
        /\ faults' = IF Alone(p) THEN faults ELSE faults \cup {"runtime"}
  /\ UNCHANGED <<world, disk, unpacked>>

(* What an earlier process has left is removed file by file.               *)
CleanRuntime(p) ==
  /\ At(p, "clean")
  /\ \/ \E some \in SUBSET unpacked :
          /\ some # unpacked
          /\ unpacked' = some
          /\ UNCHANGED <<proc, faults>>
     \/ /\ unpacked = {}
        /\ proc' = [proc EXCEPT ![p].pc = "unpack", ![p].left = Parts,
                                ![p].took = {}]
        /\ faults' = IF Alone(p) THEN faults \ {"runtime"} ELSE faults
        /\ UNCHANGED unpacked
  /\ UNCHANGED <<world, disk>>

(* The installation ends with an error and leaves what is in rest.         *)
BreakOff(p, rest) ==
  /\ unpacked' = rest
  /\ faults' = IF rest = {} /\ Alone(p) THEN faults
                                       ELSE faults \cup {"runtime"}
  /\ Exit(p, "error")

(* A directory cannot be removed, or not be created.                       *)
CleanFails(p) ==
  /\ At(p, "clean")
  /\ BreakOff(p, unpacked)
  /\ UNCHANGED <<world, disk>>

Unpack(p, part) ==
  /\ At(p, "unpack")
  /\ part \in proc[p].left
  /\ unpacked' = unpacked \cup {part}
  /\ proc' = [proc EXCEPT ![p].left = @ \ {part}]
  /\ UNCHANGED <<world, disk, faults>>

(* Faulty variant: the error is not noticed.                               *)
UnpackFails_Ignored(p) ==
  /\ At(p, "unpack")
  /\ Proceed(p, "acquire", Unsound)
  /\ UNCHANGED <<world, disk, unpacked, faults>>

(* The removal of what was unpacked may fail too, which is ignored: any of *)
(* it may stay, the manifest by which the runtime seems installed as well. *)
UnpackFails(p) ==
  /\ At(p, "unpack")
  /\ \E rest \in SUBSET unpacked : BreakOff(p, rest)
  /\ UNCHANGED <<world, disk>>

(* The manifest is on top or in the only directory of the target.  If it   *)
(* is nowhere all is removed, as far as it can be.  A target that cannot   *)
(* be looked into stays as it is.                                          *)
FinishInstall(p) ==
  /\ At(p, "unpack")
  /\ proc[p].left = {}
  /\ \/ /\ "manifest" \in unpacked
        /\ Proceed(p, "acquire", Unsound)
        /\ UNCHANGED <<unpacked, faults>>
     \/ /\ "manifest" \notin unpacked
        /\ \E rest \in SUBSET unpacked : BreakOff(p, rest)
     \/ ~ SeemsInstalled /\ BreakOff(p, unpacked)
  /\ UNCHANGED <<world, disk>>

-----------------------------------------------------------------------------
(* Files that are written: downloaded, copied from beside a manifest, or   *)
(* by the resolver pipeline.                                               *)

(* The component was not found, or not its files.  When no manifest of the *)
(* workspace lists it, a component of the runtime is asked for it once.    *)
NotFound(p) ==
  IF world.workspace \in {"none", "other"} /\ ~ proc[p].asked
    THEN Proceed(p, "locate", {}) ELSE Exit(p, "error")

(* Where p goes on when it could not have its file: without the manifest   *)
(* of a release there is still the catalogue.                              *)
GiveUp(p) ==
  CASE proc[p].file \in {"archive", "release"} -> Proceed(p, "catalogue", {})
    [] proc[p].file \in {"catalogue", "compose", "lcp"} -> NotFound(p)
    [] proc[p].file = "lock" -> Exit(p, "error")

(* Faulty variant: the file is created before the request is made.         *)
RequestFails_AfterCreate(p) ==
  /\ At(p, "request")
  /\ GiveUp(p)
  /\ disk' = [disk EXCEPT ![proc[p].file] =
                [state |-> "partial", author |-> p]]
  /\ UNCHANGED <<world, unpacked, faults>>

(* Nothing was created: the server cannot be reached or says no, or the    *)
(* archive is gone, cannot be read or holds no manifest.                   *)
RequestFails(p) ==
  /\ At(p, "request")
  /\ GiveUp(p)
  /\ \/ UNCHANGED disk
     \/ /\ proc[p].file = "release"
        /\ disk' = [disk EXCEPT !["archive"] = Absent]
  /\ UNCHANGED <<world, unpacked, faults>>

(* File::create, fs::write and fs::copy empty a file that is there, though *)
(* another process is writing it.                                          *)
CreateFile(p) ==
  LET f == proc[p].file
      shared == Present(f) /\ \E q \in Proc \ {p} : Writes(q, f)
  IN /\ At(p, "request")
     /\ f = "release" => Present("archive")
     /\ disk' = [disk EXCEPT
                   ![f] = [state |-> IF shared THEN "contested" ELSE "partial",
                           author |-> p]]
     /\ faults' = IF shared THEN faults \cup {f} ELSE faults \ {f}
     /\ proc' = [proc EXCEPT ![p].pc = "copy", ![p].took = {}]
     /\ UNCHANGED <<world, unpacked>>

(* The copy left part of the file there.                                   *)
CopyFails(p) ==
  /\ At(p, "copy")
  /\ GiveUp(p)
  /\ faults' = faults \cup {proc[p].file}
  /\ UNCHANGED <<world, disk, unpacked>>

(* What p's file may be when p has come to the end of its copy.  Of a      *)
(* contested one the last to write it decides, with what the others wrote. *)
(* One that was removed, and may be there anew, is not p's.                *)
Finished(p) ==
  LET f == proc[p].file
  IN CASE disk[f].state = "partial" /\ disk[f].author = p -> {"whole"}
       [] /\ disk[f].state = "contested"
          /\ \A q \in Proc \ {p} : ~ Writes(q, f) -> {"whole", "contested"}
       [] OTHER -> {disk[f].state}

CopyEnds(p) ==
  /\ At(p, "copy")
  /\ LET f == proc[p].file
     IN /\ \E state \in Finished(p) :
             LET copied == [disk EXCEPT ![f].state = state]
             IN disk' = IF f = "release"
                          THEN [copied EXCEPT !["archive"] = Absent] ELSE copied
        /\ \/ f = "archive" /\ Fetch(p, "release")
           \/ f \in {"release", "catalogue"} /\ Proceed(p, "entry", {})
           \/ f = "compose" /\ Proceed(p, "lcp", {})
           \/ f = "lcp" /\ Found(p, "cached")
           \/ f = "lock" /\ Proceed(p, "pipeline", {})
  /\ UNCHANGED <<world, unpacked, faults>>

-----------------------------------------------------------------------------
(* acquire_compose.                                                        *)

AcquireFile(p) ==
  /\ At(p, "acquire")
  /\ world.input = "file"
  /\ Found(p, "local") \/ Exit(p, "error")
  /\ UNCHANGED <<world, disk, unpacked, faults>>

(* To a temporary directory of its own.                                    *)
DownloadCompose(p) ==
  /\ At(p, "acquire")
  /\ world.input = "url"
  /\ Found(p, "temporary") \/ Exit(p, "error")
  /\ UNCHANGED <<world, disk, unpacked, faults>>

(* The first manifest there is decides: that of the workspace, of the      *)
(* runtime, of a release; without any, the catalogue.                      *)
ResolveComponent(p) ==
  /\ At(p, "acquire")
  /\ world.input = "component"
  /\ \/ world.workspace = "beside" /\ Found(p, "local")
     \/ world.workspace \in {"away", "partly"} /\ Proceed(p, "compose", {})
     \/ world.workspace = "other" /\ NotFound(p)
     \/ /\ world.workspace = "none"
        /\ IF HasHome /\ "list" \in unpacked
             THEN IF ~ world.listed
                    THEN NotFound(p)
                    ELSE IF "files" \in unpacked
                           THEN Found(p, "local")
                           ELSE Proceed(p, "compose", Unsound)
             ELSE Proceed(p, "release", {})
  /\ UNCHANGED <<world, disk, unpacked, faults>>

(* download_release_runtime_manifest.                                      *)
ReleaseManifest(p) ==
  /\ At(p, "release")
  /\ IF Present("release")
       THEN proc' = [proc EXCEPT ![p].pc = "entry", ![p].file = "release",
                                 ![p].took = Torn({"release"})]
       ELSE Fetch(p, "archive")
  /\ UNCHANGED <<world, disk, unpacked, faults>>

(* The catalogue in the cache may be older than a day.                     *)
Catalogue(p) ==
  /\ At(p, "catalogue")
  /\ \/ Fetch(p, "catalogue")
     \/ /\ Present("catalogue")
        /\ proc' = [proc EXCEPT ![p].pc = "entry", ![p].file = "catalogue",
                                ![p].took = Torn({"catalogue"})]
  /\ UNCHANGED <<world, disk, unpacked, faults>>

(* A line that cannot be read, like the last of a part, is passed over.    *)
FindEntry(p) ==
  /\ At(p, "entry")
  /\ \/ world.listed /\ Proceed(p, "compose", {})
     \/ /\ world.listed => Torn({proc[p].file}) # {}
        /\ NotFound(p)
  /\ UNCHANGED <<world, disk, unpacked, faults>>

(* locate_component is there when the runtime has registered it.  It gives *)
(* the path of a file, or fails, or gives no path: then all is tried again.*)
Locate(p) ==
  /\ At(p, "locate")
  /\ \/ Exit(p, "error")
     \/ /\ HasHome
        /\ \/ Found(p, "local")
           \/ proc' = [proc EXCEPT ![p].pc = "acquire", ![p].asked = TRUE,
                                   ![p].took = {}]
  /\ UNCHANGED <<world, disk, unpacked, faults>>

(* materialize_component_from_entry: what is there is not fetched again.   *)
ComposeFile(p) ==
  /\ At(p, "compose")
  /\ IF Present("compose")
       THEN Proceed(p, "lcp", Torn({"compose"}))
       ELSE Fetch(p, "compose")
  /\ UNCHANGED <<world, disk, unpacked, faults>>

LcpFile(p) ==
  /\ At(p, "lcp")
  /\ IF /\ world.manifest
        /\ world.workspace = "partly" \/ ~ Present("lcp")
       THEN Fetch(p, "lcp")
       ELSE proc' = [proc EXCEPT ![p].pc = "lock", ![p].handle = "cached",
                                 ![p].took = Torn({"lcp"})]
  /\ UNCHANGED <<world, disk, unpacked, faults>>

-----------------------------------------------------------------------------
(* The lock file and the composition.                                      *)

(* A composition from the cache is known by its directory there.           *)
HasManifest(p) ==
  /\ world.input # "url"
  /\ proc[p].handle = "local" => world.manifest
  /\ proc[p].handle = "cached" => Present("lcp")

(* resolve: the option of that name is given, which is looked at only here. *)
ShouldResolve(p, resolve) ==
  (resolve \/ ~ Present("lock")) /\ HasManifest(p)

(* resolver_compose_path: of all the places where the resolver may be only *)
(* the runtime is known here.                                              *)
ResolverMayBeMissing == "files" \notin unpacked

CheckLock(p) ==
  /\ At(p, "lock")
  /\ \E resolve \in BOOLEAN :
     IF ShouldResolve(p, resolve)
       THEN \/ Proceed(p, "pipeline",
                       IF HasHome THEN Unsound ELSE {})
            \/ ResolverMayBeMissing /\ Exit(p, "error")
       ELSE Proceed(p, "load",
                    IF HasManifest(p) THEN Torn({"lock"}) ELSE {})
  /\ UNCHANGED <<world, disk, unpacked, faults>>

(* run_resolver_pipeline: a composition in a context of its own, whose     *)
(* flag nobody sets.  It is expected to write the lock file.               *)
PipelineWrites(p) ==
  /\ At(p, "pipeline")
  /\ Fetch(p, "lock")
  /\ UNCHANGED <<world, disk, unpacked, faults>>

(* Faulty variant: the lock file is taken to have been written.            *)
PipelineEnds_Unchecked(p) ==
  /\ At(p, "pipeline")
  /\ Proceed(p, "load", {}) \/ Exit(p, "error")
  /\ UNCHANGED <<world, disk, unpacked, faults>>

PipelineEnds(p) ==
  /\ At(p, "pipeline")
  /\ \/ Present("lock") /\ Proceed(p, "load", {})
     \/ Exit(p, "error")
  /\ UNCHANGED <<world, disk, unpacked, faults>>

(* The input, lcp.toml and the composition are read.  Part of a            *)
(* composition may well be a composition.                                  *)
Load(p) ==
  /\ At(p, "load")
  /\ \/ proc' = [proc EXCEPT
                   ![p].pc = "run", ![p].early = proc[p].flag,
                   ![p].took = IF proc[p].handle = "cached"
                                 THEN Torn({"compose", "lcp"}) ELSE {}]
     \/ Exit(p, "error")
  /\ UNCHANGED <<world, disk, unpacked, faults>>

(* Faulty variant: the composition runs with a flag of its own.            *)
RunStep_OwnFlag(p) ==
  /\ At(p, "run")
  /\ proc' = [proc EXCEPT ![p].ran = TRUE, ![p].took = {}]
  /\ UNCHANGED <<world, disk, unpacked, faults>>

RunStep(p) ==
  /\ At(p, "run")
  /\ ~ proc[p].flag
  /\ proc' = [proc EXCEPT ![p].ran = TRUE, ![p].took = {}]
  /\ UNCHANGED <<world, disk, unpacked, faults>>

(* There may be no steps, or the last has begun, or a slot's cancellation  *)
(* was dropped: a flag does not exclude success.                           *)
EndRun(p) ==
  /\ At(p, "run")
  /\ \/ Exit(p, "ok")
     \/ proc[p].ran /\ Exit(p, "error")
     \/ proc[p].flag /\ Exit(p, "cancelled")
  /\ UNCHANGED <<world, disk, unpacked, faults>>

-----------------------------------------------------------------------------
Step(p) ==
  \/ Start(p) \/ Interrupt(p) \/ Kill(p)
  \/ EnsureRuntimeHome(p) \/ CleanRuntime(p) \/ CleanFails(p)
  \/ (\E part \in Parts : Unpack(p, part)) \/ UnpackFails(p)
  \/ FinishInstall(p)
  \/ AcquireFile(p) \/ DownloadCompose(p) \/ ResolveComponent(p)
  \/ ReleaseManifest(p) \/ Catalogue(p) \/ FindEntry(p) \/ Locate(p)
  \/ ComposeFile(p) \/ LcpFile(p)
  \/ RequestFails(p) \/ CreateFile(p) \/ CopyFails(p) \/ CopyEnds(p)
  \/ CheckLock(p) \/ PipelineWrites(p) \/ PipelineEnds(p)
  \/ Load(p) \/ RunStep(p) \/ EndRun(p)

AllEnded == (\A p \in Proc : At(p, "ended")) /\ UNCHANGED vars

Next == (\E p \in Proc : Step(p)) \/ AllEnded

Spec == Init /\ [][Next]_vars

-----------------------------------------------------------------------------
(* Properties.                                                             *)

(* What a process takes for whole, of the cache or for the runtime, is     *)
(* whole, or another process is writing it at that time, or it is one of   *)
(* faults: since it was last begun by one process alone, the copy or the   *)
(* installation broke off, was killed or was joined by another's.  A fault *)
(* of one file, or an overlap that is past, does not spoil another.        *)
SpoiledByFaultsOnly ==
  [][\A p \in Proc : proc'[p].pc # proc[p].pc =>
       \A f \in proc'[p].took :
         \/ f \in faults
         \/ \E q \in Proc \ {p} :
              IF f = "runtime" THEN Installs(q) ELSE Writes(q, f)]_vars

(* A file that is there in part is being written by its author, or is one  *)
(* of faults: no other way out of a copy, and no request that fails,       *)
(* leaves a part under the final name.                                     *)
PartsAreUnfinished ==
  \A f \in Torn(File) : f \in faults \/ Writes(disk[f].author, f)

(* A runtime that was once installed with its manifest on top is used by   *)
(* all later processes and never removed, whatever breaks off or is        *)
(* killed, if no two processes overlap.                                    *)
InstalledForGood ==
  [][(/\ world.bundle = "flat"
      /\ "overlap" \notin faults
      /\ unpacked = Parts
      /\ \A p \in Proc : ~ At(p, "unpack")) => unpacked' = Parts]_vars

(* A composition with a manifest does not run without its lock file.       *)
LockBeforeRun ==
  \A p \in Proc : At(p, "run") /\ HasManifest(p) => Present("lock")

(* Of a composition whose process was cancelled before it no step runs.    *)
EarlyCancelRunsNothing ==
  \A p \in Proc : proc[p].early => ~ proc[p].ran

(* --timeout aborts the execution: once it has expired the resolver        *)
(* pipeline, a composition with effects of its own, is not begun.          *)
TimeoutAborts ==
  [][\A p \in Proc :
       proc[p].flag /\ ~ At(p, "pipeline") => proc'[p].pc # "pipeline"]_vars
=============================================================================
