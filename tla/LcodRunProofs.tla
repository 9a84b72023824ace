--------------------------- MODULE LcodRunProofs ----------------------------
(***************************************************************************)
(* Theorems about LcodRun, for any number of processes and whatever they   *)
(* may find.                                                               *)
(***************************************************************************)
EXTENDS LcodRun, TLAPS

(* There is one process at a time unless two have overlapped.              *)
OneAtATime ==
  "overlap" \notin faults => \A p, q \in Proc : Live(p) /\ Live(q) => p = q

(* What is there was created by a process, and stays there once written,   *)
(* but for the archive.                                                    *)
Written ==
  /\ \A f \in File : Present(f) => disk[f].author \in Proc
  /\ \A p \in Proc :
       At(p, "copy") /\ proc[p].file # "archive" => Present(proc[p].file)

(* A part is being written by its author, unless it is one of faults.      *)
PartsKnown ==
  \A f \in File :
    /\ disk[f].state = "partial" => f \in faults \/ Writes(disk[f].author, f)
    /\ disk[f].state = "contested" => f \in faults

(* A process that cleans up for the runtime has found none.                *)
Cleaning ==
  "overlap" \notin faults =>
    \A p \in Proc :
      At(p, "clean") /\ world.bundle # "nested" => "manifest" \notin unpacked

(* Unless the runtime is one of faults, one process at most installs it,   *)
(* and otherwise there is all of it or nothing, and all of it for those    *)
(* that have found it or installed it.                                     *)
RuntimeKnown ==
  "runtime" \notin faults =>
    /\ \A p, q \in Proc : Installs(p) /\ Installs(q) => p = q
    /\ \A p \in Proc : At(p, "unpack") => unpacked = Parts \ proc[p].left
    /\ (\A p \in Proc : ~ Installs(p)) =>
         /\ unpacked \in {{}, Parts}
         /\ \A p \in Proc :
              Live(p) /\ ~ At(p, "runtime") => ~ HasHome \/ unpacked = Parts

(* A manifest file is fetched for a composition that has one, and before   *)
(* the composition counts as cached.                                       *)
Manifests ==
  \/ /\ world.manifest
     /\ \A p \in Proc : proc[p].handle = "cached" => Present("lcp")
  \/ /\ ~ world.manifest
     /\ ~ Present("lcp")
     /\ \A p \in Proc : proc[p].file # "lcp"

Locked ==
  \A p \in Proc :
    proc[p].pc \in {"load", "run"} /\ HasManifest(p) => Present("lock")

Cancelled ==
  \A p \in Proc :
    /\ proc[p].early => proc[p].flag /\ ~ proc[p].ran
    /\ proc[p].early \/ proc[p].ran => At(p, "run")

(* The lock file is written for a composition that was found.              *)
Typed ==
  /\ TypeOK
  /\ \A p \in Proc : proc[p].file = "lock" => proc[p].handle # "none"

IInv ==
  /\ Typed
  /\ OneAtATime /\ Written /\ PartsKnown
  /\ Cleaning /\ RuntimeKnown
  /\ Manifests /\ Locked
  /\ Cancelled

-----------------------------------------------------------------------------
(* Type correctness.                                                       *)

(* What TypeOK says of the record of one process.                          *)
Good(r) ==
  /\ r \in Process
  /\ r.file # "none" <=> r.pc \in {"request", "copy", "entry"}
  /\ r.left # {} => r.pc = "unpack"
  /\ r.pc \in {"lock", "pipeline", "load", "run"} \/ r.file = "lock" =>
       r.handle # "none"

LEMMA GoodProcesses ==
  Typed => \A p \in Proc : proc[p] \in Process /\ Good(proc[p])
BY DEF Typed, TypeOK, Good

LEMMA InitType == Init => Typed
BY WorldAssumption
   DEF Init, Typed, TypeOK, Content, Absent, NotStarted, Process, File, Parts

(* p moves alone, to a record that is well formed.                         *)
Moves(p) ==
  \E r : Good(r) /\ proc' = [proc EXCEPT ![p] = r]

LEMMA MovesType ==
  ASSUME Typed, NEW p \in Proc, Moves(p)
  PROVE  /\ proc' \in [Proc -> Process]
         /\ \A q \in Proc : Good(proc'[q])
         /\ \A q \in Proc \ {p} : proc'[q] = proc[q]
<1>1. PICK r : Good(r) /\ proc' = [proc EXCEPT ![p] = r]
  BY DEF Moves
<1>2. proc'[p] = r /\ \A q \in Proc \ {p} : proc'[q] = proc[q]
  BY <1>1 DEF Typed, TypeOK
<1>. QED  BY <1>1, <1>2, GoodProcesses DEF Typed, TypeOK, Good

LEMMA ProceedMoves ==
  ASSUME Typed, NEW p \in Proc, NEW label, NEW bad, Proceed(p, label, bad),
         bad \subseteq File \cup {"runtime"}, proc[p].left = {},
         \/ label \in {"acquire", "release", "catalogue", "compose", "lcp",
                      "clean", "locate"}
         \/ label \in {"pipeline", "load"} /\ proc[p].handle # "none"
         \/ label = "entry" /\ proc[p].file # "none"
  PROVE  Moves(p)
<1>. DEFINE r == [proc[p] EXCEPT !.pc = label, !.took = bad,
                    !.file = IF label = "entry" THEN @ ELSE "none"]
<1>1. proc' = [proc EXCEPT ![p] = r]
  BY DEF Proceed
<1>2. proc[p] \in Process /\ Good(proc[p])
  BY GoodProcesses DEF Good
<1>3. r \in Process
  BY <1>2 DEF Process
<1>4. /\ r.pc = label /\ r.left = {} /\ r.handle = proc[p].handle
      /\ r.file = IF label = "entry" THEN proc[p].file ELSE "none"
  BY <1>2 DEF Process
<1>5. Good(r)
  BY <1>2, <1>3, <1>4 DEF Good
<1>. QED  BY <1>1, <1>5 DEF Moves

LEMMA FetchMoves ==
  ASSUME Typed, NEW p \in Proc, NEW f \in File, Fetch(p, f), proc[p].left = {},
         f = "lock" => proc[p].handle # "none"
  PROVE  Moves(p)
<1>. DEFINE r == [proc[p] EXCEPT !.pc = "request", !.file = f, !.took = {}]
<1>1. proc' = [proc EXCEPT ![p] = r]
  BY DEF Fetch
<1>2. proc[p] \in Process
  BY DEF Typed, TypeOK
<1>3. /\ r.pc = "request" /\ r.left = {} /\ r.file = f /\ f # "none"
      /\ r.handle = proc[p].handle
  BY <1>2 DEF Process, File
<1>4. r \in Process
  BY <1>2 DEF Process
<1>. QED  BY <1>1, <1>3, <1>4 DEF Moves, Good

LEMMA FoundMoves ==
  ASSUME Typed, NEW p \in Proc, NEW handle \in {"local", "temporary", "cached"},
         Found(p, handle), proc[p].left = {}
  PROVE  Moves(p)
<1>. DEFINE r == [proc[p] EXCEPT !.pc = "lock", !.handle = handle,
                                 !.file = "none", !.took = {}]
<1>1. proc' = [proc EXCEPT ![p] = r]
  BY DEF Found
<1>2. proc[p] \in Process
  BY DEF Typed, TypeOK
<1>3. r.pc = "lock" /\ r.left = {} /\ r.file = "none" /\ r.handle = handle
  BY <1>2 DEF Process
<1>4. r \in Process
  BY <1>2 DEF Process
<1>. QED  BY <1>1, <1>3, <1>4 DEF Moves, Good

LEMMA ExitMoves ==
  ASSUME NEW p \in Proc, NEW code \in {"ok", "error", "cancelled", "killed"},
         Exit(p, code)
  PROVE  Moves(p)
BY DEF Exit, NotStarted, Moves, Good, Process

LEMMA NotFoundMoves ==
  ASSUME Typed, NEW p \in Proc, NotFound(p), proc[p].left = {}
  PROVE  Moves(p)
BY ProceedMoves, ExitMoves DEF NotFound

LEMMA GiveUpMoves ==
  ASSUME Typed, NEW p \in Proc, GiveUp(p), proc[p].file \in File,
         proc[p].left = {}
  PROVE  Moves(p)
BY ProceedMoves, NotFoundMoves, ExitMoves DEF GiveUp, File

(* What a process takes for whole is files or the runtime.                 *)
LEMMA TakenType ==
  /\ Unsound \subseteq File \cup {"runtime"}
  /\ \A fs \in SUBSET File : Torn(fs) \subseteq File \cup {"runtime"}
BY DEF Unsound, Torn

(* A process begins, is cancelled, takes its turn at the installation or   *)
(* runs its composition.                                                   *)
LEMMA OwnMoves ==
  ASSUME Typed, NEW p \in Proc,
         \/ Start(p) \/ Interrupt(p) \/ RunStep(p) \/ CreateFile(p)
         \/ \E part \in Parts : Unpack(p, part)
         \/ CleanRuntime(p) /\ proc' # proc
  PROVE  Moves(p)
<1>1. proc[p] \in Process /\ Good(proc[p])
  BY GoodProcesses
<1>2. CASE Start(p)
  <2>1. PICK expired \in BOOLEAN :
          proc' = [proc EXCEPT ![p] =
                     [NotStarted EXCEPT !.pc = "runtime", !.flag = expired]]
    BY <1>2 DEF Start
  <2>. DEFINE r == [NotStarted EXCEPT !.pc = "runtime", !.flag = expired]
  <2>2. r \in Process
    BY DEF Process, NotStarted
  <2>3. r.pc = "runtime" /\ r.file = "none" /\ r.left = {}
    BY DEF NotStarted
  <2>. QED  BY <2>1, <2>2, <2>3 DEF Moves, Good
<1>3. CASE Interrupt(p)
  <2>. DEFINE r == [proc[p] EXCEPT !.flag = TRUE]
  <2>1. r \in Process
    BY <1>1 DEF Process
  <2>2. /\ r.pc = proc[p].pc /\ r.file = proc[p].file
        /\ r.left = proc[p].left /\ r.handle = proc[p].handle
    BY <1>1 DEF Process
  <2>3. Good(r)
    BY <1>1, <2>1, <2>2 DEF Good
  <2>4. proc' = [proc EXCEPT ![p] = r]
    BY <1>3 DEF Interrupt
  <2>. QED  BY <2>3, <2>4 DEF Moves
<1>4. CASE RunStep(p)
  <2>. DEFINE r == [proc[p] EXCEPT !.ran = TRUE, !.took = {}]
  <2>1. r \in Process
    BY <1>1 DEF Process
  <2>2. /\ r.pc = proc[p].pc /\ r.file = proc[p].file
        /\ r.left = proc[p].left /\ r.handle = proc[p].handle
    BY <1>1 DEF Process
  <2>3. Good(r)
    BY <1>1, <2>1, <2>2 DEF Good
  <2>4. proc' = [proc EXCEPT ![p] = r]
    BY <1>4 DEF RunStep
  <2>. QED  BY <2>3, <2>4 DEF Moves
<1>5. CASE CreateFile(p)
  <2>. DEFINE r == [proc[p] EXCEPT !.pc = "copy", !.took = {}]
  <2>1. r \in Process
    BY <1>1 DEF Process
  <2>2. /\ r.pc = "copy" /\ r.file = proc[p].file /\ r.left = proc[p].left
        /\ r.handle = proc[p].handle
    BY <1>1 DEF Process
  <2>3. proc' = [proc EXCEPT ![p] = r] /\ proc[p].pc = "request"
    BY <1>5 DEF CreateFile, At
  <2>4. Good(r)
    BY <1>1, <2>1, <2>2, <2>3 DEF Good
  <2>. QED  BY <2>3, <2>4 DEF Moves
<1>6. ASSUME NEW part \in Parts, Unpack(p, part)  PROVE Moves(p)
  <2>. DEFINE r == [proc[p] EXCEPT !.left = @ \ {part}]
  <2>1. r \in Process
    BY <1>1 DEF Process
  <2>. QED  BY <1>1, <1>6, <2>1 DEF Moves, Good, Process, Unpack, At
<1>7. CASE CleanRuntime(p) /\ proc' # proc
  <2>. DEFINE r == [proc[p] EXCEPT !.pc = "unpack", !.left = Parts, !.took = {}]
  <2>1. r \in Process
    BY <1>1 DEF Process
  <2>. QED  BY <1>1, <1>7, <2>1 DEF Moves, Good, Process, CleanRuntime, At
<1>. QED  BY <1>2, <1>3, <1>4, <1>5, <1>6, <1>7

(* A process goes on with a record of which two or three fields change.    *)
LEMMA TurnMoves ==
  ASSUME Typed, NEW p \in Proc,
         \/ ReleaseManifest(p) \/ Catalogue(p) \/ Locate(p) \/ LcpFile(p) \/ Load(p)
  PROVE  Moves(p)
<1>1. proc[p] \in Process /\ Good(proc[p])
  BY GoodProcesses
<1>2. ASSUME NEW f \in File \ {"lock"},
             proc' = [proc EXCEPT ![p].pc = "entry", ![p].file = f,
                                  ![p].took = Torn({f})],
             proc[p].left = {}
      PROVE  Moves(p)
  <2>. DEFINE r == [proc[p] EXCEPT !.pc = "entry", !.file = f, !.took = Torn({f})]
  <2>1. r \in Process
    BY <1>1, TakenType DEF Process
  <2>2. r.pc = "entry" /\ r.file = f /\ r.left = {} /\ f # "none"
    BY <1>1, <1>2 DEF Process, File
  <2>. QED  BY <1>2, <2>1, <2>2 DEF Moves, Good
<1>3. CASE ReleaseManifest(p)
  BY <1>1, <1>2, <1>3, FetchMoves DEF ReleaseManifest, File, At, Good
<1>4. CASE Catalogue(p)
  BY <1>1, <1>2, <1>4, FetchMoves DEF Catalogue, File, At, Good
<1>5. CASE Locate(p)
  <2>1. proc[p].left = {}
    BY <1>1, <1>5 DEF Good, Locate, At
  <2>2. CASE proc' = [proc EXCEPT ![p].pc = "acquire", ![p].asked = TRUE,
                                  ![p].took = {}]
    <3>. DEFINE r == [proc[p] EXCEPT !.pc = "acquire", !.asked = TRUE,
                                     !.took = {}]
    <3>1. r \in Process
      BY <1>1 DEF Process
    <3>2. r.pc = "acquire" /\ r.file = "none" /\ r.left = {}
      BY <1>1, <1>5, <2>1 DEF Good, Process, Locate, At
    <3>. QED  BY <2>2, <3>1, <3>2 DEF Moves, Good
  <2>. QED  BY <1>5, <2>1, <2>2, ExitMoves, FoundMoves DEF Locate
<1>6. CASE LcpFile(p)
  <2>1. proc[p].left = {}
    BY <1>1, <1>6 DEF Good, LcpFile, At
  <2>2. CASE proc' = [proc EXCEPT ![p].pc = "lock", ![p].handle = "cached",
                                  ![p].took = Torn({"lcp"})]
    <3>. DEFINE r == [proc[p] EXCEPT !.pc = "lock", !.handle = "cached",
                                     !.took = Torn({"lcp"})]
    <3>1. "lcp" \in File
      BY DEF File
    <3>2. r \in Process
      BY <1>1, <3>1, TakenType DEF Process
    <3>3. r.file = "none" /\ r.left = {} /\ r.handle = "cached" /\ r.pc = "lock"
      BY <1>1, <1>6, <2>1 DEF Good, Process, LcpFile, At
    <3>. QED  BY <2>2, <3>2, <3>3 DEF Moves, Good
  <2>. QED  BY <1>6, <2>1, <2>2, FetchMoves DEF LcpFile, File
<1>7. CASE Load(p)
  <2>1. CASE Exit(p, "error")
    BY <2>1, ExitMoves
  <2>2. CASE ~ Exit(p, "error")
    <3>. DEFINE took == IF proc[p].handle = "cached"
                          THEN Torn({"compose", "lcp"}) ELSE {}
                r == [proc[p] EXCEPT !.pc = "run", !.early = proc[p].flag,
                                     !.took = took]
    <3>1. proc' = [proc EXCEPT ![p] = r]
      BY <1>7, <2>2 DEF Load
    <3>2. took \in SUBSET (File \cup {"runtime"})
      BY TakenType DEF File
    <3>3. r \in Process
      <4>. HIDE DEF took
      <4>. QED  BY <1>1, <3>2 DEF Process
    <3>4. /\ r.pc = "run" /\ r.file = proc[p].file /\ r.left = proc[p].left
          /\ r.handle = proc[p].handle
      <4>. HIDE DEF took
      <4>. QED  BY <1>1 DEF Process
    <3>5. proc[p].file = "none" /\ proc[p].left = {} /\ proc[p].handle # "none"
      BY <1>1, <1>7 DEF Good, Load, At
    <3>6. Good(r)
      BY <3>3, <3>4, <3>5 DEF Good
    <3>. QED  BY <3>1, <3>6 DEF Moves
  <2>. QED  BY <2>1, <2>2
<1>. QED  BY <1>3, <1>4, <1>5, <1>6, <1>7
-----------------------------------------------------------------------------
(* A step of p moves p alone.                                              *)
LEMMA StepMoves ==
  ASSUME Typed, NEW p \in Proc, Step(p), proc' # proc
  PROVE  Moves(p)
<1>1. proc[p] \in Process /\ Good(proc[p])
  BY GoodProcesses
<1>2. proc[p].pc # "unpack" => proc[p].left = {}
  BY <1>1 DEF Good
<1>3. proc[p].pc \in {"request", "copy", "entry"} => proc[p].file \in File
  BY <1>1 DEF Good, Process
<1>4. CASE Kill(p) \/ CleanFails(p) \/ UnpackFails(p) \/ EndRun(p)
  BY <1>4, ExitMoves DEF Kill, CleanFails, UnpackFails, BreakOff, EndRun
<1>5. CASE EnsureRuntimeHome(p)
  BY <1>2, <1>5, ProceedMoves, TakenType DEF EnsureRuntimeHome, At
<1>6. CASE FinishInstall(p)
  BY <1>6, ProceedMoves, ExitMoves, TakenType DEF FinishInstall, BreakOff, At
<1>7. CASE AcquireFile(p) \/ DownloadCompose(p)
  BY <1>2, <1>7, FoundMoves, ExitMoves DEF AcquireFile, DownloadCompose, At
<1>8. CASE ResolveComponent(p)
  BY <1>2, <1>8, FoundMoves, ProceedMoves, NotFoundMoves, TakenType
     DEF ResolveComponent, At
<1>9. CASE FindEntry(p)
  BY <1>2, <1>9, ProceedMoves, NotFoundMoves DEF FindEntry, At
<1>10. CASE ComposeFile(p)
  <2>1. proc[p].left = {}
    BY <1>2, <1>10 DEF ComposeFile, At
  <2>2. CASE Fetch(p, "compose")
    BY <2>1, <2>2, FetchMoves DEF File
  <2>3. CASE Proceed(p, "lcp", Torn({"compose"}))
    BY <2>1, <2>3, ProceedMoves, TakenType DEF File
  <2>. QED  BY <1>10, <2>2, <2>3 DEF ComposeFile
<1>11. CASE RequestFails(p) \/ CopyFails(p)
  BY <1>2, <1>3, <1>11, GiveUpMoves DEF RequestFails, CopyFails, At
<1>12. CASE CopyEnds(p)
  <2>1. proc[p].left = {} /\ proc[p].file \in File
    BY <1>2, <1>3, <1>12 DEF CopyEnds, At
  <2>2. \/ Fetch(p, "release") \/ Proceed(p, "lcp", {}) \/ Found(p, "cached")
        \/ proc[p].file # "none" /\ Proceed(p, "entry", {})
        \/ proc[p].file = "lock" /\ Proceed(p, "pipeline", {})
    BY <1>12, <2>1 DEF CopyEnds, File
  <2>3. proc[p].file # "lock" \/ proc[p].handle # "none"
    BY <1>1 DEF Good
  <2>. QED  BY <2>1, <2>2, <2>3, FetchMoves, ProceedMoves, FoundMoves DEF File
<1>13. CASE CheckLock(p)
  BY <1>1, <1>2, <1>13, ProceedMoves, ExitMoves, TakenType
     DEF CheckLock, At, File, Good
<1>14. CASE PipelineWrites(p) \/ PipelineEnds(p)
  BY <1>1, <1>2, <1>14, FetchMoves, ProceedMoves, ExitMoves
     DEF PipelineWrites, PipelineEnds, At, File, Good
<1>. QED
  BY <1>4, <1>5, <1>6, <1>7, <1>8, <1>9, <1>10, <1>11, <1>12, <1>13, <1>14,
     OwnMoves, TurnMoves DEF Step
(* The file that p has in hand, when it fetches or copies it.              *)
LEMMA InHand ==
  ASSUME Typed, NEW p \in Proc, At(p, "request") \/ At(p, "copy")
  PROVE  proc[p].file \in File
BY GoodProcesses DEF At, Good, Process

(* What else a step changes.  The disk: a file is created by p, or the one *)
(* that p is copying becomes whole, or the archive is removed.             *)
LEMMA StepOutside ==
  ASSUME Typed, NEW p \in Proc, Step(p)
  PROVE  /\ world' = world
         /\ unpacked' \in SUBSET Parts
         /\ faults' \subseteq File \cup {"runtime", "overlap"}
         /\ "overlap" \in faults => "overlap" \in faults'
         /\ CreateFile(p) \/ CopyEnds(p) \/ RequestFails(p) \/ disk' = disk
<1>1. unpacked \in SUBSET Parts /\ faults \subseteq File \cup {"runtime", "overlap"}
  BY DEF Typed, TypeOK
<1>2. world' = world
  BY DEF Step, Start, Interrupt, Kill, EnsureRuntimeHome, CleanRuntime,
         CleanFails, UnpackFails, BreakOff, Unpack, FinishInstall,
         AcquireFile, DownloadCompose,
         ResolveComponent, ReleaseManifest, Catalogue, FindEntry, Locate,
         ComposeFile, LcpFile, RequestFails, CreateFile, CopyFails, CopyEnds,
         CheckLock, PipelineWrites, PipelineEnds, Load, RunStep, EndRun
<1>3. unpacked' \in SUBSET Parts
  BY <1>1
     DEF Step, Start, Interrupt, Kill, EnsureRuntimeHome, CleanRuntime,
         CleanFails, UnpackFails, BreakOff, Unpack, FinishInstall,
         AcquireFile, DownloadCompose,
         ResolveComponent, ReleaseManifest, Catalogue, FindEntry, Locate,
         ComposeFile, LcpFile, RequestFails, CreateFile, CopyFails, CopyEnds,
         CheckLock, PipelineWrites, PipelineEnds, Load, RunStep, EndRun
<1>4. /\ faults' \subseteq File \cup {"runtime", "overlap"}
      /\ "overlap" \in faults => "overlap" \in faults'
  <2>1. At(p, "copy") \/ At(p, "request") => proc[p].file \in File
    BY InHand
  <2>2. "overlap" \notin File
    BY DEF File
  <2>. QED
    BY <1>1, <2>1, <2>2
       DEF Step, Start, Interrupt, Kill, EnsureRuntimeHome, CleanRuntime,
           CleanFails, UnpackFails, BreakOff, Unpack, FinishInstall,
           AcquireFile, DownloadCompose,
           ResolveComponent, ReleaseManifest, Catalogue, FindEntry, Locate,
           ComposeFile, LcpFile, RequestFails, CreateFile, CopyFails, CopyEnds,
           CheckLock, PipelineWrites, PipelineEnds, Load, RunStep, EndRun
<1>5. CreateFile(p) \/ CopyEnds(p) \/ RequestFails(p) \/ disk' = disk
  BY DEF Step, Start, Interrupt, Kill, EnsureRuntimeHome, CleanRuntime,
         CleanFails, UnpackFails, BreakOff, Unpack, FinishInstall,
         AcquireFile, DownloadCompose,
         ResolveComponent, ReleaseManifest, Catalogue, FindEntry, Locate,
         ComposeFile, LcpFile, CopyFails,
         CheckLock, PipelineWrites, PipelineEnds, Load, RunStep, EndRun
<1>. QED  BY <1>2, <1>3, <1>4, <1>5

(* Only what happens to the file that p has in hand, or to the runtime,    *)
(* can clear a fault.                                                      *)
LEMMA StepFaults ==
  ASSUME Typed, NEW p \in Proc, Step(p)
  PROVE  /\ \A f \in File :
              f \in faults /\ f \notin faults' => CreateFile(p) /\ f = proc[p].file
         /\ "runtime" \in faults /\ "runtime" \notin faults' => CleanRuntime(p)
<1>1. At(p, "request") => proc[p].file \in File
  BY InHand
<1>2. "runtime" \notin File
  BY DEF File
<1>. QED
  BY <1>1, <1>2
     DEF Step, Start, Interrupt, Kill, EnsureRuntimeHome, CleanRuntime,
         CleanFails, UnpackFails, BreakOff, Unpack, FinishInstall,
         AcquireFile, DownloadCompose,
         ResolveComponent, ReleaseManifest, Catalogue, FindEntry, Locate,
         ComposeFile, LcpFile, RequestFails, CreateFile, CopyFails, CopyEnds,
         CheckLock, PipelineWrites, PipelineEnds, Load, RunStep, EndRun

(* What p makes of its file when it has come to the end of the copy.       *)
LEMMA CopyDisk ==
  ASSUME Typed, NEW p \in Proc, CopyEnds(p)
  PROVE  /\ disk' \in [File -> Content]
         /\ \E state \in Finished(p) :
              \A f \in File :
                \/ disk'[f] = Absent /\ f = "archive"
                \/ f # proc[p].file /\ disk'[f] = disk[f]
                \/ /\ f = proc[p].file
                   /\ disk'[f] = [state |-> state, author |-> disk[f].author]
<1>. DEFINE f0 == proc[p].file
<1>1. disk \in [File -> Content] /\ f0 \in File /\ "archive" \in File
  BY InHand DEF Typed, TypeOK, CopyEnds, File
<1>2. PICK state \in Finished(p) :
        LET copied == [disk EXCEPT ![f0].state = state]
        IN disk' = IF f0 = "release"
                     THEN [copied EXCEPT !["archive"] = Absent] ELSE copied
  BY DEF CopyEnds
<1>3. disk[f0] \in Content /\ Absent \in Content
  BY <1>1 DEF Content, Absent
<1>. DEFINE new == [disk[f0] EXCEPT !.state = state]
            after == [disk EXCEPT ![f0] = new]
<1>4. state \in {"absent", "partial", "contested", "whole"}
  BY <1>2, <1>3 DEF Finished, Content
<1>5. /\ new = [state |-> state, author |-> disk[f0].author]
      /\ new \in Content
  BY <1>3, <1>4 DEF Content
<1>6. after \in [File -> Content]
  <2>. HIDE DEF new
  <2>. QED  BY <1>1, <1>5
<1>7. disk' = after \/ disk' = [after EXCEPT !["archive"] = Absent]
  BY <1>2
<1>8. \A f \in File : (disk'[f] = Absent /\ f = "archive") \/ disk'[f] = after[f]
  <2>. HIDE DEF after
  <2>. QED  BY <1>6, <1>7
<1>9. disk' \in [File -> Content]
  <2>. HIDE DEF after
  <2>. QED  BY <1>1, <1>3, <1>6, <1>7
<1>10. \A f \in File : after[f] = IF f = f0 THEN new ELSE disk[f]
  BY <1>1
<1>11. \A f \in File :
         \/ disk'[f] = Absent /\ f = "archive"
         \/ f # f0 /\ disk'[f] = disk[f]
         \/ f = f0 /\ disk'[f] = [state |-> state, author |-> disk[f].author]
  <2>. HIDE DEF after, new
  <2>. QED  BY <1>5, <1>8, <1>10
<1>. QED  BY <1>2, <1>9, <1>11

(* What p leaves of a file.                                                *)
LEMMA StepDisk ==
  ASSUME Typed, NEW p \in Proc, Step(p)
  PROVE  /\ disk' \in [File -> Content]
         /\ \A f \in File :
              \/ disk'[f] = disk[f]
              \/ disk'[f] = Absent /\ f = "archive"
              \/ /\ CreateFile(p) /\ f = proc[p].file /\ disk'[f].author = p
                 /\ disk'[f].state = "partial" \/ disk'[f].state = "contested"
              \/ /\ CopyEnds(p) /\ f = proc[p].file /\ Present(f)
                 /\ disk'[f].author = disk[f].author
                 /\ \/ disk'[f].state = "whole"
                    \/ disk'[f].state = "contested" /\ disk[f].state = "contested"
<1>1. disk \in [File -> Content] /\ "archive" \in File
  BY DEF Typed, TypeOK, File
<1>2. Absent \in Content /\ p \in Proc \cup {Nobody}
  BY DEF Absent, Content
<1>3. CASE RequestFails(p)
  BY <1>1, <1>2, <1>3 DEF RequestFails
<1>4. CASE CreateFile(p)
  <2>1. proc[p].file \in File
    BY <1>4, InHand DEF CreateFile
  <2>2. \A state \in {"partial", "contested"} :
          [state |-> state, author |-> p] \in Content
    BY DEF Content
  <2>3. \E state \in {"partial", "contested"} :
          disk' = [disk EXCEPT ![proc[p].file] = [state |-> state, author |-> p]]
    BY <1>4 DEF CreateFile
  <2>. QED  BY <1>1, <1>4, <2>1, <2>2, <2>3
<1>5. CASE CopyEnds(p)
  <2>1. PICK state \in Finished(p) :
          \A f \in File :
            \/ disk'[f] = Absent /\ f = "archive"
            \/ f # proc[p].file /\ disk'[f] = disk[f]
            \/ /\ f = proc[p].file
               /\ disk'[f] = [state |-> state, author |-> disk[f].author]
    BY <1>5, CopyDisk
  <2>2. ASSUME NEW f \in File, f = proc[p].file,
               disk'[f] = [state |-> state, author |-> disk[f].author]
        PROVE  \/ disk'[f] = disk[f]
               \/ /\ Present(f) /\ disk'[f].author = disk[f].author
                  /\ \/ disk'[f].state = "whole"
                     \/ /\ disk'[f].state = "contested"
                        /\ disk[f].state = "contested"
    <3>1. disk[f] = [state |-> disk[f].state, author |-> disk[f].author]
      BY <1>1 DEF Content
    <3>2. \/ state = disk[f].state
          \/ state = "whole" /\ Present(f)
          \/ state = "contested" /\ disk[f].state = "contested"
      BY <2>2 DEF Finished, Present
    <3>. QED  BY <2>2, <3>1, <3>2 DEF Present
  <2>. QED  BY <1>5, <2>1, <2>2, CopyDisk
<1>6. CASE disk' = disk
  BY <1>1, <1>6
<1>. QED  BY <1>3, <1>4, <1>5, <1>6, StepOutside

(* When p comes to the end of a copy that is its own, no part is left.     *)
LEMMA CopyWhole ==
  ASSUME Typed, NEW p \in Proc, CopyEnds(p), disk[proc[p].file].author = p
  PROVE  disk'[proc[p].file].state # "partial"
<1>1. proc[p].file \in File
  BY InHand DEF CopyEnds
<1>2. \A state \in Finished(p) : state # "partial"
  BY DEF Finished
<1>3. PICK state \in Finished(p) :
        \A f \in File :
          \/ disk'[f] = Absent /\ f = "archive"
          \/ f # proc[p].file /\ disk'[f] = disk[f]
          \/ /\ f = proc[p].file
             /\ disk'[f] = [state |-> state, author |-> disk[f].author]
  BY CopyDisk
<1>4. state # "partial"
  BY <1>2
<1>5. CASE disk'[proc[p].file] = Absent
  BY <1>5 DEF Absent
<1>6. CASE disk'[proc[p].file] =
             [state |-> state, author |-> disk[proc[p].file].author]
  BY <1>4, <1>6
<1>. QED  BY <1>1, <1>3, <1>5, <1>6

LEMMA StepType ==
  ASSUME Typed, NEW p \in Proc, Step(p)
  PROVE  Typed'
<1>1. /\ proc' \in [Proc -> Process]
      /\ \A q \in Proc : Good(proc'[q])
  <2>1. CASE proc' = proc
    BY <2>1, GoodProcesses DEF Typed, TypeOK
  <2>2. CASE proc' # proc
    BY <2>2, StepMoves, MovesType
  <2>. QED  BY <2>1, <2>2
<1>2. world' \in World
  BY StepOutside DEF Typed, TypeOK
<1>. QED  BY <1>1, <1>2, StepOutside, StepDisk DEF Typed, TypeOK, Good
-----------------------------------------------------------------------------
(* Where a step takes its process.                                         *)

LEMMA StepOthers ==
  ASSUME Typed, NEW p \in Proc, Step(p)
  PROVE  \A q \in Proc \ {p} : proc'[q] = proc[q]
<1>1. CASE proc' = proc
  BY <1>1
<1>2. CASE proc' # proc
  BY <1>2, StepMoves, MovesType
<1>. QED  BY <1>1, <1>2

(* What Proceed, Fetch, Found and Exit make of the record of p.            *)
LEMMA Goes ==
  ASSUME Typed, NEW p \in Proc
  PROVE  /\ \A label, bad : Proceed(p, label, bad) =>
              /\ proc'[p].pc = label /\ proc'[p].took = bad
              /\ proc'[p].file = proc[p].file \/ proc'[p].file = "none"
              /\ proc'[p].handle = proc[p].handle
              /\ proc'[p].flag = proc[p].flag
              /\ (proc'[p].early => proc[p].early) /\ (proc'[p].ran => proc[p].ran)
         /\ \A f : Fetch(p, f) =>
              /\ proc'[p].pc = "request" /\ proc'[p].took = {}
              /\ proc'[p].file = f
              /\ proc'[p].handle = proc[p].handle
              /\ proc'[p].flag = proc[p].flag
              /\ (proc'[p].early => proc[p].early) /\ (proc'[p].ran => proc[p].ran)
         /\ \A handle : Found(p, handle) =>
              /\ proc'[p].pc = "lock" /\ proc'[p].took = {}
              /\ proc'[p].file = "none"
              /\ proc'[p].handle = handle
              /\ proc'[p].flag = proc[p].flag
              /\ (proc'[p].early => proc[p].early) /\ (proc'[p].ran => proc[p].ran)
         /\ \A code : Exit(p, code) =>
              /\ proc'[p].pc = "ended" /\ proc'[p].took = {}
              /\ proc'[p].file = "none" /\ proc'[p].handle = "none"
              /\ ~ proc'[p].flag /\ ~ proc'[p].early /\ ~ proc'[p].ran
<1>. proc \in [Proc -> Process]
  BY DEF Typed, TypeOK
<1>1. ASSUME NEW label, NEW bad, Proceed(p, label, bad)
      PROVE  /\ proc'[p].pc = label /\ proc'[p].took = bad
             /\ proc'[p].file = proc[p].file \/ proc'[p].file = "none"
             /\ proc'[p].handle = proc[p].handle
             /\ proc'[p].flag = proc[p].flag
             /\ (proc'[p].early => proc[p].early) /\ (proc'[p].ran => proc[p].ran)
  BY <1>1 DEF Proceed, Process
<1>2. ASSUME NEW f, Fetch(p, f)
      PROVE  /\ proc'[p].pc = "request" /\ proc'[p].took = {}
             /\ proc'[p].file = f
             /\ proc'[p].handle = proc[p].handle
             /\ proc'[p].flag = proc[p].flag
             /\ (proc'[p].early => proc[p].early) /\ (proc'[p].ran => proc[p].ran)
  BY <1>2 DEF Fetch, Process
<1>3. ASSUME NEW handle, Found(p, handle)
      PROVE  /\ proc'[p].pc = "lock" /\ proc'[p].took = {}
             /\ proc'[p].file = "none"
             /\ proc'[p].handle = handle
             /\ proc'[p].flag = proc[p].flag
             /\ (proc'[p].early => proc[p].early) /\ (proc'[p].ran => proc[p].ran)
  BY <1>3 DEF Found, Process
<1>4. ASSUME NEW code, Exit(p, code)
      PROVE  /\ proc'[p].pc = "ended" /\ proc'[p].took = {}
             /\ proc'[p].file = "none" /\ proc'[p].handle = "none"
             /\ ~ proc'[p].flag /\ ~ proc'[p].early /\ ~ proc'[p].ran
  BY <1>4 DEF Exit, NotStarted
<1>. QED  BY <1>1, <1>2, <1>3, <1>4

Outside(p) == Start(p) \/ Interrupt(p) \/ Kill(p)

SetsUp(p) ==
  \/ EnsureRuntimeHome(p) \/ CleanRuntime(p) \/ CleanFails(p)
  \/ (\E part \in Parts : Unpack(p, part)) \/ UnpackFails(p)
  \/ FinishInstall(p)

Acquires(p) ==
  \/ AcquireFile(p) \/ DownloadCompose(p) \/ ResolveComponent(p)
  \/ ReleaseManifest(p) \/ Catalogue(p) \/ FindEntry(p) \/ Locate(p)
  \/ ComposeFile(p) \/ LcpFile(p)
  \/ RequestFails(p) \/ CreateFile(p) \/ CopyFails(p) \/ CopyEnds(p)

Runs(p) ==
  \/ CheckLock(p) \/ PipelineWrites(p) \/ PipelineEnds(p)
  \/ Load(p) \/ RunStep(p) \/ EndRun(p)

LEMMA StepPhases ==
  ASSUME NEW p \in Proc
  PROVE  Step(p) <=> Outside(p) \/ SetsUp(p) \/ Acquires(p) \/ Runs(p)
BY DEF Step, Outside, SetsUp, Acquires, Runs

Installer == {"runtime", "clean", "unpack"}

(* What holds of a step of p after the installation of the runtime.        *)
Turn(p) ==
  /\ proc'[p].pc \notin Installer \cup {"idle"}
  /\ proc'[p].pc = "copy" => CreateFile(p) /\ proc'[p].file = proc[p].file
  /\ \/ proc'[p].took = {}
     \/ ~ At(p, "copy") /\ proc'[p].took \subseteq Torn(File)
     \/ HasHome /\ proc'[p].took = Unsound
  /\ proc'[p].file = "lcp" => proc[p].file = "lcp" \/ world.manifest
  /\ proc'[p].handle = "cached" =>
       \/ proc[p].handle = "cached"
       \/ world.manifest => Present("lcp")
       \/ At(p, "copy") /\ proc[p].file = "lcp"
  /\ proc'[p].pc = "load" =>
       /\ proc[p].pc \in {"lock", "pipeline"}
       /\ proc'[p].handle = proc[p].handle
       /\ HasManifest(p) => Present("lock")
  /\ proc'[p].pc = "run" =>
       /\ proc[p].pc \in {"load", "run"}
       /\ proc'[p].handle = proc[p].handle
  /\ proc'[p].ran => proc[p].ran \/ (At(p, "run") /\ ~ proc[p].flag)
  /\ proc'[p].early => proc[p].early \/ (At(p, "load") /\ proc[p].flag)
  /\ proc'[p].early \/ proc'[p].ran => proc'[p].flag = proc[p].flag
  /\ proc[p].pc = "run" => proc'[p].pc \in {"run", "ended"}
  /\ proc'[p].pc = "ended" => ~ proc'[p].early /\ ~ proc'[p].ran
  /\ proc'[p].early => proc[p].early \/ proc'[p].pc = "run"

LEMMA ProceedTurns ==
  ASSUME Typed, NEW p \in Proc, NEW label, NEW bad, Proceed(p, label, bad),
         label \notin Installer \cup {"idle", "copy", "load", "run", "ended"},
         proc[p].pc # "run",
         \/ bad = {}
         \/ bad = Unsound /\ HasHome
         \/ bad \subseteq Torn(File) /\ ~ At(p, "copy")
  PROVE  Turn(p)
<1>1. /\ proc'[p].pc = label /\ proc'[p].took = bad
      /\ proc'[p].file = proc[p].file \/ proc'[p].file = "none"
      /\ proc'[p].handle = proc[p].handle
      /\ proc'[p].flag = proc[p].flag
      /\ (proc'[p].early => proc[p].early) /\ (proc'[p].ran => proc[p].ran)
  BY Goes
<1>. QED  BY <1>1 DEF Turn

LEMMA FetchTurns ==
  ASSUME Typed, NEW p \in Proc, NEW f, Fetch(p, f), proc[p].pc # "run",
         f = "lcp" => world.manifest
  PROVE  Turn(p)
<1>1. /\ proc'[p].pc = "request" /\ proc'[p].took = {}
      /\ proc'[p].file = f
      /\ proc'[p].handle = proc[p].handle
      /\ proc'[p].flag = proc[p].flag
      /\ (proc'[p].early => proc[p].early) /\ (proc'[p].ran => proc[p].ran)
  BY Goes
<1>. QED  BY <1>1 DEF Turn, Installer

LEMMA FoundTurns ==
  ASSUME Typed, NEW p \in Proc, NEW handle, Found(p, handle), proc[p].pc # "run",
         handle = "cached" => At(p, "copy") /\ proc[p].file = "lcp"
  PROVE  Turn(p)
<1>1. /\ proc'[p].pc = "lock" /\ proc'[p].took = {}
      /\ proc'[p].file = "none"
      /\ proc'[p].handle = handle
      /\ proc'[p].flag = proc[p].flag
      /\ (proc'[p].early => proc[p].early) /\ (proc'[p].ran => proc[p].ran)
  BY Goes
<1>. QED  BY <1>1 DEF Turn, Installer

LEMMA ExitTurns ==
  ASSUME Typed, NEW p \in Proc, NEW code, Exit(p, code)
  PROVE  Turn(p)
<1>1. /\ proc'[p].pc = "ended" /\ proc'[p].took = {}
      /\ proc'[p].file = "none" /\ proc'[p].handle = "none"
      /\ ~ proc'[p].flag /\ ~ proc'[p].early /\ ~ proc'[p].ran
  BY Goes
<1>. QED  BY <1>1 DEF Turn, Installer

LEMMA NotFoundTurns ==
  ASSUME Typed, NEW p \in Proc, NotFound(p), proc[p].pc # "run"
  PROVE  Turn(p)
BY ProceedTurns, ExitTurns DEF NotFound, Installer

LEMMA GiveUpTurns ==
  ASSUME Typed, NEW p \in Proc, GiveUp(p), At(p, "request") \/ At(p, "copy")
  PROVE  Turn(p)
<1>1. proc[p].file \in File /\ proc[p].pc # "run"
  BY InHand DEF At
<1>. QED  BY <1>1, ProceedTurns, NotFoundTurns, ExitTurns DEF GiveUp, Installer, File

LEMMA TornFiles ==
  \A fs \in SUBSET File : Torn(fs) \subseteq Torn(File)
BY DEF Torn

LEMMA AcquireTurns ==
  ASSUME Typed, NEW p \in Proc, Acquires(p)
  PROVE  Turn(p)
<1>. proc[p] \in Process /\ proc \in [Proc -> Process]
  BY DEF Typed, TypeOK
<1>1. CASE AcquireFile(p) \/ DownloadCompose(p)
  <2>1. proc[p].pc # "run"
    BY <1>1 DEF AcquireFile, DownloadCompose, At
  <2>. QED  BY <1>1, <2>1, FoundTurns, ExitTurns DEF AcquireFile, DownloadCompose
<1>2. CASE ResolveComponent(p)
  <2>1. proc[p].pc # "run"
    BY <1>2 DEF ResolveComponent, At
  <2>2. \/ Found(p, "local") \/ NotFound(p)
        \/ Proceed(p, "compose", {}) \/ Proceed(p, "release", {})
        \/ HasHome /\ Proceed(p, "compose", Unsound)
    BY <1>2 DEF ResolveComponent
  <2>. QED  BY <2>1, <2>2, FoundTurns, NotFoundTurns, ProceedTurns DEF Installer
<1>3. CASE ReleaseManifest(p)
  <2>1. proc[p].pc = "release"
    BY <1>3 DEF ReleaseManifest, At
  <2>2. CASE proc' = [proc EXCEPT ![p].pc = "entry", ![p].file = "release",
                                  ![p].took = Torn({"release"})]
    BY <2>1, <2>2, TornFiles DEF Turn, Process, Installer, At, File
  <2>. QED  BY <1>3, <2>1, <2>2, FetchTurns DEF ReleaseManifest
<1>4. CASE Catalogue(p)
  <2>1. proc[p].pc = "catalogue"
    BY <1>4 DEF Catalogue, At
  <2>2. CASE proc' = [proc EXCEPT ![p].pc = "entry", ![p].file = "catalogue",
                                  ![p].took = Torn({"catalogue"})]
    BY <2>1, <2>2, TornFiles DEF Turn, Process, Installer, At, File
  <2>. QED  BY <1>4, <2>1, <2>2, FetchTurns DEF Catalogue
<1>5. CASE FindEntry(p)
  <2>1. proc[p].pc # "run"
    BY <1>5 DEF FindEntry, At
  <2>. QED  BY <1>5, <2>1, NotFoundTurns, ProceedTurns DEF FindEntry, Installer
<1>6. CASE Locate(p)
  <2>1. proc[p].pc = "locate"
    BY <1>6 DEF Locate, At
  <2>2. CASE proc' = [proc EXCEPT ![p].pc = "acquire", ![p].asked = TRUE,
                                  ![p].took = {}]
    BY <2>1, <2>2 DEF Turn, Process, Installer, At
  <2>. QED  BY <1>6, <2>1, <2>2, FoundTurns, ExitTurns DEF Locate
<1>7. CASE ComposeFile(p)
  <2>1. proc[p].pc = "compose" /\ ~ At(p, "copy")
    BY <1>7 DEF ComposeFile, At
  <2>2. Torn({"compose"}) \subseteq Torn(File)
    BY TornFiles DEF File
  <2>. QED
    BY <1>7, <2>1, <2>2, FetchTurns, ProceedTurns DEF ComposeFile, Installer
<1>8. CASE LcpFile(p)
  <2>1. proc[p].pc = "lcp"
    BY <1>8 DEF LcpFile, At
  <2>2. CASE /\ world.manifest => Present("lcp")
             /\ proc' = [proc EXCEPT ![p].pc = "lock", ![p].handle = "cached",
                                     ![p].took = Torn({"lcp"})]
    BY <2>1, <2>2, TornFiles DEF Turn, Process, Installer, At, File
  <2>. QED  BY <1>8, <2>1, <2>2, FetchTurns DEF LcpFile
<1>9. CASE RequestFails(p) \/ CopyFails(p)
  BY <1>9, GiveUpTurns DEF RequestFails, CopyFails
<1>10. CASE CreateFile(p)
  <2>1. /\ proc' = [proc EXCEPT ![p].pc = "copy", ![p].took = {}]
        /\ proc[p].pc = "request"
    BY <1>10 DEF CreateFile, At
  <2>. QED  BY <1>10, <2>1 DEF Turn, Process, Installer, At
<1>11. CASE CopyEnds(p)
  <2>1. proc[p].pc = "copy"
    BY <1>11 DEF CopyEnds, At
  <2>2. \/ Fetch(p, "release") \/ Proceed(p, "entry", {})
        \/ Proceed(p, "lcp", {}) \/ Proceed(p, "pipeline", {})
        \/ proc[p].file = "lcp" /\ Found(p, "cached")
    BY <1>11 DEF CopyEnds
  <2>. QED
    BY <2>1, <2>2, FetchTurns, ProceedTurns, FoundTurns DEF Installer, At
<1>. QED
  BY <1>1, <1>2, <1>3, <1>4, <1>5, <1>6, <1>7, <1>8, <1>9, <1>10, <1>11
     DEF Acquires

LEMMA RunTurns ==
  ASSUME Typed, NEW p \in Proc, Runs(p)
  PROVE  Turn(p)
<1>. proc[p] \in Process /\ proc \in [Proc -> Process]
  BY DEF Typed, TypeOK
<1>1. CASE CheckLock(p)
  <2>1. proc[p].pc = "lock"
    BY <1>1 DEF CheckLock, At
  <2>2. CASE \E code : Exit(p, code)
    BY <2>2, ExitTurns
  <2>3. CASE Proceed(p, "pipeline", IF HasHome THEN Unsound ELSE {})
    BY <2>1, <2>3, ProceedTurns DEF Installer
  <2>4. CASE /\ HasManifest(p) => Present("lock")
             /\ Proceed(p, "load", IF HasManifest(p) THEN Torn({"lock"}) ELSE {})
    <3>1. Torn({"lock"}) \subseteq Torn(File)
      BY TornFiles DEF File
    <3>2. /\ proc'[p].pc = "load"
          /\ proc'[p].took = {} \/ proc'[p].took \subseteq Torn(File)
          /\ proc'[p].file = proc[p].file \/ proc'[p].file = "none"
          /\ proc'[p].handle = proc[p].handle
          /\ proc'[p].flag = proc[p].flag
          /\ (proc'[p].early => proc[p].early) /\ (proc'[p].ran => proc[p].ran)
      BY <2>4, <3>1, Goes
    <3>. QED  BY <2>1, <2>4, <3>2 DEF Turn, Installer, At
  <2>. QED  BY <1>1, <2>2, <2>3, <2>4 DEF CheckLock, ShouldResolve
<1>2. CASE PipelineWrites(p)
  BY <1>2, FetchTurns DEF PipelineWrites, At
<1>3. CASE PipelineEnds(p)
  <2>1. proc[p].pc = "pipeline"
    BY <1>3 DEF PipelineEnds, At
  <2>2. CASE Present("lock") /\ Proceed(p, "load", {})
    <3>1. /\ proc'[p].pc = "load" /\ proc'[p].took = {}
          /\ proc'[p].file = proc[p].file \/ proc'[p].file = "none"
          /\ proc'[p].handle = proc[p].handle
          /\ proc'[p].flag = proc[p].flag
          /\ (proc'[p].early => proc[p].early) /\ (proc'[p].ran => proc[p].ran)
      BY <2>2, Goes
    <3>. QED  BY <2>1, <2>2, <3>1 DEF Turn, Installer
  <2>. QED  BY <1>3, <2>2, ExitTurns DEF PipelineEnds
<1>4. CASE Load(p)
  <2>1. proc[p].pc = "load"
    BY <1>4 DEF Load, At
  <2>2. CASE proc' = [proc EXCEPT
                        ![p].pc = "run", ![p].early = proc[p].flag,
                        ![p].took = IF proc[p].handle = "cached"
                                      THEN Torn({"compose", "lcp"}) ELSE {}]
    <3>1. Torn({"compose", "lcp"}) \subseteq Torn(File)
      BY TornFiles DEF File
    <3>2. /\ proc'[p].pc = "run" /\ proc'[p].early = proc[p].flag
          /\ proc'[p].took = {} \/ proc'[p].took \subseteq Torn(File)
          /\ proc'[p].file = proc[p].file /\ proc'[p].handle = proc[p].handle
          /\ proc'[p].flag = proc[p].flag
          /\ proc'[p].ran => proc[p].ran
      BY <2>2, <3>1 DEF Process
    <3>. QED  BY <2>1, <3>2 DEF Turn, Installer, At
  <2>. QED  BY <1>4, <2>2, ExitTurns DEF Load
<1>5. CASE RunStep(p)
  <2>1. /\ proc[p].pc = "run" /\ ~ proc[p].flag
        /\ proc' = [proc EXCEPT ![p].ran = TRUE, ![p].took = {}]
    BY <1>5 DEF RunStep, At
  <2>. QED  BY <2>1 DEF Turn, Process, Installer, At
<1>6. CASE EndRun(p)
  BY <1>6, ExitTurns DEF EndRun
<1>. QED  BY <1>1, <1>2, <1>3, <1>4, <1>5, <1>6 DEF Runs

(* After the installation a step leaves the runtime alone.                 *)
LEMMA OnwardFrame ==
  ASSUME Typed, NEW p \in Proc, Acquires(p) \/ Runs(p)
  PROVE  /\ Turn(p) /\ Live(p) /\ proc[p].pc \notin Installer
         /\ unpacked' = unpacked
<1>1. Turn(p)
  BY AcquireTurns, RunTurns
<1>2. Live(p) /\ proc[p].pc \notin Installer
  BY DEF Acquires, Runs, AcquireFile, DownloadCompose, ResolveComponent,
         ReleaseManifest, Catalogue, FindEntry, Locate, ComposeFile, LcpFile,
         RequestFails, CreateFile, CopyFails, CopyEnds, CheckLock,
         PipelineWrites, PipelineEnds, Load, RunStep, EndRun, At, Live, Installer
<1>. QED
  BY <1>1, <1>2
     DEF Acquires, Runs, AcquireFile, DownloadCompose, ResolveComponent,
         ReleaseManifest, Catalogue, FindEntry, Locate, ComposeFile, LcpFile,
         RequestFails, CreateFile, CopyFails, CopyEnds, CheckLock,
         PipelineWrites, PipelineEnds, Load, RunStep, EndRun

(* What the steps of the installation make of the record of p.             *)
Kept(p) ==
  /\ proc'[p].handle = proc[p].handle \/ proc'[p].handle = "none"
  /\ proc'[p].file = proc[p].file \/ proc'[p].file = "none"
  /\ (proc'[p].early => proc[p].early) /\ (proc'[p].ran => proc[p].ran)

LEMMA InstallFrame ==
  ASSUME Typed, NEW p \in Proc, SetsUp(p)
  PROVE  /\ Live(p) /\ proc[p].pc \in Installer
         /\ proc'[p].pc \in {"clean", "unpack", "acquire", "ended"}
         /\ Kept(p)
<1>. proc[p] \in Process /\ proc \in [Proc -> Process]
  BY DEF Typed, TypeOK
<1>1. Live(p) /\ proc[p].pc \in Installer
  BY DEF SetsUp, EnsureRuntimeHome, CleanRuntime, CleanFails, UnpackFails,
         Unpack, FinishInstall, At, Live, Installer
<1>2. ASSUME NEW label \in {"clean", "acquire"}, NEW bad, Proceed(p, label, bad)
      PROVE  Kept(p) /\ proc'[p].pc \in {"clean", "acquire"}
  BY <1>2, Goes DEF Kept
<1>3. ASSUME NEW rest, BreakOff(p, rest)
      PROVE  Kept(p) /\ proc'[p].pc = "ended"
  BY <1>3, Goes DEF BreakOff, Kept
<1>4. CASE CleanRuntime(p)
  BY <1>1, <1>4 DEF CleanRuntime, Kept, Process, At
<1>5. CASE \E part \in Parts : Unpack(p, part)
  BY <1>1, <1>5 DEF Unpack, Kept, Process, At
<1>6. CASE EnsureRuntimeHome(p)
  BY <1>1, <1>2, <1>6 DEF EnsureRuntimeHome
<1>7. CASE CleanFails(p) \/ UnpackFails(p) \/ FinishInstall(p)
  BY <1>1, <1>2, <1>3, <1>7 DEF CleanFails, UnpackFails, FinishInstall
<1>. QED  BY <1>4, <1>5, <1>6, <1>7 DEF SetsUp

LEMMA OutsideFrame ==
  ASSUME Typed, NEW p \in Proc, Outside(p)
  PROVE  /\ unpacked' = unpacked /\ disk' = disk
         /\ \/ /\ At(p, "idle") /\ proc'[p].pc = "runtime" /\ Start(p)
               /\ proc'[p].file = "none" /\ proc'[p].handle = "none"
               /\ proc'[p].took = {} /\ ~ proc'[p].early /\ ~ proc'[p].ran
            \/ /\ Live(p) /\ proc'[p].pc = proc[p].pc /\ faults' = faults
               /\ proc'[p].left = proc[p].left /\ proc'[p].file = proc[p].file
               /\ proc'[p].handle = proc[p].handle /\ proc'[p].took = proc[p].took
               /\ (proc'[p].early => proc[p].early) /\ (proc'[p].ran => proc[p].ran)
               /\ proc'[p].flag
            \/ /\ Live(p) /\ proc'[p].pc = "ended" /\ Kill(p)
               /\ proc'[p].took = {}
               /\ proc'[p].file = "none" /\ proc'[p].handle = "none"
               /\ ~ proc'[p].early /\ ~ proc'[p].ran
<1>. proc[p] \in Process /\ proc \in [Proc -> Process]
  BY DEF Typed, TypeOK
<1>1. CASE Start(p)
  <2>1. PICK expired \in BOOLEAN :
          proc' = [proc EXCEPT ![p] =
                     [NotStarted EXCEPT !.pc = "runtime", !.flag = expired]]
    BY <1>1 DEF Start
  <2>2. unpacked' = unpacked /\ disk' = disk /\ At(p, "idle")
    BY <1>1 DEF Start
  <2>3. /\ proc'[p].pc = "runtime"
        /\ proc'[p].file = "none" /\ proc'[p].handle = "none"
        /\ proc'[p].took = {} /\ ~ proc'[p].early /\ ~ proc'[p].ran
    BY <2>1 DEF NotStarted
  <2>. QED  BY <1>1, <2>2, <2>3
<1>2. CASE Interrupt(p)
  BY <1>2 DEF Interrupt, Process
<1>3. CASE Kill(p)
  BY <1>3, Goes DEF Kill
<1>. QED  BY <1>1, <1>2, <1>3 DEF Outside

-----------------------------------------------------------------------------
(* The parts of the invariant.                                             *)

LEMMA StepOneAtATime ==
  ASSUME Typed, OneAtATime, NEW p \in Proc, Step(p)
  PROVE  OneAtATime'
<1>. SUFFICES ASSUME "overlap" \notin faults', NEW q \in Proc, NEW r \in Proc,
                     Live(q)', Live(r)'
              PROVE  q = r
  BY DEF OneAtATime
<1>1. "overlap" \notin faults
  BY StepOutside
<1>2. \A u \in Proc \ {p} : Live(u)' => Live(u)
  BY StepOthers DEF Live, At
<1>3. CASE Start(p)
  <2>1. \A u \in Proc \ {p} : ~ Live(u)
    BY <1>1, <1>3 DEF Start
  <2>. QED  BY <1>2, <2>1
<1>4. CASE ~ Start(p)
  <2>1. Live(p)
    BY <1>4, StepPhases, OutsideFrame, InstallFrame, OnwardFrame
  <2>. QED  BY <1>1, <1>2, <2>1 DEF OneAtATime
<1>. QED  BY <1>3, <1>4

(* A file that is there stays, but for the archive.                        *)
LEMMA StepKeeps ==
  ASSUME Typed, NEW p \in Proc, Step(p), NEW f \in File, f # "archive", Present(f)
  PROVE  Present(f)'
<1>1. \/ disk'[f] = disk[f]
      \/ disk'[f].state \in {"partial", "contested", "whole"}
  BY StepDisk
<1>. QED  BY <1>1 DEF Present

LEMMA StepWritten ==
  ASSUME Typed, Written, NEW p \in Proc, Step(p)
  PROVE  Written'
<1>1. ASSUME NEW f \in File, Present(f)'  PROVE disk'[f].author \in Proc
  <2>1. \/ disk'[f] = disk[f] /\ Present(f)
        \/ disk'[f] = Absent
        \/ disk'[f].author = p
        \/ disk'[f].author = disk[f].author /\ Present(f)
    BY <1>1, StepDisk DEF Present
  <2>. QED  BY <1>1, <2>1 DEF Written, Present, Absent
<1>2. ASSUME NEW q \in Proc, At(q, "copy")', proc'[q].file # "archive"
      PROVE  Present(proc[q].file)' /\ proc'[q].file = proc[q].file
  <2>1. CASE proc'[q].file = proc[q].file /\ At(q, "copy")
    <3>1. proc[q].file \in File /\ Present(proc[q].file)
      BY <1>2, <2>1, InHand DEF Written
    <3>. QED  BY <1>2, <2>1, <3>1, StepKeeps DEF Present
  <2>2. CASE q = p /\ CreateFile(p) /\ proc'[p].file = proc[p].file
    <3>1. proc[p].file \in File
      BY <2>2, InHand DEF CreateFile
    <3>. QED  BY <2>2, <3>1 DEF CreateFile, Present, Typed, TypeOK
  <2>3. CASE q # p
    BY <1>2, <2>1, <2>3, StepOthers DEF At
  <2>4. CASE q = p
    BY <1>2, <2>1, <2>2, <2>4, StepPhases, OutsideFrame, InstallFrame, OnwardFrame
       DEF Turn, At
  <2>. QED  BY <2>3, <2>4
<1>. QED  BY <1>1, <1>2 DEF Written, Present

LEMMA StepParts ==
  ASSUME Typed, Written, PartsKnown, NEW p \in Proc, Step(p)
  PROVE  PartsKnown'
<1>. SUFFICES ASSUME NEW f \in File, f \notin faults',
                     disk'[f].state \in {"partial", "contested"}
              PROVE  /\ disk'[f].state = "partial"
                     /\ proc'[disk'[f].author].pc = "copy"
                     /\ proc'[disk'[f].author].file = f
  BY DEF PartsKnown, Writes, At
<1>1. CASE CreateFile(p) /\ f = proc[p].file
  <2>. DEFINE shared == Present(f) /\ \E q \in Proc \ {p} : Writes(q, f)
  <2>1. /\ disk' = [disk EXCEPT ![f] =
                      [state |-> IF shared THEN "contested" ELSE "partial",
                       author |-> p]]
        /\ faults' = IF shared THEN faults \cup {f} ELSE faults \ {f}
        /\ proc' = [proc EXCEPT ![p].pc = "copy", ![p].took = {}]
    BY <1>1 DEF CreateFile
  <2>2. ~ shared
    BY <2>1
  <2>. HIDE DEF shared
  <2>. QED  BY <1>1, <2>1, <2>2 DEF Typed, TypeOK, Process
<1>2. CASE ~ (CreateFile(p) /\ f = proc[p].file)
  <2>1. f \notin faults
    BY <1>2, StepFaults
  <2>2. disk'[f] = disk[f]
    BY <1>2, <2>1, StepDisk DEF Absent, PartsKnown
  <2>. DEFINE a == disk[f].author
  <2>3. /\ disk[f].state = "partial"
        /\ a \in Proc /\ proc[a].pc = "copy" /\ proc[a].file = f
    BY <2>1, <2>2 DEF Written, Present, PartsKnown, Writes, At
  <2>4. CASE a # p
    BY <2>2, <2>3, <2>4, StepOthers
  <2>5. CASE a = p
    <3>1. ~ CopyEnds(p)
      BY <2>2, <2>3, <2>5, CopyWhole
    <3>2. ~ CopyFails(p) /\ ~ Kill(p)
      BY <2>3, <2>5 DEF CopyFails, Kill, At
    <3>3. CASE Outside(p)
      <4>1. proc'[p].pc = proc[p].pc /\ proc'[p].file = proc[p].file
        BY <2>3, <2>5, <3>2, <3>3, OutsideFrame DEF At
      <4>. QED  BY <2>2, <2>3, <2>5, <4>1
    <3>4. CASE SetsUp(p)
      BY <2>3, <2>5, <3>4, InstallFrame DEF Installer
    <3>5. CASE Acquires(p)
      BY <2>3, <2>5, <3>1, <3>2, <3>5
         DEF Acquires, AcquireFile, DownloadCompose, ResolveComponent,
             ReleaseManifest, Catalogue, FindEntry, Locate, ComposeFile,
             LcpFile, RequestFails, CreateFile, At
    <3>6. CASE Runs(p)
      BY <2>3, <2>5, <3>6
         DEF Runs, CheckLock, PipelineWrites, PipelineEnds, Load, RunStep,
             EndRun, At
    <3>. QED  BY <3>3, <3>4, <3>5, <3>6, StepPhases
  <2>. QED  BY <2>4, <2>5
<1>. QED  BY <1>1, <1>2

LEMMA StepCancelled ==
  ASSUME Typed, Cancelled, NEW p \in Proc, Step(p)
  PROVE  Cancelled'
<1>1. /\ proc[p].early => proc[p].flag /\ ~ proc[p].ran
      /\ proc[p].early \/ proc[p].ran => proc[p].pc = "run"
  BY DEF Cancelled, At
<1>2. /\ proc'[p].early => proc'[p].flag /\ ~ proc'[p].ran
      /\ proc'[p].early \/ proc'[p].ran => proc'[p].pc = "run"
  <2>1. CASE Outside(p)
    BY <1>1, <2>1, OutsideFrame DEF At
  <2>2. CASE SetsUp(p)
    BY <1>1, <2>2, InstallFrame DEF Kept, Installer
  <2>3. CASE Acquires(p) \/ Runs(p)
    <3>1. Turn(p)
      BY <2>3, OnwardFrame
    <3>2. proc'[p].ran => proc[p].ran \/ (proc[p].pc = "run" /\ ~ proc[p].flag)
      BY <3>1 DEF Turn, At
    <3>3. proc'[p].early => proc[p].early \/ (proc[p].pc = "load" /\ proc[p].flag)
      BY <3>1 DEF Turn, At
    <3>4. proc'[p].early \/ proc'[p].ran => proc'[p].flag = proc[p].flag
      BY <3>1 DEF Turn
    <3>5. /\ proc[p].pc = "run" => proc'[p].pc \in {"run", "ended"}
          /\ proc'[p].pc = "ended" => ~ proc'[p].early /\ ~ proc'[p].ran
          /\ proc'[p].early => proc[p].early \/ proc'[p].pc = "run"
      BY <3>1 DEF Turn
    <3>. QED  BY <1>1, <3>2, <3>3, <3>4, <3>5
  <2>. QED  BY <2>1, <2>2, <2>3, StepPhases
<1>3. \A q \in Proc \ {p} : proc'[q] = proc[q]
  BY StepOthers
<1>. QED  BY <1>2, <1>3 DEF Cancelled, At

LEMMA StepCleaning ==
  ASSUME Typed, OneAtATime, Cleaning, NEW p \in Proc, Step(p)
  PROVE  Cleaning'
<1>. SUFFICES ASSUME "overlap" \notin faults', NEW q \in Proc,
                     proc'[q].pc = "clean", world.bundle # "nested"
              PROVE  "manifest" \notin unpacked'
  BY StepOutside DEF Cleaning, At
<1>. proc[p] \in Process /\ proc \in [Proc -> Process]
  BY DEF Typed, TypeOK
<1>1. "overlap" \notin faults
  BY StepOutside
<1>2. proc[q].pc = "clean" => "manifest" \notin unpacked
  BY <1>1 DEF Cleaning, At
<1>3. CASE q # p
  <2>1. proc'[q] = proc[q]
    BY <1>3, StepOthers
  <2>2. CASE unpacked' = unpacked
    BY <1>2, <2>1, <2>2
  <2>3. CASE unpacked' # unpacked
    <3>1. Live(p)
      BY <2>3, StepPhases, OutsideFrame, InstallFrame, OnwardFrame
    <3>2. ~ Live(q)
      BY <1>1, <1>3, <3>1 DEF OneAtATime
    <3>. QED  BY <2>1, <3>2 DEF Live, At
  <2>. QED  BY <2>2, <2>3
<1>4. CASE q = p
  <2>1. CASE Outside(p)
    BY <1>2, <1>4, <2>1, OutsideFrame
  <2>2. CASE Acquires(p) \/ Runs(p)
    BY <1>4, <2>2, OnwardFrame DEF Turn, Installer
  <2>3. CASE EnsureRuntimeHome(p)
    <3>1. CASE ~ SeemsInstalled /\ HasHome
      BY <2>3, <3>1, WorldAssumption
         DEF EnsureRuntimeHome, SeemsInstalled, HasHome, Bundles, Typed, TypeOK
    <3>2. CASE \E bad : Proceed(p, "acquire", bad)
      BY <1>4, <3>2, Goes
    <3>. QED  BY <2>3, <3>1, <3>2 DEF EnsureRuntimeHome
  <2>4. CASE CleanRuntime(p)
    <3>1. proc[p].pc = "clean" /\ unpacked' \subseteq unpacked
      BY <2>4 DEF CleanRuntime, At
    <3>. QED  BY <1>2, <1>4, <3>1
  <2>5. CASE \E part \in Parts : Unpack(p, part)
    BY <1>4, <2>5 DEF Unpack, At, Process
  <2>6. CASE CleanFails(p) \/ UnpackFails(p) \/ FinishInstall(p)
    <3>1. Exit(p, "error") \/ Proceed(p, "acquire", Unsound)
      BY <2>6 DEF CleanFails, UnpackFails, FinishInstall, BreakOff
    <3>2. proc'[p].pc \in {"ended", "acquire"}
      BY <3>1, Goes
    <3>. QED  BY <1>4, <3>2
  <2>. QED
    BY <1>4, <2>1, <2>2, <2>3, <2>4, <2>5, <2>6, StepPhases DEF SetsUp
<1>. QED  BY <1>3, <1>4

(* What RuntimeKnown says of one installer and the others.                 *)
LEMMA StepRuntime ==
  ASSUME Typed, RuntimeKnown, NEW p \in Proc, Step(p)
  PROVE  RuntimeKnown'
<1>. SUFFICES ASSUME "runtime" \notin faults'
              PROVE  /\ \A q, r \in Proc : Installs(q)' /\ Installs(r)' => q = r
                     /\ \A q \in Proc :
                          At(q, "unpack")' => unpacked' = Parts \ proc'[q].left
                     /\ (\A q \in Proc : ~ Installs(q)') =>
                          /\ unpacked' \in {{}, Parts}
                          /\ \A q \in Proc :
                               Live(q)' /\ ~ At(q, "runtime")' =>
                                 ~ HasHome' \/ unpacked' = Parts
  BY DEF RuntimeKnown
<1>. proc[p] \in Process /\ proc \in [Proc -> Process]
  BY DEF Typed, TypeOK
<1>1. HasHome' <=> HasHome
  BY StepOutside DEF HasHome
<1>2. \A q \in Proc \ {p} :
        /\ proc'[q] = proc[q]
        /\ Live(q)' <=> Live(q)
        /\ Installs(q)' <=> Installs(q)
        /\ Installs(q) => Live(q)
        /\ At(q, "unpack")' <=> At(q, "unpack")
        /\ At(q, "runtime")' <=> At(q, "runtime")
  BY StepOthers DEF Live, Installs, At
<1>3. ASSUME "runtime" \notin faults
      PROVE  /\ \A q, r \in Proc : Installs(q) /\ Installs(r) => q = r
             /\ \A q \in Proc : At(q, "unpack") => unpacked = Parts \ proc[q].left
             /\ (\A q \in Proc : ~ Installs(q)) =>
                  /\ unpacked \in {{}, Parts}
                  /\ \A q \in Proc :
                       Live(q) /\ ~ At(q, "runtime") => ~ HasHome \/ unpacked = Parts
  BY <1>3 DEF RuntimeKnown
<1>4. ASSUME Alone(p)
      PROVE  \A q \in Proc \ {p} : ~ Live(q) /\ ~ Installs(q) /\ ~ At(q, "unpack")
  BY <1>4 DEF Alone, Live, Installs, At
<1>5. ~ CleanRuntime(p) => "runtime" \notin faults
  BY StepFaults
<1>6. ASSUME "runtime" \notin faults, unpacked' = unpacked,
             ~ Installs(p), ~ Installs(p)',
             Live(p)' /\ ~ At(p, "runtime")' => Live(p) /\ ~ At(p, "runtime")
      PROVE  /\ \A q, r \in Proc : Installs(q)' /\ Installs(r)' => q = r
             /\ \A q \in Proc :
                  At(q, "unpack")' => unpacked' = Parts \ proc'[q].left
             /\ (\A q \in Proc : ~ Installs(q)') =>
                  /\ unpacked' \in {{}, Parts}
                  /\ \A q \in Proc :
                       Live(q)' /\ ~ At(q, "runtime")' =>
                         ~ HasHome' \/ unpacked' = Parts
  <2>1. ~ At(p, "unpack")'
    BY <1>6 DEF Installs
  <2>. QED  BY <1>1, <1>2, <1>3, <1>6, <2>1
<1>7. CASE Start(p) \/ Kill(p)
  <2>1. unpacked' = unpacked /\ ~ Installs(p)
    BY <1>7 DEF Start, Kill, Installs, At
  <2>2. proc'[p].pc \in {"runtime", "ended"}
    BY <1>7, OutsideFrame, Goes DEF Kill, Start, At, Live, Outside
  <2>. QED  BY <1>5, <1>6, <1>7, <2>1, <2>2 DEF Installs, Live, At, Start, Kill, CleanRuntime
<1>8. CASE Interrupt(p)
  <2>1. /\ unpacked' = unpacked /\ faults' = faults
        /\ proc'[p].pc = proc[p].pc /\ proc'[p].left = proc[p].left
    BY <1>8 DEF Interrupt, Process
  <2>2. /\ Live(p)' <=> Live(p)
        /\ Installs(p)' <=> Installs(p)
        /\ At(p, "unpack")' <=> At(p, "unpack")
        /\ At(p, "runtime")' <=> At(p, "runtime")
    BY <2>1 DEF Live, Installs, At
  <2>. QED  BY <1>1, <1>2, <1>3, <2>1, <2>2
<1>9. CASE Acquires(p) \/ Runs(p)
  <2>1. unpacked' = unpacked /\ Live(p) /\ proc[p].pc \notin Installer /\ Turn(p)
    BY <1>9, OnwardFrame
  <2>2. ~ Installs(p) /\ ~ Installs(p)' /\ ~ At(p, "runtime")
    BY <2>1 DEF Installs, At, Installer, Turn
  <2>3. ~ CleanRuntime(p)
    BY <2>2 DEF CleanRuntime, Installs
  <2>. QED  BY <1>5, <1>6, <2>1, <2>2, <2>3
<1>10. CASE EnsureRuntimeHome(p)
  <2>1. At(p, "runtime") /\ ~ Installs(p) /\ unpacked' = unpacked
    BY <1>10 DEF EnsureRuntimeHome, Installs, At
  <2>2. "runtime" \notin faults
    BY <1>5, <2>1 DEF CleanRuntime, Installs
  <2>3. CASE ~ HasHome /\ Proceed(p, "acquire", {})
    <3>1. ~ Installs(p)' /\ ~ At(p, "unpack")'
      BY <2>3, Goes DEF Installs, At
    <3>. QED  BY <1>1, <1>2, <1>3, <2>1, <2>2, <2>3, <3>1
  <2>4. CASE SeemsInstalled /\ Proceed(p, "acquire", Unsound)
    <3>1. ~ Installs(p)' /\ ~ At(p, "unpack")'
      BY <2>4, Goes DEF Installs, At
    <3>2. (\A q \in Proc : ~ Installs(q)) => unpacked = Parts
      BY <1>3, <2>2, <2>4 DEF SeemsInstalled
    <3>. QED  BY <1>1, <1>2, <1>3, <2>1, <2>2, <3>1, <3>2
  <2>5. CASE /\ Proceed(p, "clean", {})
             /\ faults' = IF Alone(p) THEN faults ELSE faults \cup {"runtime"}
    <3>1. Installs(p)' /\ ~ At(p, "unpack")'
      BY <2>5, Goes DEF Installs, At
    <3>2. Alone(p)
      BY <2>5
    <3>. QED  BY <1>2, <1>4, <3>1, <3>2
  <2>. QED  BY <1>10, <2>3, <2>4, <2>5 DEF EnsureRuntimeHome, HasHome
<1>11. CASE CleanRuntime(p)
  <2>1. At(p, "clean") /\ Installs(p) /\ ~ At(p, "unpack")
    BY <1>11 DEF CleanRuntime, Installs, At
  <2>2. CASE proc' = proc /\ faults' = faults
    <3>1. \A q \in Proc \ {p} : ~ Installs(q) /\ ~ At(q, "unpack")
      BY <1>3, <2>1, <2>2 DEF Installs
    <3>2. Installs(p)' /\ ~ At(p, "unpack")'
      BY <2>1, <2>2 DEF Installs, At
    <3>. QED  BY <1>2, <3>1, <3>2
  <2>3. CASE /\ unpacked = {} /\ unpacked' = unpacked
             /\ proc' = [proc EXCEPT ![p].pc = "unpack", ![p].left = Parts,
                                     ![p].took = {}]
             /\ faults' = IF Alone(p) THEN faults \ {"runtime"} ELSE faults
    <3>1. \A q \in Proc \ {p} : ~ Installs(q) /\ ~ At(q, "unpack")
      <4>1. CASE Alone(p)
        BY <1>4, <4>1
      <4>2. CASE ~ Alone(p)
        BY <1>3, <2>1, <2>3, <4>2 DEF Installs
      <4>. QED  BY <4>1, <4>2
    <3>2. proc'[p].pc = "unpack" /\ proc'[p].left = Parts
      BY <2>3 DEF Process
    <3>3. Installs(p)' /\ unpacked' = Parts \ proc'[p].left
      BY <2>3, <3>2 DEF Installs, At
    <3>. QED  BY <1>2, <3>1, <3>3
  <2>. QED  BY <1>11, <2>2, <2>3 DEF CleanRuntime
<1>12. ASSUME NEW part \in Parts, Unpack(p, part)
       PROVE  RuntimeKnown'
  <2>1. /\ At(p, "unpack") /\ Installs(p) /\ "runtime" \notin faults
        /\ unpacked' = unpacked \cup {part} /\ part \in proc[p].left
        /\ proc'[p].left = proc[p].left \ {part} /\ proc'[p].pc = proc[p].pc
    BY <1>12 DEF Unpack, At, Installs, Process
  <2>2. \A q \in Proc \ {p} : ~ Installs(q) /\ ~ At(q, "unpack")
    BY <1>3, <2>1 DEF Installs
  <2>3. Installs(p)' /\ unpacked' = Parts \ proc'[p].left
    BY <1>3, <2>1 DEF Installs, At
  <2>. QED  BY <1>2, <2>2, <2>3 DEF RuntimeKnown
<1>13. ASSUME NEW rest, BreakOff(p, rest)
       PROVE  RuntimeKnown'
  <2>1. rest = {} /\ Alone(p) /\ unpacked' = {}
    BY <1>13 DEF BreakOff
  <2>2. ~ Installs(p)' /\ ~ Live(p)' /\ ~ At(p, "unpack")'
    BY <1>13, Goes DEF BreakOff, Installs, Live, At
  <2>. QED  BY <1>2, <1>4, <2>1, <2>2 DEF RuntimeKnown
<1>14. CASE FinishInstall(p) /\ Proceed(p, "acquire", Unsound) /\ faults' = faults
             /\ unpacked' = unpacked
  <2>1. At(p, "unpack") /\ Installs(p) /\ "runtime" \notin faults /\ proc[p].left = {}
    BY <1>14 DEF FinishInstall, At, Installs
  <2>2. \A q \in Proc \ {p} : ~ Installs(q) /\ ~ At(q, "unpack")
    BY <1>3, <2>1 DEF Installs
  <2>3. unpacked = Parts
    BY <1>3, <2>1
  <2>4. ~ Installs(p)' /\ ~ At(p, "unpack")'
    BY <1>14, Goes DEF Installs, At
  <2>. QED  BY <1>2, <1>14, <2>2, <2>3, <2>4
<1>15. CASE SetsUp(p)
  BY <1>10, <1>11, <1>12, <1>13, <1>14, <1>15
     DEF SetsUp, CleanFails, UnpackFails, FinishInstall, RuntimeKnown
<1>. QED  BY <1>7, <1>8, <1>9, <1>15, StepPhases DEF Outside

(* The runtime that p goes on with, once it has been looked for or         *)
(* installed, is whole, or another process installs it.                    *)
LEMMA RuntimeWhole ==
  ASSUME Typed, RuntimeKnown, NEW p \in Proc, Live(p),
         "runtime" \notin faults, \A q \in Proc \ {p} : ~ Installs(q),
         \/ At(p, "runtime") /\ SeemsInstalled
         \/ At(p, "unpack") /\ proc[p].left = {}
         \/ proc[p].pc \notin Installer /\ HasHome
  PROVE  Unsound = {}
<1>1. CASE At(p, "runtime") /\ SeemsInstalled
  <2>1. ~ Installs(p)
    BY <1>1 DEF Installs, At
  <2>2. unpacked \in {{}, Parts}
    BY <2>1 DEF RuntimeKnown
  <2>. QED  BY <1>1, <2>2 DEF SeemsInstalled, Unsound
<1>2. CASE At(p, "unpack") /\ proc[p].left = {}
  BY <1>2 DEF RuntimeKnown, Unsound
<1>3. CASE proc[p].pc \notin Installer /\ HasHome
  <2>1. ~ Installs(p) /\ ~ At(p, "runtime")
    BY <1>3 DEF Installs, At, Installer
  <2>. QED  BY <1>3, <2>1 DEF RuntimeKnown, Unsound
<1>. QED  BY <1>1, <1>2, <1>3

(* What a step takes for whole that is not is in hand or one of faults.    *)
LEMMA StepSpoiled ==
  ASSUME Typed, Written, PartsKnown, RuntimeKnown, NEW p \in Proc, Step(p),
         proc'[p].pc # proc[p].pc, NEW f \in proc'[p].took
  PROVE  \/ f \in faults
         \/ \E q \in Proc \ {p} :
              IF f = "runtime" THEN Installs(q) ELSE Writes(q, f)
<1>. proc[p] \in Process /\ proc \in [Proc -> Process]
  BY DEF Typed, TypeOK
<1>1. CASE ~ At(p, "copy") /\ proc'[p].took \subseteq Torn(File)
  <2>1. f \in File /\ f # "runtime" /\ disk[f].state \in {"partial", "contested"}
    BY <1>1 DEF Torn, File
  <2>2. f \in faults \/ Writes(disk[f].author, f)
    BY <2>1 DEF PartsKnown
  <2>3. disk[f].author \in Proc
    BY <2>1 DEF Written, Present
  <2>. QED  BY <1>1, <2>1, <2>2, <2>3 DEF Writes
<1>2. CASE /\ Live(p) /\ proc'[p].took = Unsound
           /\ \/ At(p, "runtime") /\ SeemsInstalled
              \/ At(p, "unpack") /\ proc[p].left = {}
              \/ proc[p].pc \notin Installer /\ HasHome
  <2>1. f = "runtime" /\ Unsound # {}
    BY <1>2 DEF Unsound
  <2>. QED  BY <1>2, <2>1, RuntimeWhole
<1>3. CASE Outside(p)
  BY <1>3, OutsideFrame
<1>4. CASE Acquires(p) \/ Runs(p)
  <2>1. /\ Live(p) /\ proc[p].pc \notin Installer
        /\ \/ proc'[p].took = {}
           \/ ~ At(p, "copy") /\ proc'[p].took \subseteq Torn(File)
           \/ HasHome /\ proc'[p].took = Unsound
    BY <1>4, OnwardFrame DEF Turn
  <2>. QED  BY <1>1, <1>2, <2>1
<1>5. CASE SetsUp(p)
  <2>1. Live(p)
    BY <1>5, InstallFrame
  <2>2. CASE EnsureRuntimeHome(p)
    <3>1. \/ Proceed(p, "acquire", {}) \/ Proceed(p, "clean", {})
          \/ At(p, "runtime") /\ SeemsInstalled /\ Proceed(p, "acquire", Unsound)
      BY <2>2 DEF EnsureRuntimeHome
    <3>. QED  BY <1>2, <2>1, <3>1, Goes
  <2>3. CASE CleanRuntime(p)
    BY <2>3 DEF CleanRuntime, Process
  <2>4. CASE \E part \in Parts : Unpack(p, part)
    BY <2>4 DEF Unpack, Process
  <2>5. CASE \E rest : BreakOff(p, rest)
    BY <2>5, Goes DEF BreakOff
  <2>6. CASE FinishInstall(p) /\ Proceed(p, "acquire", Unsound)
    BY <1>2, <2>1, <2>6, Goes DEF FinishInstall
  <2>. QED
    BY <1>5, <2>2, <2>3, <2>4, <2>5, <2>6
       DEF SetsUp, CleanFails, UnpackFails, FinishInstall
<1>. QED  BY <1>3, <1>4, <1>5, StepPhases

(* A lcp.toml appears only for a composition that has one, and it stays.   *)
LEMMA StepManifests ==
  ASSUME Typed, Written, Manifests, NEW p \in Proc, Step(p)
  PROVE  Manifests'
<1>1. world' = world /\ "lcp" \in File
  BY StepOutside DEF File
<1>2. \A q \in Proc \ {p} : proc'[q] = proc[q]
  BY StepOthers
<1>3. /\ proc'[p].file = "lcp" => proc[p].file = "lcp" \/ world.manifest
      /\ proc'[p].handle = "cached" =>
           \/ proc[p].handle = "cached"
           \/ world.manifest => Present("lcp")
           \/ At(p, "copy") /\ proc[p].file = "lcp"
  <2>1. CASE Outside(p)
    BY <2>1, OutsideFrame
  <2>2. CASE SetsUp(p)
    BY <2>2, InstallFrame DEF Kept
  <2>3. CASE Acquires(p) \/ Runs(p)
    BY <2>3, OnwardFrame DEF Turn
  <2>. QED  BY <2>1, <2>2, <2>3, StepPhases
<1>4. CASE world.manifest
  <2>1. \A q \in Proc : proc[q].handle = "cached" => Present("lcp")
    BY <1>4 DEF Manifests
  <2>2. Present("lcp") => Present("lcp")'
    BY <1>1, StepKeeps
  <2>3. At(p, "copy") /\ proc[p].file = "lcp" => Present("lcp")
    BY DEF Written
  <2>4. \A q \in Proc : proc'[q].handle = "cached" => Present("lcp")'
    BY <1>2, <1>3, <1>4, <2>1, <2>2, <2>3
  <2>. QED  BY <1>1, <1>4, <2>4 DEF Manifests
<1>5. CASE ~ world.manifest
  <2>1. ~ Present("lcp") /\ \A q \in Proc : proc[q].file # "lcp"
    BY <1>5 DEF Manifests
  <2>2. disk'["lcp"] = disk["lcp"]
    BY <1>1, <2>1, StepDisk
  <2>3. ~ Present("lcp")'
    BY <2>1, <2>2 DEF Present
  <2>4. \A q \in Proc : proc'[q].file # "lcp"
    BY <1>2, <1>3, <1>5, <2>1
  <2>. QED  BY <1>1, <1>5, <2>3, <2>4 DEF Manifests
<1>. QED  BY <1>4, <1>5

LEMMA StepLocked ==
  ASSUME Typed, Written, Manifests, Locked, NEW p \in Proc, Step(p)
  PROVE  Locked'
<1>. SUFFICES ASSUME NEW q \in Proc, proc'[q].pc \in {"load", "run"},
                     HasManifest(q)'
              PROVE  Present("lock")'
  BY DEF Locked
<1>1. Present("lock") => Present("lock")'
  BY StepKeeps DEF File
<1>2. Present("lcp")' /\ proc[q].handle = "cached" => Present("lcp")
  <2>1. CASE world.manifest
    BY <2>1 DEF Manifests
  <2>2. CASE ~ world.manifest
    BY <2>2, StepManifests, StepOutside DEF Manifests
  <2>. QED  BY <2>1, <2>2
<1>3. proc'[q].handle = proc[q].handle => HasManifest(q)
  BY <1>2, StepOutside DEF HasManifest
<1>4. CASE q # p
  BY <1>1, <1>3, <1>4, StepOthers DEF Locked
<1>5. CASE q = p
  <2>1. CASE Outside(p)
    BY <1>1, <1>3, <1>5, <2>1, OutsideFrame DEF Locked
  <2>2. CASE SetsUp(p)
    BY <1>5, <2>2, InstallFrame
  <2>3. CASE Acquires(p) \/ Runs(p)
    BY <1>1, <1>3, <1>5, <2>3, OnwardFrame DEF Turn, Locked
  <2>. QED  BY <1>5, <2>1, <2>2, <2>3, StepPhases
<1>. QED  BY <1>4, <1>5

-----------------------------------------------------------------------------
(* The invariant.                                                          *)

LEMMA InitInv == Init => IInv
<1>. SUFFICES ASSUME Init  PROVE IInv
  OBVIOUS
<1>1. Typed
  BY InitType
<1>2. /\ \A p \in Proc : proc[p] = NotStarted
      /\ \A f \in File : ~ Present(f)
      /\ faults = {}
  BY DEF Init, Present, Absent
<1>3. \A p \in Proc :
        /\ ~ Live(p) /\ proc[p].pc = "idle"
        /\ proc[p].took = {} /\ proc[p].handle = "none" /\ proc[p].file = "none"
        /\ ~ proc[p].early /\ ~ proc[p].ran
  <2>1. /\ NotStarted.pc = "idle" /\ NotStarted.took = {}
        /\ NotStarted.handle = "none" /\ NotStarted.file = "none"
        /\ NotStarted.early = FALSE /\ NotStarted.ran = FALSE
    BY DEF NotStarted
  <2>. QED  BY <1>2, <2>1 DEF Live, At
<1>4. PartsKnown
  BY <1>2 DEF PartsKnown, Present, Init, Absent
<1>5. OneAtATime /\ Written
  BY <1>2, <1>3 DEF OneAtATime, Written, At
<1>6. Cleaning /\ RuntimeKnown
  BY <1>2, <1>3 DEF Cleaning, RuntimeKnown, Installs, At, Init
<1>8. Manifests
  <2>1. world.manifest \in BOOLEAN
    BY <1>1, WorldAssumption DEF Typed, TypeOK
  <2>2. "lcp" \in File
    BY DEF File
  <2>. QED  BY <1>2, <1>3, <2>1, <2>2 DEF Manifests
<1>9. Locked /\ Cancelled
  BY <1>3 DEF Locked, Cancelled
<1>. QED  BY <1>1, <1>4, <1>5, <1>6, <1>8, <1>9 DEF IInv

LEMMA StepInv == IInv /\ [Next]_vars => IInv'
<1>. SUFFICES ASSUME IInv, [Next]_vars  PROVE IInv'
  OBVIOUS
<1>1. CASE UNCHANGED vars
  BY <1>1
     DEF IInv, vars, Typed, TypeOK, OneAtATime, Written, PartsKnown,
         Cleaning, RuntimeKnown, Installs, Writes, Manifests, Locked,
         Cancelled, At, Live, Present, HasHome, HasManifest
<1>2. ASSUME NEW p \in Proc, Step(p)  PROVE IInv'
  BY <1>2, StepType, StepOneAtATime, StepWritten, StepParts, StepCleaning,
     StepRuntime, StepManifests, StepLocked, StepCancelled
     DEF IInv
<1>. QED  BY <1>1, <1>2 DEF Next, AllEnded

LEMMA Invariance == Spec => []IInv
BY InitInv, StepInv, PTL DEF Spec

(* The types hold, for any number of processes in any world.               *)
THEOREM TypeCorrect == Spec => []TypeOK
<1>1. IInv => TypeOK
  BY DEF IInv, Typed
<1>. QED  BY <1>1, Invariance, PTL

(* What a process takes for whole is whole, or another process is writing  *)
(* it, or it was spoilt since one process alone began it: acquire_compose  *)
(* and ensure_runtime_home of lcod_run.rs look only whether a file is      *)
(* there.                                                                  *)
THEOREM TakenWhole == Spec => SpoiledByFaultsOnly
<1>. DEFINE A == \A p \in Proc : proc'[p].pc # proc[p].pc =>
                   \A f \in proc'[p].took :
                     \/ f \in faults
                     \/ \E q \in Proc \ {p} :
                          IF f = "runtime" THEN Installs(q) ELSE Writes(q, f)
<1>1. IInv /\ [Next]_vars => [A]_vars
  <2>. SUFFICES ASSUME IInv, NEW p \in Proc, Step(p)  PROVE A
    BY DEF Next, AllEnded, vars
  <2>1. \A q \in Proc \ {p} : proc'[q] = proc[q]
    BY StepOthers DEF IInv
  <2>2. ASSUME proc'[p].pc # proc[p].pc, NEW f \in proc'[p].took
        PROVE  \/ f \in faults
               \/ \E q \in Proc \ {p} :
                    IF f = "runtime" THEN Installs(q) ELSE Writes(q, f)
    BY <2>2, StepSpoiled DEF IInv
  <2>. QED  BY <2>1, <2>2
<1>. QED  BY <1>1, Invariance, PTL DEF Spec, SpoiledByFaultsOnly

(* A part of a file that stays was left by a copy that broke off or was    *)
(* killed, or by two at a time: each process ends what it copies alone.    *)
THEOREM PartsFinished == Spec => []PartsAreUnfinished
<1>1. IInv => PartsAreUnfinished
  BY DEF IInv, PartsKnown, PartsAreUnfinished, Torn
<1>. QED  BY <1>1, Invariance, PTL

(* No composition that has a manifest runs without its lock file, though   *)
(* its manifest may be fetched while it is on its way.                     *)
THEOREM LockedBeforeRun == Spec => []LockBeforeRun
<1>1. IInv => LockBeforeRun
  BY DEF IInv, Locked, LockBeforeRun, At
<1>. QED  BY <1>1, Invariance, PTL

(* A process cancelled before its composition runs none of its steps.      *)
THEOREM CancelledEarly == Spec => []EarlyCancelRunsNothing
<1>1. IInv => EarlyCancelRunsNothing
  BY DEF IInv, Cancelled, EarlyCancelRunsNothing
<1>. QED  BY <1>1, Invariance, PTL

(* An installed runtime with its manifest on top is never removed while no *)
(* two processes overlap, whichever of them are killed.                    *)
THEOREM InstalledStays == Spec => InstalledForGood
<1>. DEFINE A == /\ world.bundle = "flat" /\ "overlap" \notin faults
                 /\ unpacked = Parts
                 /\ \A p \in Proc : ~ At(p, "unpack")
                 => unpacked' = Parts
<1>1. IInv /\ [Next]_vars => [A]_vars
  <2>. SUFFICES ASSUME IInv, NEW p \in Proc, Step(p), world.bundle = "flat",
                       "overlap" \notin faults, unpacked = Parts,
                       ~ At(p, "unpack")
                PROVE  unpacked' = Parts
    BY DEF Next, AllEnded, vars
  <2>1. ~ At(p, "clean")
    BY DEF IInv, Cleaning, Parts
  <2>2. CASE SetsUp(p)
    BY <2>1, <2>2
       DEF SetsUp, EnsureRuntimeHome, CleanRuntime, CleanFails, Unpack,
           UnpackFails, FinishInstall
  <2>3. CASE Outside(p) \/ Acquires(p) \/ Runs(p)
    BY <2>3, OutsideFrame, OnwardFrame DEF IInv
  <2>. QED  BY <2>2, <2>3, StepPhases
<1>. QED  BY <1>1, Invariance, PTL DEF Spec, InstalledForGood

=============================================================================
