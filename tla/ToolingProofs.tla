---------------------------- MODULE ToolingProofs ----------------------------
(***************************************************************************)
(* Theorems about Logging and Script among the parts of MCTooling, and the *)
(* types of all of them, for any bounds.                                   *)
(***************************************************************************)
EXTENDS ResolverProofs

-----------------------------------------------------------------------------
(* Logging.                                                                *)

LInv == L!TypeOK /\ L!SpecLogBounded /\ L!LoggerNotReentered

LEMMA LogInit == L!Init => LInv
<1>. SUFFICES ASSUME L!Init PROVE LInv
  OBVIOUS
<1>. USE DEF L!Init
<1>1. L!TypeOK
  <2>1. <<>> \in Seq({"start", "call", "end"}) /\ <<>> \in Seq({"entry", "notice"})
    BY EmptySeq
  <2>. QED  BY <2>1 DEF L!TypeOK
<1>2. Len(spec) = 0 /\ DOMAIN spec = {} /\ Len(running) = 0 /\ SpecLogLimit \in Nat
  BY LogAssumption
<1>3. L!SpecLogBounded
  BY <1>2 DEF L!SpecLogBounded
<1>. QED  BY <1>1, <1>2, <1>3 DEF LInv, L!LoggerNotReentered

(* What emit_log may change, where rest is what goes on.                   *)
LEMMA Emitted ==
  ASSUME NEW kernel \in BOOLEAN, NEW rank \in L!Ranks,
         NEW rest \in Seq({"start", "call", "end"}), L!Emit(kernel, rank, rest)
  PROVE  /\ UNCHANGED <<threshold, logger, cancelled>>
         /\ UNCHANGED <<spec, truncated>> \/ L!PushSpecLog
         /\ \/ running' = rest
            \/ /\ running' = Append(rest, "start") /\ logger = "component"
               /\ ~ L!Dropped(kernel, rank)
BY DEF L!Emit

LEMMA Advancing ==
  ASSUME L!TypeOK, running # <<>>, NEW s \in {"start", "call", "end"}
  PROVE  /\ L!Advanced(s) \in Seq({"start", "call", "end"})
         /\ Len(L!Advanced(s)) = Len(running)
         /\ SubSeq(running, 1, Len(running) - 1) \in Seq({"start", "call", "end"})
         /\ Len(SubSeq(running, 1, Len(running) - 1)) = Len(running) - 1
         /\ Len(running) \in Nat /\ Len(running) > 0
<1>. DEFINE E == {"start", "call", "end"}
            f == SubSeq(running, 1, Len(running) - 1)
<1>1. running \in Seq(E)
  BY DEF L!TypeOK
<1>. HIDE DEF E
<1>2. f \in Seq(E) /\ Len(f) = Len(running) - 1 /\ Len(running) > 0 /\ Len(running) \in Nat
  BY <1>1, FrontOf, Lengths
<1>3. L!Advanced(s) = Append(f, s)
  BY DEF L!Advanced, L!Front
<1>. HIDE DEF f
<1>4. Append(f, s) \in Seq(E) /\ Len(Append(f, s)) = Len(f) + 1
  BY <1>2, Appended DEF E
<1>. QED  BY <1>2, <1>3, <1>4 DEF E, f

LEMMA SpecLogStep ==
  ASSUME L!TypeOK, L!SpecLogBounded, L!PushSpecLog
  PROVE  L!SpecLogBounded' /\ spec' \in Seq({"entry", "notice"}) /\ truncated' \in BOOLEAN
<1>. DEFINE E == {"entry", "notice"}
            N == Len(spec)
<1>1. /\ spec \in Seq(E) /\ N \in Nat /\ DOMAIN spec = 1..N /\ SpecLogLimit \in Nat
      /\ truncated \in BOOLEAN
  BY Lengths, LogAssumption DEF L!TypeOK
<1>2. /\ N <= SpecLogLimit + 1
      /\ \A i \in 1..N : spec[i] = "notice" <=> i = SpecLogLimit + 1
      /\ truncated <=> N = SpecLogLimit + 1
  BY <1>1 DEF L!SpecLogBounded
<1>3. ASSUME NEW x \in E
      PROVE  /\ Append(spec, x) \in Seq(E) /\ Len(Append(spec, x)) = N + 1
             /\ DOMAIN Append(spec, x) = 1..(N + 1)
             /\ \A i \in 1..N : Append(spec, x)[i] = spec[i]
             /\ Append(spec, x)[N + 1] = x
  BY <1>1, Appended
<1>4. "entry" \in E /\ "notice" \in E /\ "entry" # "notice"
  OBVIOUS
<1>. HIDE DEF N, E
<1>5. CASE N < SpecLogLimit
  <2>1. spec' = Append(spec, "entry") /\ truncated' = truncated
    BY <1>5 DEF L!PushSpecLog, N
  <2>2. /\ spec' \in Seq(E) /\ Len(spec') = N + 1 /\ DOMAIN spec' = 1..(N + 1)
        /\ \A i \in 1..N : spec'[i] = spec[i]
        /\ spec'[N + 1] = "entry"
    BY <1>3, <1>4, <2>1
  <2>3. ~ truncated' /\ N + 1 < SpecLogLimit + 1
    BY <1>1, <1>2, <1>5, <2>1
  <2>4. \A i \in 1..(N + 1) : spec'[i] = "notice" <=> i = SpecLogLimit + 1
    BY <1>1, <1>2, <1>4, <2>2, <2>3
  <2>. QED  BY <1>1, <2>1, <2>2, <2>3, <2>4 DEF L!SpecLogBounded, E
<1>6. CASE ~ (N < SpecLogLimit) /\ truncated
  <2>1. spec' = spec /\ truncated' = TRUE
    BY <1>6 DEF L!PushSpecLog, N
  <2>2. N = SpecLogLimit + 1 /\ truncated'
    BY <1>2, <1>6, <2>1
  <2>3. Len(spec') = N /\ DOMAIN spec' = 1..N
    BY <1>1, <2>1 DEF N
  <2>4. \A i \in 1..N : spec'[i] = "notice" <=> i = SpecLogLimit + 1
    BY <1>2, <2>1
  <2>5. L!SpecLogBounded'
    BY <1>2, <2>1, <2>2, <2>3, <2>4 DEF L!SpecLogBounded
  <2>6. spec' \in Seq(E)
    BY <1>1, <2>1
  <2>. QED  BY <2>1, <2>5, <2>6 DEF E
<1>7. CASE ~ (N < SpecLogLimit) /\ ~ truncated
  <2>0. N = SpecLogLimit
    <3>1. N # SpecLogLimit + 1
      BY <1>2, <1>7
    <3>. QED  BY <1>1, <1>2, <1>7, <3>1
  <2>1. spec' = Append(spec, "notice") /\ truncated' = TRUE
    BY <1>7 DEF L!PushSpecLog, N
  <2>2. /\ spec' \in Seq(E) /\ Len(spec') = N + 1 /\ DOMAIN spec' = 1..(N + 1)
        /\ \A i \in 1..N : spec'[i] = spec[i]
        /\ spec'[N + 1] = "notice"
    BY <1>3, <1>4, <2>1
  <2>3. \A i \in 1..(N + 1) : spec'[i] = "notice" <=> i = SpecLogLimit + 1
    BY <1>1, <1>2, <2>0, <2>2
  <2>. QED  BY <1>1, <2>0, <2>1, <2>2, <2>3 DEF L!SpecLogBounded, E
<1>. QED  BY <1>5, <1>6, <1>7

LEMMA SpecLogKept ==
  ASSUME L!TypeOK, L!SpecLogBounded, UNCHANGED <<spec, truncated>> \/ L!PushSpecLog
  PROVE  L!SpecLogBounded' /\ spec' \in Seq({"entry", "notice"}) /\ truncated' \in BOOLEAN
<1>1. CASE UNCHANGED <<spec, truncated>>
  BY <1>1 DEF L!TypeOK, L!SpecLogBounded
<1>2. CASE L!PushSpecLog
  BY <1>2, SpecLogStep
<1>. QED  BY <1>1, <1>2

(* What an entry in rest leads to, where the kernel says what is logged in *)
(* a logger.                                                               *)
LEMMA EmitStep ==
  ASSUME LInv, NEW kernel \in BOOLEAN, NEW rank \in L!Ranks,
         NEW rest \in Seq({"start", "call", "end"}), L!Emit(kernel, rank, rest),
         rest # <<>> => logger = "component",
         threshold > L!Error => Len(rest) <= 1,
         rest = <<>> \/ (kernel /\ rank <= L!Error)
  PROVE  LInv'
<1>. DEFINE E == {"start", "call", "end"}
<1>0. L!TypeOK /\ L!SpecLogBounded /\ threshold \in Nat
  BY DEF LInv, L!TypeOK, L!Ranks
<1>1. /\ UNCHANGED <<threshold, logger, cancelled>>
      /\ UNCHANGED <<spec, truncated>> \/ L!PushSpecLog
      /\ \/ running' = rest
         \/ /\ running' = Append(rest, "start") /\ logger = "component"
            /\ ~ L!Dropped(kernel, rank)
  BY Emitted
<1>2. L!SpecLogBounded' /\ spec' \in Seq({"entry", "notice"}) /\ truncated' \in BOOLEAN
  BY <1>0, <1>1, SpecLogKept
<1>3. Append(rest, "start") \in Seq(E) /\ Len(Append(rest, "start")) = Len(rest) + 1
  <2>1. "start" \in E /\ rest \in Seq(E)
    OBVIOUS
  <2>. HIDE DEF E
  <2>. QED  BY <2>1, Appended
<1>4. running' \in Seq(E) /\ (running' # <<>> => logger = "component")
  BY <1>1, <1>3
<1>5. threshold > L!Error => Len(running') <= 1
  <2>. SUFFICES ASSUME threshold > L!Error PROVE Len(running') <= 1
    OBVIOUS
  <2>1. CASE running' = rest
    BY <2>1
  <2>2. CASE running' = Append(rest, "start") /\ ~ L!Dropped(kernel, rank)
    <3>1. rest = <<>>
      <4>. SUFFICES ASSUME kernel, rank <= L!Error PROVE FALSE
        OBVIOUS
      <4>1. rank \in Nat /\ rank < threshold
        BY <1>0 DEF L!Ranks, L!Error
      <4>. QED  BY <2>2, <4>1 DEF L!Dropped
    <3>2. Len(rest) = 0
      BY <3>1
    <3>. QED  BY <1>3, <2>2, <3>2
  <2>. QED  BY <1>1, <2>1, <2>2
<1>6. L!TypeOK'
  BY <1>0, <1>1, <1>2, <1>4 DEF L!TypeOK
<1>. QED  BY <1>1, <1>2, <1>5, <1>6 DEF LInv, L!LoggerNotReentered

LEMMA LogStep == LInv /\ L!Next => LInv'
<1>. SUFFICES ASSUME LInv, L!Next PROVE LInv'
  OBVIOUS
<1>. DEFINE E == {"start", "call", "end"}
<1>0. L!TypeOK /\ L!SpecLogBounded /\ (threshold > L!Error => Len(running) <= 1)
      /\ (running # <<>> => logger = "component")
  BY DEF LInv, L!LoggerNotReentered, L!TypeOK
<1>1. CASE L!Log
  <2>1. PICK kernel \in BOOLEAN, rank \in L!Ranks : L!Emit(kernel, rank, <<>>)
    BY <1>1 DEF L!Log
  <2>. DEFINE rest == <<>>
  <2>2. rest \in Seq(E) /\ Len(rest) <= 1 /\ rest = <<>> /\ L!Emit(kernel, rank, rest)
    BY <2>1, EmptySeq
  <2>. HIDE DEF rest
  <2>. QED  BY <2>2, EmitStep
<1>2. CASE L!LoggerStep
  <2>1. running # <<>> /\ L!Emit(TRUE, L!Info, L!Advanced("call"))
    BY <1>2 DEF L!LoggerStep
  <2>2. L!Advanced("call") \in Seq(E) /\ Len(L!Advanced("call")) = Len(running)
    BY <1>0, <2>1, Advancing
  <2>3. L!Info \in L!Ranks /\ L!Info <= L!Error
    BY DEF L!Info, L!Ranks, L!Error
  <2>. QED  BY <1>0, <2>1, <2>2, <2>3, EmitStep
<1>3. CASE L!LoggerStepEnds
  <2>1. running # <<>>
        /\ \/ L!Emit(TRUE, L!Info, L!Advanced("end"))
           \/ L!Emit(TRUE, L!Error, L!Advanced("end"))
    BY <1>3 DEF L!LoggerStepEnds
  <2>2. L!Advanced("end") \in Seq(E) /\ Len(L!Advanced("end")) = Len(running)
    BY <1>0, <2>1, Advancing
  <2>3. L!Info \in L!Ranks /\ L!Error \in L!Ranks /\ L!Info <= L!Error /\ L!Error <= L!Error
    BY DEF L!Info, L!Ranks, L!Error
  <2>. QED  BY <1>0, <2>1, <2>2, <2>3, EmitStep
<1>4. CASE L!LoggerReturns
  <2>1. /\ running # <<>> /\ running' = SubSeq(running, 1, Len(running) - 1)
        /\ UNCHANGED <<threshold, logger, cancelled, spec, truncated>>
    BY <1>4 DEF L!LoggerReturns, L!Front
  <2>2. running' \in Seq(E) /\ Len(running') = Len(running) - 1 /\ Len(running) \in Nat
    BY <1>0, <2>1, Advancing
  <2>3. L!TypeOK'
    BY <1>0, <2>1, <2>2 DEF L!TypeOK
  <2>4. L!SpecLogBounded'
    BY <1>0, <2>1 DEF L!SpecLogBounded
  <2>5. L!LoggerNotReentered'
    <3>1. Len(running) <= 1 => Len(running') <= 1
      BY <2>2
    <3>. QED  BY <1>0, <2>1, <3>1 DEF L!LoggerNotReentered
  <2>. QED  BY <2>3, <2>4, <2>5 DEF LInv
<1>5. CASE L!Cancel
  BY <1>5 DEF L!Cancel, LInv, L!TypeOK, L!SpecLogBounded, L!LoggerNotReentered
<1>. QED  BY <1>1, <1>2, <1>3, <1>4, <1>5 DEF L!Next

LogPart == part = "logging" => LInv

LEMMA LogAlways == PartsSpec => []LogPart
<1>1. PartsInit => LogPart
  BY LogInit DEF PartsInit, LogPart
<1>2. LogPart /\ [PartsNext]_partVars => LogPart'
  <2>. SUFFICES ASSUME LogPart, [PartsNext]_partVars, part' = "logging"
                PROVE  LInv'
    BY DEF LogPart
  <2>1. CASE Logs
    BY <2>1, LogStep DEF Logs, LogPart
  <2>2. CASE Ended \/ UNCHANGED partVars
    <3>1. UNCHANGED partVars
      BY <2>2 DEF Ended
    <3>2. LInv /\ UNCHANGED <<threshold, logger, spec, truncated, cancelled, running>>
      BY <3>1 DEF partVars, logging, shared, LogPart
    <3>. QED  BY <3>2 DEF LInv, L!TypeOK, L!SpecLogBounded, L!LoggerNotReentered
  <2>3. CASE Streams \/ Resolver \/ Queue \/ Scripts
    BY <2>3 DEF Streams, Resolver, Queue, Scripts
  <2>. QED  BY <2>1, <2>2, <2>3 DEF PartsNext
<1>. QED  BY <1>1, <1>2, PTL DEF PartsSpec

(* emit_log (src/tooling/logging.rs): above the threshold `error` a logger *)
(* that is a composition is never called about its own steps.              *)
THEOREM NoReentry == PartsSpec => []LoggerNotReentered
<1>1. LogPart => LoggerNotReentered
  BY DEF LogPart, LInv, LoggerNotReentered
<1>. QED  BY <1>1, LogAlways, PTL

(* Context::push_spec_log (src/registry.rs): whatever the limit, the first *)
(* entries are kept, followed by at most one notice, and `truncated` says  *)
(* whether it is there.                                                    *)
THEOREM SpecLogKeepsFirst == PartsSpec => []SpecLogBounded
<1>1. LogPart => SpecLogBounded
  BY DEF LogPart, LInv, SpecLogBounded
<1>. QED  BY <1>1, LogAlways, PTL

-----------------------------------------------------------------------------
(* Scripts.                                                                *)

Over == pc \in {"answered", "ended"}

(* Every message is in the buffer, the answer and the output.              *)
Buffered ==
  /\ messages = said
  /\ Over => verdict.messages = messages
  /\ pc = "ended" => output = messages \/ S!Wrapped

(* A patch is the copy of a success in time, and one step merges it.       *)
Patching ==
  /\ verdict.patch # NoObject => verdict.success /\ verdict.patch = copy /\ copy # snapshot
  /\ verdict.success => Over /\ ~ overran /\ (copy # snapshot => verdict.patch = copy)
  /\ pc # "ended" \/ verdict.patch = NoObject => state = S!Before
  /\ pc = "ended" /\ verdict.patch # NoObject =>
       \A f \in Field :
         state[f] = IF verdict.patch[f] = "absent" THEN "before" ELSE verdict.patch[f]

SInv == S!TypeOK /\ Buffered /\ Patching

LEMMA ScriptInit == S!Init => SInv
<1>. SUFFICES ASSUME S!Init PROVE SInv
  OBVIOUS
<1>. USE DEF S!Init
<1>1. S!TypeOK
  <2>1. <<>> \in Seq(S!Invocation) /\ 0 \in 0..MaxTime /\ 0 \in 0..MaxMessages
    BY EmptySeq, ScriptAssumption
  <2>2. NoObject \in S!Copy /\ NoObject \in S!Snapshot
    BY DEF S!Copy, S!Snapshot
  <2>3. S!NoAnswer \in S!Answer
    BY <2>1, <2>2 DEF S!NoAnswer, S!Answer
  <2>4. S!Before \in [Field -> {"before", "given", "written"}]
    BY DEF S!Before
  <2>. QED  BY <2>1, <2>2, <2>3, <2>4 DEF S!TypeOK
<1>2. ~ verdict.success /\ verdict.patch = NoObject /\ ~ Over
  BY DEF S!NoAnswer, Over
<1>3. Buffered
  BY <1>2 DEF Buffered
<1>4. Patching
  BY <1>2 DEF Patching, Over
<1>. QED  BY <1>1, <1>3, <1>4 DEF SInv

(* The script is running, and goes on.                                     *)
LEMMA GoesOn ==
  ASSUME SInv, ~ Over, ~ Over', UNCHANGED <<messages, said, verdict, overran, state, output>>
  PROVE  Buffered' /\ Patching'
<1>1. ~ verdict.success /\ verdict.patch = NoObject
  BY DEF SInv, Patching
<1>2. Buffered'
  BY DEF SInv, Buffered, Over
<1>3. state = S!Before
  BY <1>1 DEF SInv, Patching
<1>4. Patching'
  BY <1>1, <1>3 DEF Patching, Over, S!Before
<1>. QED  BY <1>2, <1>4

(* It answers.                                                             *)
LEMMA Answers ==
  ASSUME SInv, ~ Over, pc' = "answered", running' = <<>>, thrown' \in BOOLEAN,
         NEW success \in BOOLEAN, NEW object \in BOOLEAN, NEW patch \in S!Copy,
         verdict' = [success |-> success, object |-> object, patch |-> patch,
                     messages |-> messages],
         patch # NoObject => success /\ patch = copy /\ copy # snapshot,
         success => ~ overran' /\ (copy # snapshot => patch = copy),
         overran' \in BOOLEAN,
         UNCHANGED <<clock, cancelled, snapshot, copy, state, output, messages, said>>
  PROVE  SInv'
<1>1. verdict' \in S!Answer
  BY DEF SInv, S!TypeOK, S!Answer
<1>2. /\ verdict'.success = success /\ verdict'.patch = patch
      /\ verdict'.messages = messages
  OBVIOUS
<1>3. S!TypeOK'
  <2>1. running' \in Seq(S!Invocation)
    BY EmptySeq
  <2>. QED  BY <1>1, <2>1 DEF SInv, S!TypeOK
<1>4. Buffered'
  BY <1>2 DEF SInv, Buffered, Over
<1>5. state = S!Before
  BY DEF SInv, Patching, Over
<1>6. Patching'
  <2>1. verdict'.patch # NoObject =>
          verdict'.success /\ verdict'.patch = copy' /\ copy' # snapshot'
    BY <1>2
  <2>2. verdict'.success => ~ overran' /\ (copy' # snapshot' => verdict'.patch = copy')
    BY <1>2
  <2>3. Over' /\ pc' # "ended"
    BY DEF Over
  <2>4. state' = S!Before
    BY <1>5
  <2>. QED  BY <2>1, <2>2, <2>3, <2>4 DEF Patching, S!Before
<1>. QED  BY <1>3, <1>4, <1>6 DEF SInv

(* It fails.                                                               *)
LEMMA Fails ==
  ASSUME SInv, ~ Over, S!Fail, overran' \in BOOLEAN,
         UNCHANGED <<clock, cancelled, snapshot, copy, state, output, messages, said>>
  PROVE  SInv'
<1>1. NoObject \in S!Copy
  BY DEF S!Copy
<1>2. /\ pc' = "answered" /\ running' = <<>> /\ thrown' \in BOOLEAN
      /\ verdict' = [success |-> FALSE, object |-> TRUE, patch |-> NoObject,
                     messages |-> messages]
  BY DEF S!Fail
<1>. QED  BY <1>1, <1>2, Answers

LEMMA ScriptStep == SInv /\ S!Next => SInv'
<1>. SUFFICES ASSUME SInv, S!Next PROVE SInv'
  OBVIOUS
<1>. USE DEF S!engine, S!log, S!ending
<1>0. /\ S!TypeOK /\ MaxTime \in Nat /\ MaxMessages \in Nat /\ MaxTools \in Nat
      /\ running \in Seq(S!Invocation) /\ clock \in 0..MaxTime
      /\ snapshot \in S!Snapshot /\ copy \in S!Copy
      /\ thrown \in BOOLEAN /\ cancelled \in BOOLEAN /\ overran \in BOOLEAN
      /\ pc \in {"idle", "prepare", "run", "answered", "ended", "refused"}
      /\ pc = "run" <=> running # <<>>
  BY ScriptAssumption DEF SInv, S!TypeOK
<1>1. CASE S!CallScript
  <2>1. /\ ~ Over /\ ~ Over' /\ pc # "run"
        /\ pc' \in {"refused", "prepare"} /\ cancelled' = cancelled
        /\ UNCHANGED <<running, thrown, clock, messages, said, verdict, overran, state, output>>
    BY <1>1 DEF S!CallScript, Over
  <2>2. snapshot' \in S!Snapshot /\ copy' \in S!Copy
    <3>1. S!Snapshot \subseteq S!Copy
      BY DEF S!Snapshot, S!Copy
    <3>. QED  BY <1>0, <1>1, <3>1 DEF S!CallScript
  <2>3. S!TypeOK'
    BY <1>0, <2>1, <2>2 DEF S!TypeOK
  <2>. QED  BY <2>1, <2>3, GoesOn DEF SInv
<1>2. CASE S!BeginScript
  <2>0. /\ pc = "prepare" /\ ~ Over
        /\ UNCHANGED <<clock, cancelled, snapshot, copy, state, output, overran, messages, said>>
    BY <1>2 DEF S!BeginScript, Over
  <2>1. CASE S!Fail
    BY <1>0, <2>0, <2>1, Fails
  <2>2. CASE ~ S!Fail
    <3>1. PICK timeout \in 0..MaxTime :
            running' = <<[timeout |-> timeout, started |-> clock]>>
      BY <1>2, <2>2 DEF S!BeginScript
    <3>2. pc' = "run" /\ UNCHANGED <<thrown, verdict>>
      BY <1>2, <2>2 DEF S!BeginScript
    <3>3. running' \in Seq(S!Invocation) /\ running' # <<>>
      <4>. DEFINE f == [timeout |-> timeout, started |-> clock]
      <4>1. f \in S!Invocation
        BY <1>0, <3>1 DEF S!Invocation
      <4>. HIDE DEF f
      <4>. QED  BY <3>1, <4>1 DEF f
    <3>4. S!TypeOK'
      BY <1>0, <2>0, <3>2, <3>3 DEF S!TypeOK
    <3>5. ~ Over'
      BY <3>2 DEF Over
    <3>. QED  BY <2>0, <3>2, <3>4, <3>5, GoesOn DEF SInv
  <2>. QED  BY <2>1, <2>2
<1>3. CASE S!Message
  <2>1. /\ pc = "run" /\ said < MaxMessages /\ said' = said + 1 /\ messages' = messages + 1
        /\ UNCHANGED <<pc, cancelled, running, thrown, clock, snapshot, copy, verdict,
                       overran, state, output>>
    BY <1>3 DEF S!Message, S!Executes, S!Buffer
  <2>2. messages = said /\ messages \in 0..MaxMessages
    BY DEF SInv, Buffered, S!TypeOK
  <2>3. messages' \in 0..MaxMessages /\ said' \in 0..MaxMessages /\ messages' = said'
    BY <1>0, <2>1, <2>2
  <2>4. S!TypeOK'
    BY <1>0, <2>1, <2>3 DEF S!TypeOK
  <2>5. Buffered'
    BY <2>1, <2>3 DEF Buffered, Over
  <2>6. Patching'
    BY <2>1 DEF SInv, Patching, Over, S!Before
  <2>. QED  BY <2>4, <2>5, <2>6 DEF SInv
<1>4. CASE S!Callback \/ S!Throw \/ S!Catch \/ S!Change
  <2>1. /\ pc = "run" /\ UNCHANGED <<pc, running, cancelled, messages, said, verdict,
                                     overran, state, output>>
        /\ thrown' \in BOOLEAN /\ copy' \in S!Copy /\ snapshot' = snapshot
        /\ clock' \in 0..MaxTime
    <3>1. CASE S!Callback
      <4>1. PICK time \in {0, 1} : clock + time <= MaxTime /\ clock' = clock + time
        BY <3>1 DEF S!Callback, S!Pass
      <4>2. clock' \in 0..MaxTime
        BY <1>0, <4>1
      <4>3. thrown' \in BOOLEAN
        BY <3>1 DEF S!Callback
      <4>. QED  BY <1>0, <3>1, <4>2, <4>3 DEF S!Callback, S!Executes
    <3>2. CASE S!Throw \/ S!Catch \/ S!Change
      BY <1>0, <3>2 DEF S!Throw, S!Catch, S!Change, S!Executes
    <3>. QED  BY <1>4, <3>1, <3>2
  <2>2. S!TypeOK'
    BY <1>0, <2>1 DEF S!TypeOK
  <2>3. ~ Over /\ ~ Over'
    BY <2>1 DEF Over
  <2>. QED  BY <2>1, <2>2, <2>3, GoesOn DEF SInv
<1>5. CASE S!RunTool
  <2>1. /\ pc = "run" /\ UNCHANGED <<pc, clock, cancelled, snapshot, copy, messages, said, verdict,
                                     overran, state, output>>
    BY <1>5 DEF S!RunTool, S!Executes
  <2>2. /\ running' \in Seq(S!Invocation) /\ running' # <<>> /\ thrown' \in BOOLEAN
    <3>1. CASE cancelled
      BY <1>0, <1>5, <2>1, <3>1 DEF S!RunTool
    <3>2. CASE ~ cancelled
      <4>1. PICK timeout \in 0..MaxTime :
              running' = Append(running, [timeout |-> timeout, started |-> clock])
        BY <1>5, <3>2 DEF S!RunTool
      <4>. DEFINE f == [timeout |-> timeout, started |-> clock]
      <4>2. f \in S!Invocation
        BY <1>0, <4>1 DEF S!Invocation
      <4>. HIDE DEF f
      <4>3. running' \in Seq(S!Invocation) /\ Len(running') = Len(running) + 1
            /\ Len(running) \in Nat
        BY <1>0, <4>1, <4>2, Appended, Lengths DEF f
      <4>4. running' # <<>>
        BY <4>3
      <4>5. thrown' = thrown
        BY <1>5, <3>2 DEF S!RunTool
      <4>. QED  BY <1>0, <4>3, <4>4, <4>5
    <3>. QED  BY <3>1, <3>2
  <2>3. S!TypeOK'
    BY <1>0, <2>1, <2>2 DEF S!TypeOK
  <2>4. ~ Over /\ ~ Over'
    BY <2>1 DEF Over
  <2>. QED  BY <2>1, <2>3, <2>4, GoesOn DEF SInv
<1>6. CASE S!ToolEnds
  <2>1. /\ pc = "run" /\ Len(running) > 1
        /\ running' = SubSeq(running, 1, Len(running) - 1)
        /\ thrown' \in BOOLEAN
        /\ UNCHANGED <<pc, clock, cancelled, snapshot, copy, messages, said, verdict,
                       overran, state, output>>
    BY <1>6 DEF S!ToolEnds, S!Front
  <2>2. running' \in Seq(S!Invocation) /\ Len(running') = Len(running) - 1
        /\ Len(running) \in Nat
    <3>1. running # <<>>
      BY <1>0, <2>1
    <3>. QED  BY <1>0, <2>1, <3>1, FrontOf, Lengths
  <2>3. running' # <<>>
    <3>1. Len(running') > 0
      BY <2>1, <2>2
    <3>. QED  BY <3>1
  <2>4. S!TypeOK'
    BY <1>0, <2>1, <2>2, <2>3 DEF S!TypeOK
  <2>5. ~ Over /\ ~ Over'
    BY <2>1 DEF Over
  <2>. QED  BY <2>1, <2>4, <2>5, GoesOn DEF SInv
<1>7. CASE S!ScriptFails
  <2>1. /\ pc = "run" /\ S!Fail /\ ~ Over /\ overran' \in BOOLEAN
        /\ UNCHANGED <<clock, cancelled, snapshot, copy, state, output, messages, said>>
    BY <1>7 DEF S!ScriptFails, Over, S!Late
  <2>. QED  BY <1>0, <2>1, Fails
<1>8. CASE S!ScriptReturns
  <2>1. PICK object \in BOOLEAN :
          verdict' = [success |-> TRUE, object |-> object, patch |-> S!Patch,
                      messages |-> messages]
    BY <1>8 DEF S!ScriptReturns
  <2>2. /\ ~ Over /\ pc' = "answered" /\ running' = <<>> /\ thrown' \in BOOLEAN
        /\ overran' \in BOOLEAN /\ ~ overran'
        /\ UNCHANGED <<clock, cancelled, snapshot, copy, state, output, messages, said>>
    BY <1>0, <1>8 DEF S!ScriptReturns, S!Executes, S!Late, Over
  <2>3. /\ S!Patch \in S!Copy /\ (copy # snapshot => S!Patch = copy)
        /\ S!Patch # NoObject => S!Patch = copy /\ copy # snapshot
    BY <1>0 DEF S!Patch, S!Copy
  <2>. HIDE DEF S!Patch
  <2>. QED  BY <1>0, <2>1, <2>2, <2>3, Answers
<1>9. CASE S!StepReturns
  <2>1. /\ pc = "answered" /\ pc' = "ended"
        /\ state' = IF verdict.patch = NoObject THEN state ELSE S!Patched(verdict.patch)
        /\ output' = IF S!Wrapped THEN 0 ELSE verdict.messages
        /\ UNCHANGED <<cancelled, overran, verdict, running, thrown, clock, snapshot, copy,
                       messages, said>>
    BY <1>9 DEF S!StepReturns
  <2>2. Over /\ Over'
    BY <2>1 DEF Over
  <2>3. S!Wrapped' <=> S!Wrapped
    BY <2>1 DEF S!Wrapped
  <2>4. verdict.messages = messages /\ messages = said /\ messages \in 0..MaxMessages
    BY <2>2 DEF SInv, Buffered, S!TypeOK
  <2>5. output' \in 0..MaxMessages
    BY <1>0, <2>1, <2>4
  <2>6. S!TypeOK'
    <3>1. state \in [Field -> {"before", "given", "written"}] /\ verdict.patch \in S!Copy
      BY <1>0 DEF S!TypeOK, S!Answer
    <3>2. state' \in [Field -> {"before", "given", "written"}]
      BY <2>1, <3>1 DEF S!Patched, S!Copy
    <3>. QED  BY <1>0, <2>1, <2>5, <3>2 DEF S!TypeOK
  <2>7. Buffered'
    BY <2>1, <2>2, <2>3, <2>4 DEF Buffered
  <2>8. Patching'
    <3>1. state = S!Before
      BY <2>1 DEF SInv, Patching
    <3>2. CASE verdict.patch = NoObject
      BY <2>1, <2>2, <3>1, <3>2 DEF SInv, Patching, S!Before
    <3>3. CASE verdict.patch # NoObject
      <4>1. \A f \in Field : state'[f] = IF verdict.patch[f] = "absent" THEN "before"
                                                                     ELSE verdict.patch[f]
        BY <2>1, <3>1, <3>3 DEF S!Patched, S!Before
      <4>. QED  BY <2>1, <2>2, <3>3, <4>1 DEF SInv, Patching
    <3>. QED  BY <3>2, <3>3
  <2>. QED  BY <2>6, <2>7, <2>8 DEF SInv
<1>10. CASE S!Cancel
  <2>1. cancelled' = TRUE
        /\ UNCHANGED <<pc, running, thrown, clock, snapshot, copy, messages, said, verdict,
                       overran, state, output>>
    BY <1>10 DEF S!Cancel
  <2>2. S!TypeOK'
    BY <1>0, <2>1 DEF S!TypeOK
  <2>3. Buffered'
    BY <2>1 DEF SInv, Buffered, Over, S!Wrapped
  <2>4. Patching'
    BY <2>1 DEF SInv, Patching, Over, S!Before
  <2>. QED  BY <2>2, <2>3, <2>4 DEF SInv
<1>. QED  BY <1>1, <1>2, <1>3, <1>4, <1>5, <1>6, <1>7, <1>8, <1>9, <1>10 DEF S!Next

ScriptPart == part = "script" => SInv

LEMMA ScriptAlways == PartsSpec => []ScriptPart
<1>1. PartsInit => ScriptPart
  BY ScriptInit DEF PartsInit, ScriptPart
<1>2. ScriptPart /\ [PartsNext]_partVars => ScriptPart'
  <2>. SUFFICES ASSUME ScriptPart, [PartsNext]_partVars, part' = "script"
                PROVE  SInv'
    BY DEF ScriptPart
  <2>1. CASE Scripts
    BY <2>1, ScriptStep DEF Scripts, ScriptPart
  <2>2. CASE Ended \/ UNCHANGED partVars
    <3>1. UNCHANGED partVars
      BY <2>2 DEF Ended
    <3>2. SInv /\ UNCHANGED <<pc, running, thrown, clock, cancelled, snapshot, copy,
                              messages, said, overran, verdict, state, output>>
      BY <3>1 DEF partVars, scripting, shared, ScriptPart
    <3>3. S!TypeOK'
      BY <3>2 DEF SInv, S!TypeOK
    <3>4. Buffered'
      BY <3>2 DEF SInv, Buffered, Over, S!Wrapped
    <3>5. Patching'
      BY <3>2 DEF SInv, Patching, Over, S!Before
    <3>. QED  BY <3>3, <3>4, <3>5 DEF SInv
  <2>3. CASE Streams \/ Resolver \/ Queue \/ Logs
    BY <2>3 DEF Streams, Resolver, Queue, Logs
  <2>. QED  BY <2>1, <2>2, <2>3 DEF PartsNext
<1>. QED  BY <1>1, <1>2, PTL DEF PartsSpec

(* script_contract and run_steps (src/tooling/script.rs, src/compose.rs):  *)
(* however calls, tools, errors, cancellations and time follow each other, *)
(* nothing but a success in time changes the state, and then by the keys   *)
(* of its copy: none is removed.                                           *)
THEOREM PatchIsMerged == PartsSpec => []PatchMerged
<1>1. ScriptPart => PatchMerged
  <2>. SUFFICES ASSUME SInv PROVE S!PatchMerged
    BY DEF ScriptPart, PatchMerged
  <2>1. state # S!Before => /\ verdict.success /\ copy \notin {snapshot, NoObject}
                            /\ ~ overran
    BY DEF SInv, Patching
  <2>2. ASSUME pc = "ended", verdict.success, copy \notin {snapshot, NoObject},
               NEW f \in Field
        PROVE  state[f] = IF copy[f] = "absent" THEN "before" ELSE copy[f]
    BY <2>2 DEF SInv, Patching
  <2>. QED  BY <2>1, <2>2 DEF S!PatchMerged
<1>. QED  BY <1>1, ScriptAlways, PTL

(* script_contract: the messages of a script and of all its tools come out *)
(* with its step, unless the answer had to be wrapped for its patch.       *)
THEOREM MessagesComeOut == PartsSpec => []MessagesKept
<1>1. ScriptPart => MessagesKept
  BY DEF ScriptPart, SInv, Buffered, MessagesKept, S!MessagesKept
<1>. QED  BY <1>1, ScriptAlways, PTL

-----------------------------------------------------------------------------
(* Types.                                                                  *)

(* The type invariants of Resolver, QueueBfs, Logging and Script, for any  *)
(* sets and bounds.                                                        *)
THEOREM PartsTypeCorrect == PartsSpec => []TypesOK
<1>1. ResolverPart /\ QueuePart /\ LogPart /\ ScriptPart => TypesOK
  BY DEF ResolverPart, QueuePart, LogPart, ScriptPart, RInv, QInv, LInv, SInv, TypesOK
<1>. QED  BY <1>1, ResolverAlways, QueueAlways, LogAlways, ScriptAlways, PTL
=============================================================================
