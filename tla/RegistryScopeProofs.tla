------------------------ MODULE RegistryScopeProofs -------------------------
(***************************************************************************)
(* Proofs about RegistryScope, for all contexts, names and definitions:    *)
(* scopes are undone as long as the scopes of several contexts exclude     *)
(* each other, and to a single context they are lexical scopes.            *)
(***************************************************************************)
EXTENDS RegistryScope, SequenceTheorems, TLAPS

-----------------------------------------------------------------------------
(* Types.                                                                  *)

Entering == [phase : {"entering"}, taken : Scopes!Env, overrides : Scopes!Bindings]

LEMMA EnteringIsNotIdle ==
  ASSUME NEW e \in {Idle} \cup Entering
  PROVE  e # Idle => e \in Entering
OBVIOUS

(* What is written to the registry is a registry.                          *)
LEMMA ScopedType ==
  ASSUME NEW e \in Entering
  PROVE  Scoped(e) \in Scopes!Env
BY DEF Scoped, Scopes!Override, Entering, Scopes!Env, Scopes!Bindings

LEMMA AmendedType ==
  ASSUME NEW env \in Scopes!Env
  PROVE  /\ \A name \in Name, entry \in Entry :
              Scopes!WithFunction(env, name, entry) \in Scopes!Env
         /\ \A contract \in Contract, name \in Name :
              Scopes!WithBinding(env, contract, name) \in Scopes!Env
BY DEF Scopes!WithFunction, Scopes!WithBinding, Scopes!Env, Scopes!Bindings

LEMMA FoundType ==
  ASSUME NEW env \in Scopes!Env, NEW name \in Name
  PROVE  Scopes!Find(env, name) \in Entry \cup {Nothing}
BY NamesAssumption DEF Scopes!Find, Scopes!Env, Scopes!Bindings

(* The last element of a sequence and the ones before it.                  *)
LEMMA LastAndFront ==
  ASSUME NEW S, NEW s \in Seq(S), s # <<>>
  PROVE  LET front == SubSeq(s, 1, Len(s) - 1)
         IN  /\ s[Len(s)] \in S
             /\ front \in Seq(S)
             /\ front = <<>> => s[Len(s)] = s[1]
             /\ front # <<>> => front[1] = s[1]
             /\ Append(front, s[Len(s)]) = s
<1>. DEFINE front == SubSeq(s, 1, Len(s) - 1)
<1>1. PICK n \in Nat \ {0} : Len(s) = n
  BY EmptySeq, LenProperties
<1>2. \A j \in 1..n : s[j] \in S
  BY <1>1, ElementOfSeq
<1>3. n - 1 \in Int /\ 1 \in Int /\ \A j \in 1..(n - 1) : s[j] \in S
  BY <1>2
<1>4. /\ SubSeq(s, 1, n - 1) \in Seq(S)
      /\ Len(SubSeq(s, 1, n - 1)) = IF 1 <= n - 1 THEN n - 1 - 1 + 1 ELSE 0
      /\ \A j \in 1..(n - 1 - 1 + 1) : SubSeq(s, 1, n - 1)[j] = s[1 + j - 1]
  BY <1>3, SubSeqProperties
<1>5. front \in Seq(S) /\ s[Len(s)] \in S
  BY <1>1, <1>2, <1>4
<1>6. Append(front, s[Len(s)]) = s
  <2>1. SubSeq(s, 1, n) = SubSeq(s, 1, n - 1) \o <<s[n]>>
    BY <1>1, SubSeqRecursiveSecond
  <2>2. SubSeq(s, 1, n) = s
    BY <1>1, SubSeqFull
  <2>. QED  BY <1>1, <1>5, <2>1, <2>2, AppendIsConcat
<1>7. CASE n = 1
  <2>1. Len(front) = 0
    BY <1>1, <1>4, <1>7
  <2>2. front = <<>>
    BY <1>5, <2>1, EmptySeq
  <2>. QED  BY <1>1, <1>5, <1>6, <1>7, <2>2
<1>8. CASE n > 1
  <2>1. /\ Len(SubSeq(s, 1, n - 1)) = n - 1 /\ n - 1 # 0
        /\ 1 \in 1..(n - 1 - 1 + 1) /\ 1 + 1 - 1 = 1
    BY <1>4, <1>8
  <2>2. front # <<>> /\ front[1] = s[1]
    BY <1>1, <1>4, <2>1
  <2>. QED  BY <1>5, <1>6, <2>2
<1>. QED  BY <1>7, <1>8

-----------------------------------------------------------------------------
(* Scopes that exclude each other.                                         *)

Solo == \A c, d \in Ctx : Busy(c) /\ Busy(d) => c = d

(* The registry of before is what the outermost scope of a context copied, *)
(* or is still to write a copy of; with no scope open it is in force.      *)
Kept ==
  /\ \A c \in Ctx : snapshots[c] # <<>> => snapshots[c][1] = base
  /\ \A c \in Ctx : entering[c] # Idle /\ snapshots[c] = <<>> =>
                      entering[c].taken = base
  /\ NoScopeOpen => registry = base

Exclusion == exclusive => Solo /\ Kept

ScopeInv == TypeOK /\ Exclusion

LEMMA ScopeInvInit ==
  ASSUME Init
  PROVE  ScopeInv
<1>1. \A c \in Ctx : ~ Busy(c)
  BY DEF Init, Busy
<1>2. TypeOK
  BY DEF Init, TypeOK
<1>. QED  BY <1>1, <1>2 DEF Init, ScopeInv, Exclusion, Solo, Kept, Busy

LEMMA TypeStep ==
  ASSUME TypeOK, Next
  PROVE  TypeOK'
<1>. PICK c \in Ctx :
       \/ \E overrides \in Scopes!Bindings : CopyRegistry(c, overrides)
       \/ WriteScope(c)
       \/ LeaveScope(c)
       \/ \E name \in Name, entry \in Entry : Register(c, name, entry)
       \/ \E contract \in Contract, name \in Name : SetBinding(c, contract, name)
       \/ \E name \in Name : Call(c, name)
  BY DEF Next
<1>. DEFINE E == Scopes!Env
<1>0. /\ registry \in E /\ base \in E
      /\ snapshots \in [Ctx -> Seq(E)] /\ snapshots[c] \in Seq(E)
      /\ entering \in [Ctx -> {Idle} \cup Entering]
      /\ entering[c] # Idle => entering[c] \in Entering /\ entering[c].taken \in E
      /\ answer \in Entry \cup {Nothing} /\ exclusive \in BOOLEAN
  BY DEF TypeOK, Entering
<1>. HIDE DEF E
<1>1. ASSUME NEW overrides \in Scopes!Bindings, CopyRegistry(c, overrides)
      PROVE  TypeOK'
  <2>1. [phase |-> "entering", taken |-> registry, overrides |-> overrides] \in Entering
    BY <1>0 DEF Entering, E
  <2>. QED  BY <1>0, <1>1, <2>1 DEF CopyRegistry, TypeOK, Entering, E, Alone
<1>2. CASE WriteScope(c)
  <2>1. Scoped(entering[c]) \in E
    BY <1>0, <1>2, ScopedType DEF WriteScope, E
  <2>2. Append(snapshots[c], entering[c].taken) \in Seq(E)
    BY <1>0, <1>2, AppendProperties DEF WriteScope
  <2>. QED  BY <1>0, <1>2, <2>1, <2>2 DEF WriteScope, TypeOK, Entering, E
<1>3. CASE LeaveScope(c)
  <2>1. /\ snapshots[c][Len(snapshots[c])] \in E
        /\ SubSeq(snapshots[c], 1, Len(snapshots[c]) - 1) \in Seq(E)
    BY <1>0, <1>3, LastAndFront DEF LeaveScope
  <2>. QED  BY <1>0, <1>3, <2>1 DEF LeaveScope, TypeOK, Entering, E
<1>4. ASSUME NEW env \in E, Amend(c, env)
      PROVE  TypeOK'
  BY <1>0, <1>4 DEF Amend, TypeOK, Entering, E, Alone
<1>5. ASSUME NEW name \in Name, Call(c, name)
      PROVE  TypeOK'
  BY <1>0, <1>5, FoundType DEF Call, TypeOK, Entering, E
<1>6. /\ \A name \in Name, entry \in Entry :
            Scopes!WithFunction(registry, name, entry) \in E
      /\ \A contract \in Contract, name \in Name :
            Scopes!WithBinding(registry, contract, name) \in E
  BY <1>0, AmendedType DEF E
<1>. QED  BY <1>1, <1>2, <1>3, <1>4, <1>5, <1>6 DEF Register, SetBinding

LEMMA ExclusionStep ==
  ASSUME ScopeInv, Next
  PROVE  Exclusion'
<1>. PICK c \in Ctx :
       \/ \E overrides \in Scopes!Bindings : CopyRegistry(c, overrides)
       \/ WriteScope(c)
       \/ LeaveScope(c)
       \/ \E name \in Name, entry \in Entry : Register(c, name, entry)
       \/ \E contract \in Contract, name \in Name : SetBinding(c, contract, name)
       \/ \E name \in Name : Call(c, name)
  BY DEF Next
<1>. SUFFICES ASSUME exclusive' PROVE Solo' /\ Kept'
  BY DEF Exclusion
<1>. DEFINE E == Scopes!Env
<1>0. /\ exclusive /\ Solo /\ Kept
      /\ snapshots \in [Ctx -> Seq(E)] /\ snapshots[c] \in Seq(E)
      /\ entering \in [Ctx -> {Idle} \cup Entering]
      /\ entering[c] # Idle => entering[c] \in Entering /\ entering[c].taken \in E
  BY DEF ScopeInv, Exclusion, TypeOK, Entering, CopyRegistry, WriteScope, LeaveScope,
     Register, SetBinding, Amend, Call
<1>. HIDE DEF E
<1>1. ASSUME NEW overrides \in Scopes!Bindings, CopyRegistry(c, overrides)
      PROVE  Solo' /\ Kept'
  <2>1. \A d \in Ctx \ {c} : ~ Busy(d) /\ ~ Busy(d)'
    BY <1>0, <1>1 DEF CopyRegistry, Alone, Busy
  <2>2. Solo'
    BY <2>1 DEF Solo
  <2>3. entering'[c].taken = registry /\ entering'[c] # Idle
    BY <1>0, <1>1 DEF CopyRegistry, Idle
  <2>4. snapshots[c] = <<>> => registry = base
    BY <1>0, <1>1, <2>1 DEF CopyRegistry, Kept, NoScopeOpen, Busy
  <2>5. Busy(c)'
    BY <2>3 DEF Busy
  <2>. QED  BY <1>0, <1>1, <2>1, <2>2, <2>3, <2>4, <2>5
            DEF CopyRegistry, Kept, NoScopeOpen, Busy
<1>2. CASE WriteScope(c)
  <2>1. Busy(c) /\ \A d \in Ctx \ {c} : ~ Busy(d) /\ ~ Busy(d)'
    BY <1>0, <1>2 DEF WriteScope, Solo, Busy
  <2>2. Solo'
    BY <2>1 DEF Solo
  <2>3. /\ snapshots'[c] = Append(snapshots[c], entering[c].taken)
        /\ entering'[c] = Idle /\ base' = base
    BY <1>0, <1>2 DEF WriteScope
  <2>4. snapshots'[c] # <<>> /\ snapshots'[c][1] = base
    <3>1. CASE snapshots[c] = <<>>
      <4>1. entering[c].taken = base
        BY <1>0, <1>2, <3>1 DEF WriteScope, Kept
      <4>. QED  BY <2>3, <3>1, <4>1
    <3>2. CASE snapshots[c] # <<>>
      <4>1. snapshots[c][1] = base
        BY <1>0, <3>2 DEF Kept
      <4>2. PICK n \in Nat \ {0} : Len(snapshots[c]) = n
        BY <1>0, <3>2, EmptySeq, LenProperties
      <4>3. Append(snapshots[c], entering[c].taken)[1] = snapshots[c][1]
        BY <1>0, <1>2, <4>2, AppendProperties DEF WriteScope
      <4>4. Append(snapshots[c], entering[c].taken) # <<>>
        BY <1>0, <1>2, AppendProperties DEF WriteScope
      <4>. QED  BY <2>3, <4>1, <4>3, <4>4
    <3>. QED  BY <3>1, <3>2
  <2>. QED  BY <2>1, <2>2, <2>3, <2>4 DEF Kept, NoScopeOpen, Busy
<1>3. CASE LeaveScope(c)
  <2>1. Busy(c) /\ \A d \in Ctx \ {c} : ~ Busy(d) /\ ~ Busy(d)'
    BY <1>0, <1>3 DEF LeaveScope, Solo, Busy
  <2>2. Solo'
    BY <2>1 DEF Solo
  <2>. DEFINE last  == snapshots[c][Len(snapshots[c])]
              front == SubSeq(snapshots[c], 1, Len(snapshots[c]) - 1)
  <2>3. /\ front = <<>> => last = snapshots[c][1]
        /\ front # <<>> => front[1] = snapshots[c][1]
    BY <1>0, <1>3, LastAndFront DEF LeaveScope
  <2>4. snapshots[c][1] = base
    BY <1>0, <1>3 DEF LeaveScope, Kept
  <2>5. /\ registry' = last /\ snapshots'[c] = front
        /\ entering'[c] = Idle /\ base' = base
    BY <1>0, <1>3 DEF LeaveScope
  <2>. HIDE DEF last, front
  <2>. QED  BY <2>1, <2>2, <2>3, <2>4, <2>5 DEF Kept, NoScopeOpen, Busy
<1>4. ASSUME NEW env, Amend(c, env)
      PROVE  Solo' /\ Kept'
  <2>1. \A d \in Ctx : Busy(d)' <=> Busy(d)
    BY <1>4 DEF Amend, Busy
  <2>2. Solo'
    BY <1>0, <2>1 DEF Solo
  <2>3. \A d \in Ctx \ {c} : ~ Busy(d)
    BY <1>4 DEF Amend, Alone
  <2>. QED  BY <1>0, <1>4, <2>1, <2>2, <2>3 DEF Amend, Kept, NoScopeOpen, Busy
<1>5. ASSUME NEW name \in Name, Call(c, name)
      PROVE  Solo' /\ Kept'
  BY <1>0, <1>5 DEF Call, Solo, Kept, NoScopeOpen, Busy
<1>. QED  BY <1>1, <1>2, <1>3, <1>4, <1>5 DEF Register, SetBinding

LEMMA ScopeInvStutter ==
  ASSUME ScopeInv, UNCHANGED vars
  PROVE  ScopeInv'
BY DEF ScopeInv, TypeOK, Exclusion, Solo, Kept, NoScopeOpen, Busy, vars

THEOREM ScopeInvariance == Spec => []ScopeInv
<1>1. Init => ScopeInv
  BY ScopeInvInit
<1>2. ScopeInv /\ [Next]_vars => ScopeInv'
  <2>. SUFFICES ASSUME ScopeInv, [Next]_vars PROVE ScopeInv'
    OBVIOUS
  <2>1. CASE Next
    BY <2>1, TypeStep, ExclusionStep DEF ScopeInv
  <2>. QED  BY <2>1, ScopeInvStutter
<1>. QED  BY <1>1, <1>2, PTL DEF Spec

THEOREM RegistryTypeCorrect == Spec => []TypeOK
<1>1. ScopeInv => TypeOK
  BY DEF ScopeInv
<1>. QED  BY <1>1, ScopeInvariance, PTL

(* Scopes of any number of contexts that never overlap leave the registry  *)
(* as it was made outside of them.                                         *)
THEOREM ScopesRestore == Spec => []RestoredIfExclusive
<1>1. ScopeInv => RestoredIfExclusive
  BY DEF ScopeInv, Exclusion, Kept, RestoredIfExclusive, RestoredWhenIdle
<1>. QED  BY <1>1, ScopeInvariance, PTL

-----------------------------------------------------------------------------
(* The only context of a registry.                                         *)

(* While it enters a scope nobody changes the registry it has copied.      *)
CopyCurrent ==
  entering[TheContext] # Idle => entering[TheContext].taken = registry

LexicalInv == TypeOK /\ CopyCurrent

LEMMA LexicalInvInit ==
  ASSUME Init
  PROVE  LexicalInv /\ Lexical!ScopedInit
<1>1. TheContext \in Ctx
  BY CtxAssumption DEF TheContext
<1>2. TypeOK
  BY ScopeInvInit DEF ScopeInv
<1>3. snapshots[TheContext] = <<>> /\ entering[TheContext] = Idle
  BY <1>1 DEF Init
<1>4. Append(snapshots[TheContext], registry) = <<registry>>
  BY <1>3
<1>5. registry \in Lexical!Env
  BY DEF Init, Lexical!Env, Lexical!Bindings, Scopes!Env, Scopes!Bindings
<1>. QED  BY <1>2, <1>3, <1>4, <1>5 DEF LexicalInv, CopyCurrent, Lexical!ScopedInit, Init

LEMMA CopyCurrentStep ==
  ASSUME \A c \in Ctx : c = TheContext, LexicalInv, [Next]_vars
  PROVE  LexicalInv'
<1>0. TheContext \in Ctx
  BY CtxAssumption DEF TheContext
<1>1. TypeOK'
  BY TypeStep DEF LexicalInv, TypeOK, vars
<1>2. CopyCurrent'
  <2>1. CASE UNCHANGED vars
    BY <2>1 DEF LexicalInv, CopyCurrent, vars
  <2>2. CASE Next
    BY <1>0, <2>2 DEF Next, CopyRegistry, WriteScope, LeaveScope, Register, SetBinding,
       Amend, Call, LexicalInv, CopyCurrent, TypeOK
  <2>. QED  BY <2>1, <2>2
<1>. QED  BY <1>1, <1>2 DEF LexicalInv

(* The layers are the snapshots and the registry in force.                 *)
LEMMA Layers ==
  ASSUME NEW S, NEW s \in Seq(S), NEW e \in S
  PROVE  LET layers == Append(s, e)
         IN  /\ layers[Len(layers)] = e
             /\ SubSeq(layers, 1, Len(layers) - 1) = s
             /\ s # <<>> => Len(layers) > 1
<1>. DEFINE layers == Append(s, e)
<1>1. PICK n \in Nat : Len(s) = n
  BY LenProperties
<1>2. layers \in Seq(S) /\ Len(layers) = n + 1 /\ layers[n + 1] = e
  BY <1>1, AppendProperties
<1>3. /\ \A j \in 1..n : layers[j] = s[j]
      /\ \A j \in 1..n : layers[j] \in S
  BY <1>1, AppendProperties, ElementOfSeq
<1>. HIDE DEF layers
<1>4. SubSeq(layers, 1, n) = s
  <2>1. /\ SubSeq(layers, 1, n) \in Seq(S)
        /\ Len(SubSeq(layers, 1, n)) = IF 1 <= n THEN n - 1 + 1 ELSE 0
        /\ \A j \in 1..(n - 1 + 1) : SubSeq(layers, 1, n)[j] = layers[1 + j - 1]
    BY <1>3, SubSeqProperties
  <2>2. Len(SubSeq(layers, 1, n)) = n
    BY <2>1
  <2>3. ASSUME NEW j \in 1..n PROVE SubSeq(layers, 1, n)[j] = s[j]
    <3>1. j \in 1..(n - 1 + 1) /\ 1 + j - 1 = j
      OBVIOUS
    <3>2. SubSeq(layers, 1, n)[j] = layers[j]
      BY <2>1, <3>1
    <3>. QED  BY <1>3, <3>2
  <2>. QED  BY <1>1, <2>1, <2>2, <2>3, SeqEqual
<1>5. s # <<>> => n # 0
  BY <1>1, EmptySeq
<1>6. s # <<>> => n + 1 > 1
  BY <1>5
<1>7. (n + 1) - 1 = n
  OBVIOUS
<1>8. SubSeq(layers, 1, Len(layers) - 1) = s
  BY <1>2, <1>4, <1>7
<1>. QED  BY <1>2, <1>6, <1>8 DEF layers

LEMMA LexicalStep ==
  ASSUME \A c \in Ctx : c = TheContext, LexicalInv, [Next]_vars
  PROVE  [Lexical!ScopedNext]_<<Append(snapshots[TheContext], registry), answer>>
<1>. DEFINE C == TheContext
            E == Scopes!Env
            snap == snapshots[C]
<1>. SUFFICES ASSUME Next
              PROVE  \/ Lexical!ScopedNext
                     \/ UNCHANGED <<Append(snap, registry), answer>>
  BY DEF vars
<1>0. /\ C \in Ctx
      /\ registry \in E /\ snapshots \in [Ctx -> Seq(E)] /\ snap \in Seq(E)
      /\ entering \in [Ctx -> {Idle} \cup Entering]
      /\ entering[C] # Idle => entering[C] \in Entering /\ entering[C].taken = registry
  BY CtxAssumption DEF TheContext, LexicalInv, TypeOK, CopyCurrent, Entering
<1>. HIDE DEF C, E
<1>1. /\ Lexical!Inner = registry
      /\ Lexical!Outer = snap
      /\ snap # <<>> => Len(Append(snap, registry)) > 1
  BY <1>0, Layers DEF Lexical!Inner, Lexical!Outer, C
<1>2. ASSUME NEW overrides \in Scopes!Bindings, CopyRegistry(C, overrides)
      PROVE  UNCHANGED <<Append(snap, registry), answer>>
  BY <1>0, <1>2 DEF CopyRegistry
<1>3. CASE WriteScope(C)
  <2>. DEFINE e == entering[C]
  <2>1. e \in Entering /\ e.taken = registry /\ e.overrides \in Scopes!Bindings
    BY <1>0, <1>3 DEF WriteScope, Entering
  <2>2. Scoped(e) = [registry EXCEPT !.bindings = Lexical!Override(@, e.overrides)]
    BY <2>1 DEF Scoped, Scopes!Override, Lexical!Override
  <2>3. snapshots'[C] = Append(snap, registry) /\ registry' = Scoped(e) /\ answer' = answer
    BY <1>0, <1>3, <2>1 DEF WriteScope
  <2>4. e.overrides \in Lexical!Bindings
    BY <2>1 DEF Scopes!Bindings, Lexical!Bindings
  <2>. HIDE DEF e
  <2>5. Lexical!Open(e.overrides)
    BY <1>1, <2>2, <2>3 DEF Lexical!Open, C
  <2>. QED  BY <2>4, <2>5 DEF Lexical!ScopedNext
<1>4. CASE LeaveScope(C)
  <2>1. snap # <<>>
    BY <1>4 DEF LeaveScope
  <2>2. /\ snapshots'[C] = SubSeq(snap, 1, Len(snap) - 1)
        /\ registry' = snap[Len(snap)] /\ answer' = answer
    BY <1>0, <1>4 DEF LeaveScope
  <2>3. Append(SubSeq(snap, 1, Len(snap) - 1), snap[Len(snap)]) = snap
    BY <1>0, <2>1, LastAndFront
  <2>4. Append(snapshots'[C], registry') = snap
    BY <2>2, <2>3
  <2>5. Lexical!Close
    BY <1>1, <2>1, <2>2, <2>4 DEF Lexical!Close, C
  <2>. QED  BY <2>5 DEF Lexical!ScopedNext
<1>5. ASSUME NEW env, Amend(C, env)
      PROVE  Lexical!Amend(env)
  BY <1>0, <1>1, <1>5 DEF Amend, Lexical!Amend, C
<1>6. ASSUME NEW name \in Name, Call(C, name)
      PROVE  Lexical!ScopedNext
  <2>1. Lexical!Ask(name)
    BY <1>0, <1>1, <1>6 DEF Call, Lexical!Ask, Lexical!Find, Scopes!Find, C
  <2>. QED  BY <2>1 DEF Lexical!ScopedNext
<1>7. ASSUME NEW name \in Name, NEW entry \in Entry, Register(C, name, entry)
      PROVE  Lexical!ScopedNext
  <2>1. Lexical!Amend(Lexical!WithFunction(Lexical!Inner, name, entry))
    BY <1>1, <1>5, <1>7 DEF Register, Scopes!WithFunction, Lexical!WithFunction
  <2>. QED  BY <2>1 DEF Lexical!ScopedNext
<1>8. ASSUME NEW contract \in Contract, NEW name \in Name, SetBinding(C, contract, name)
      PROVE  Lexical!ScopedNext
  <2>1. Lexical!Amend(Lexical!WithBinding(Lexical!Inner, contract, name))
    BY <1>1, <1>5, <1>8 DEF SetBinding, Scopes!WithBinding, Lexical!WithBinding
  <2>. QED  BY <2>1 DEF Lexical!ScopedNext
<1>9. \A c \in Ctx : c = C
  BY DEF C
<1>. QED  BY <1>2, <1>3, <1>4, <1>6, <1>7, <1>8, <1>9 DEF Next

(* A registry with one context implements lexical scoping.                 *)
THEOREM ScopesAreLexical ==
  ASSUME \A c \in Ctx : c = TheContext
  PROVE  Spec => LexicalScoping
<1>1. Init => LexicalInv /\ Lexical!ScopedInit
  BY LexicalInvInit
<1>2. LexicalInv /\ [Next]_vars => LexicalInv'
  BY CopyCurrentStep
<1>3. LexicalInv /\ [Next]_vars =>
        [Lexical!ScopedNext]_<<Append(snapshots[TheContext], registry), answer>>
  BY LexicalStep
<1>. QED  BY <1>1, <1>2, <1>3, PTL DEF Spec, LexicalScoping, Lexical!ScopedSpec
=============================================================================
