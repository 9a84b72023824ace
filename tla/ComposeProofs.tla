--------------------------- MODULE ComposeProofs ---------------------------
(***************************************************************************)
(* Proofs about Compose, for all programs and bounds.  The inductive       *)
(* invariant adds to the properties of Compose how the frames of the stack *)
(* are linked by the executors they were entered with: a call was entered  *)
(* with the executors of its block behind one more, and a slot with those  *)
(* of the call that runs it less the ones taken out of the context.  A     *)
(* second one, on top of it, says what the frames below the innermost are  *)
(* at, how loops count, and what an answer can be; from it follows a       *)
(* measure of the stack that each step of a cancelled run lowers.          *)
(***************************************************************************)
EXTENDS Compose, FiniteSetTheorems, SequenceTheorems, TLAPS

(* Frames as they occur: a log.context has pushed its tags once or not.    *)
ProperCall == {f \in CallFrame : f.step.call = "log_context" => f.n \in {0, 1}}

Frame == StepsFrame \cup ProperCall

Shape ==
  /\ prog \in [Block -> Seq(Step)]
  /\ stack \in Seq(Frame)
  /\ reply \in Replies \cup {"none"}
  /\ handler \in Chain
  /\ cancelled \in BOOLEAN
  /\ noticed \in BOOLEAN

(* The first frame, and a frame f entered from the frame `below` it.       *)
First(f) == f.kind = "steps" /\ f.chain = <<>> /\ f.taken = <<>>

Above(below, f) ==
  \/ /\ below.kind = "call"
     /\ f.kind = "steps"
     /\ below.chain = f.taken \o f.chain
  \/ /\ below.kind = "steps"
     /\ f.kind = "call"
     /\ f.chain # <<>>
     /\ below.chain = Tail(f.chain)

Linked ==
  \A k \in 1..Len(stack) :
    IF k = 1 THEN First(stack[1]) ELSE Above(stack[k - 1], stack[k])

(* What the context holds, by the innermost frame.                         *)
Held ==
  /\ stack = <<>> => handler = <<>>
  /\ stack # <<>> /\ Top.kind = "call" => handler = Top.chain
  /\ stack # <<>> /\ Top.kind = "steps" /\ reply = "none" => handler = Top.chain
  /\ stack # <<>> /\ Top.kind = "steps" /\ reply # "none" =>
       handler # <<>> /\ Top.chain = Tail(handler)

Structure == Shape /\ Linked /\ Held

Counters == tags \in Nat /\ scopes \in Nat /\ ScopeBalance /\ TagsKept

IInv == Structure /\ Counters

-----------------------------------------------------------------------------
(* Slots.                                                                  *)

(* Over gives a slot map when it is given two.                             *)
LEMMA OverType ==
  ASSUME NEW f \in SlotMap, NEW g \in SlotMap
  PROVE  Over(f, g) \in SlotMap
<1>1. PICK F \in SUBSET SlotName : f \in [F -> Block]
  BY DEF SlotMap
<1>2. PICK G \in SUBSET SlotName : g \in [G -> Block]
  BY DEF SlotMap
<1>3. Over(f, g) \in [F \cup G -> Block]
  BY <1>1, <1>2 DEF Over
<1>. QED  BY <1>3 DEF SlotMap

(* The slots of every step normalize to a slot map.                        *)
LEMMA NormalizeChildrenType ==
  ASSUME NEW step \in Step
  PROVE  NormalizeChildren(step) \in SlotMap
<1>. DEFINE given == Over(step.slots.at, step.children.at)
            alias == [name \in {"children"} |-> given["body"]]
<1>1. given \in SlotMap
  BY OverType DEF Step, StepChildren
<1>2. CASE "body" \in DOMAIN given
  <2>1. given["body"] \in Block
    BY <1>1, <1>2 DEF SlotMap
  <2>2. alias \in [{"children"} -> Block]
    BY <2>1
  <2>3. {"children"} \in SUBSET SlotName
    BY SlotNames
  <2>4. alias \in SlotMap
    BY <2>2, <2>3 DEF SlotMap
  <2>. HIDE DEF given, alias
  <2>5. Over(given, alias) \in SlotMap
    BY <1>1, <2>4, OverType
  <2>. QED  BY <1>2, <2>5 DEF NormalizeChildren, given, alias
<1>3. CASE "body" \notin DOMAIN given
  BY <1>1, <1>3 DEF NormalizeChildren
<1>. QED  BY <1>2, <1>3

(* The owner of a slot has a block for it.                                 *)
LEMMA SlotStepsType ==
  ASSUME NEW slots \in SlotMap, NEW name, Holds(slots, name)
  PROVE  SlotSteps(slots, name) \in Block
<1>1. PICK c \in {1, 2} : Candidates(name)[c] \in DOMAIN slots
  BY DEF Holds
<1>2. \A x \in DOMAIN slots : slots[x] \in Block
  BY DEF SlotMap
<1>. QED  BY <1>1, <1>2 DEF SlotSteps

-----------------------------------------------------------------------------
(* What a step may do to the stack.                                        *)

(* The innermost frame and the ones below it.                              *)
LEMMA StackParts ==
  ASSUME Shape, stack # <<>>
  PROVE  /\ Len(stack) \in Nat \ {0}
         /\ Top \in Frame
         /\ Rest \in Seq(Frame)
         /\ Len(Rest) = Len(stack) - 1
         /\ \A j \in 1..(Len(stack) - 1) : Rest[j] = stack[j]
<1>1. stack \in Seq(Frame) /\ Len(stack) \in Nat \ {0}
  BY EmptySeq, LenProperties DEF Shape
<1>2. \A j \in 1..Len(stack) : stack[j] \in Frame
  BY <1>1, ElementOfSeq
<1>3. Len(stack) - 1 \in Nat /\ \A j \in 1..(Len(stack) - 1) : stack[j] \in Frame
  BY <1>1, <1>2
<1>4. /\ Rest \in Seq(Frame)
      /\ Len(Rest) = IF 1 <= Len(stack) - 1 THEN Len(stack) - 1 - 1 + 1 ELSE 0
      /\ \A j \in 1..(Len(stack) - 1 - 1 + 1) : Rest[j] = stack[1 + j - 1]
  BY <1>3, SubSeqProperties DEF Rest
<1>5. Len(Rest) = Len(stack) - 1
  <2>. PICK n \in Nat \ {0} : Len(stack) = n
    BY <1>1
  <2>. QED  BY <1>4
<1>6. ASSUME NEW j \in 1..(Len(stack) - 1) PROVE Rest[j] = stack[j]
  BY <1>1, <1>4
<1>7. Top \in Frame
  BY <1>1, <1>2 DEF Top
<1>. QED  BY <1>1, <1>4, <1>5, <1>6, <1>7

(* Where it was entered from.                                              *)
LEMMA TopLink ==
  ASSUME Shape, Linked, stack # <<>>
  PROVE  IF Len(stack) = 1 THEN First(Top) ELSE Above(stack[Len(stack) - 1], Top)
BY StackParts DEF Linked, Top

(* The innermost frame is left.                                            *)
LEMMA PopFrame ==
  ASSUME Shape, Linked, stack # <<>>, stack' = Rest
  PROVE  /\ stack' \in Seq(Frame)
         /\ Len(stack') = Len(stack) - 1
         /\ stack' # <<>> => Top' = stack[Len(stack) - 1]
         /\ Linked'
         /\ OpenScopes' = OpenScopes \ {Len(stack)}
         /\ OpenLogContexts' = OpenLogContexts \ {Len(stack)}
<1>1. /\ stack' \in Seq(Frame)
      /\ Len(stack) \in Nat \ {0}
      /\ Len(stack') = Len(stack) - 1
      /\ \A j \in 1..(Len(stack) - 1) : stack'[j] = stack[j]
  BY StackParts
<1>2. DOMAIN stack = 1..Len(stack) /\ DOMAIN stack' = 1..(Len(stack) - 1)
  BY <1>1, LenProperties DEF Shape
<1>3. Linked'
  <2>1. ASSUME NEW k \in 1..(Len(stack) - 1)
        PROVE  IF k = 1 THEN First(stack'[1]) ELSE Above(stack'[k - 1], stack'[k])
    <3>1. CASE k = 1
      BY <1>1, <3>1 DEF Linked
    <3>2. CASE k # 1
      <4>1. k - 1 \in 1..(Len(stack) - 1) /\ k \in 1..Len(stack)
        BY <1>1, <3>2
      <4>2. stack'[k - 1] = stack[k - 1] /\ stack'[k] = stack[k]
        BY <1>1, <4>1
      <4>3. Above(stack[k - 1], stack[k])
        BY <3>2, <4>1 DEF Linked
      <4>. QED BY <3>2, <4>2, <4>3
    <3>. QED  BY <3>1, <3>2
  <2>. QED  BY <1>1, <2>1 DEF Linked
<1>4. stack' # <<>> => Top' = stack[Len(stack) - 1]
  BY <1>1, EmptySeq DEF Top
<1>. QED  BY <1>1, <1>2, <1>3, <1>4 DEF OpenScopes, OpenLogContexts

(* The innermost frame goes on as one entered from the same place.         *)
LEMMA ReplaceFrame ==
  ASSUME Shape, Linked, stack # <<>>,
         NEW f \in Frame, f.kind = Top.kind, f.chain = Top.chain,
         f.kind = "steps" => f.taken = Top.taken,
         stack' = Append(Rest, f)
  PROVE  /\ stack' \in Seq(Frame)
         /\ stack' # <<>> /\ Top' = f
         /\ Linked'
         /\ OpenScopes' = (OpenScopes \ {Len(stack)})
                            \cup {k \in {Len(stack)} : InScope(f)}
         /\ OpenLogContexts' = (OpenLogContexts \ {Len(stack)})
                            \cup {k \in {Len(stack)} : Tagging(f)}
<1>1. /\ stack' \in Seq(Frame)
      /\ stack' # <<>>
      /\ Len(stack) \in Nat \ {0}
      /\ Len(stack') = Len(stack)
      /\ \A j \in 1..(Len(stack) - 1) : stack'[j] = stack[j]
      /\ stack'[Len(stack)] = f
  BY StackParts, AppendProperties
<1>2. DOMAIN stack = 1..Len(stack) /\ DOMAIN stack' = 1..Len(stack)
  BY <1>1, LenProperties DEF Shape
<1>3. IF Len(stack) = 1 THEN First(f) ELSE Above(stack[Len(stack) - 1], f)
  BY TopLink DEF First, Above
<1>4. Linked'
  BY <1>1, <1>3 DEF Linked
<1>. QED  BY <1>1, <1>2, <1>4 DEF OpenScopes, OpenLogContexts, Top

(* Where the frames are when the innermost one goes on as f and enters g.  *)
LEMMA NestPlaces ==
  ASSUME Shape, stack # <<>>, NEW f \in Frame, NEW g \in Frame,
         stack' = Rest \o <<f, g>>
  PROVE  /\ stack' \in Seq(Frame)
         /\ Len(stack) \in Nat \ {0}
         /\ Len(stack') = Len(stack) + 1
         /\ \A j \in 1..(Len(stack) - 1) : stack'[j] = stack[j]
         /\ stack'[Len(stack)] = f
         /\ stack'[Len(stack) + 1] = g
<1>0. <<f, g>> \in Seq(Frame) /\ Len(<<f, g>>) = 2
  OBVIOUS
<1>1. /\ stack' \in Seq(Frame)
      /\ Len(stack') = Len(Rest) + 2
      /\ \A j \in 1..(Len(Rest) + 2) :
           stack'[j] = IF j <= Len(Rest) THEN Rest[j] ELSE <<f, g>>[j - Len(Rest)]
  BY <1>0, StackParts, ConcatProperties
<1>2. PICK n \in Nat : Len(Rest) = n /\ Len(stack) = n + 1
  BY StackParts
<1>3. stack' \in Seq(Frame) /\ Len(stack') = n + 2
  BY <1>1, <1>2
<1>4. \A j \in 1..n : stack'[j] = stack[j]
  BY <1>1, <1>2, StackParts
<1>5. stack'[n + 1] = f /\ stack'[n + 2] = g
  <2>1. /\ n + 1 \in 1..(n + 2) /\ ~ n + 1 <= n /\ (n + 1) - n = 1
        /\ n + 2 \in 1..(n + 2) /\ ~ n + 2 <= n /\ (n + 2) - n = 2
    BY <1>2
  <2>2. stack'[n + 1] = <<f, g>>[1] /\ stack'[n + 2] = <<f, g>>[2]
    BY <1>1, <1>2, <2>1
  <2>. QED  BY <2>2
<1>. QED  BY <1>2, <1>3, <1>4, <1>5

(* The innermost frame goes on as f and enters g.                          *)
LEMMA NestFrame ==
  ASSUME Shape, Linked, stack # <<>>,
         NEW f \in Frame, f.kind = "call", Top.kind = "call", f.chain = Top.chain,
         NEW g \in StepsFrame, f.chain = g.taken \o g.chain,
         stack' = Rest \o <<f, g>>
  PROVE  /\ stack' \in Seq(Frame)
         /\ stack' # <<>> /\ Top' = g
         /\ Linked'
         /\ OpenScopes' = (OpenScopes \ {Len(stack)})
                            \cup {k \in {Len(stack)} : InScope(f)}
         /\ OpenLogContexts' = (OpenLogContexts \ {Len(stack)})
                            \cup {k \in {Len(stack)} : Tagging(f)}
<1>1. g \in Frame /\ g.kind = "steps"
  BY DEF Frame, StepsFrame
<1>2. /\ stack' \in Seq(Frame)
      /\ Len(stack) \in Nat \ {0}
      /\ Len(stack') = Len(stack) + 1
      /\ \A j \in 1..(Len(stack) - 1) : stack'[j] = stack[j]
      /\ stack'[Len(stack)] = f
      /\ stack'[Len(stack) + 1] = g
  BY <1>1, NestPlaces
<1>3. /\ DOMAIN stack = 1..Len(stack)
      /\ DOMAIN stack' = 1..(Len(stack) + 1)
      /\ stack' # <<>>
  BY <1>2, LenProperties, EmptySeq DEF Shape
<1>4. IF Len(stack) = 1 THEN First(f) ELSE Above(stack[Len(stack) - 1], f)
  BY TopLink DEF First, Above
<1>5. Above(f, g)
  BY <1>1 DEF Above
<1>6. Linked'
  <2>1. PICK n \in Nat \ {0} : Len(stack) = n
    BY <1>2
  <2>2. \A k \in 1..(n - 1) :
          IF k = 1 THEN First(stack'[1]) ELSE Above(stack'[k - 1], stack'[k])
    BY <1>2, <2>1 DEF Linked
  <2>3. IF n = 1 THEN First(stack'[1]) ELSE Above(stack'[n - 1], stack'[n])
    BY <1>2, <1>4, <2>1
  <2>4. Above(stack'[n], stack'[n + 1])
    BY <1>2, <1>5, <2>1
  <2>5. Len(stack') = n + 1
    BY <1>2, <2>1
  <2>6. ASSUME NEW k \in 1..(n + 1)
        PROVE  IF k = 1 THEN First(stack'[1]) ELSE Above(stack'[k - 1], stack'[k])
    <3>1. k \in 1..(n - 1) \/ k = n \/ k = n + 1
      BY <2>1
    <3>2. n + 1 # 1 /\ (n + 1) - 1 = n
      BY <2>1
    <3>. QED  BY <2>2, <2>3, <2>4, <3>1, <3>2
  <2>. QED  BY <2>5, <2>6 DEF Linked
<1>7. ~ InScope(g) /\ ~ Tagging(g)
  BY <1>1 DEF InScope, Tagging
<1>8. Top' = g
  BY <1>2 DEF Top
<1>9. /\ \A k \in DOMAIN stack' : InScope(stack'[k]) <=>
             \/ k \in OpenScopes \ {Len(stack)}
             \/ k = Len(stack) /\ InScope(f)
      /\ \A k \in DOMAIN stack' : Tagging(stack'[k]) <=>
             \/ k \in OpenLogContexts \ {Len(stack)}
             \/ k = Len(stack) /\ Tagging(f)
  <2>1. PICK n \in Nat \ {0} : Len(stack) = n
    BY <1>2
  <2>2. /\ DOMAIN stack = 1..n /\ DOMAIN stack' = 1..(n + 1)
        /\ \A j \in 1..(n - 1) : stack'[j] = stack[j]
        /\ stack'[n] = f /\ stack'[n + 1] = g
    BY <1>2, <1>3, <2>1
  <2>. QED  BY <1>7, <2>1, <2>2 DEF OpenScopes, OpenLogContexts
<1>. QED  BY <1>2, <1>3, <1>6, <1>8, <1>9 DEF OpenScopes, OpenLogContexts

(* The innermost frame, a block, calls the function of its step.           *)
LEMMA PushFrame ==
  ASSUME Shape, Linked, stack # <<>>, Top.kind = "steps",
         NEW f \in Frame, f.kind = "call", f.chain # <<>>, Top.chain = Tail(f.chain),
         ~ InScope(f), ~ Tagging(f),
         stack' = Append(stack, f)
  PROVE  /\ stack' \in Seq(Frame)
         /\ stack' # <<>> /\ Top' = f
         /\ Linked'
         /\ OpenScopes' = OpenScopes
         /\ OpenLogContexts' = OpenLogContexts
<1>1. /\ stack' \in Seq(Frame)
      /\ stack' # <<>>
      /\ Len(stack) \in Nat \ {0}
      /\ Len(stack') = Len(stack) + 1
      /\ \A j \in 1..Len(stack) : stack'[j] = stack[j]
      /\ stack'[Len(stack) + 1] = f
  BY StackParts, AppendProperties DEF Shape
<1>2. DOMAIN stack = 1..Len(stack) /\ DOMAIN stack' = 1..(Len(stack) + 1)
  BY <1>1, LenProperties DEF Shape
<1>3. Above(Top, f)
  BY DEF Above
<1>4. Linked'
  BY <1>1, <1>3 DEF Linked, Top
<1>. QED  BY <1>1, <1>2, <1>4 DEF OpenScopes, OpenLogContexts, Top

(* The frame of a block at its next step.                                  *)
LEMMA NextStep ==
  ASSUME NEW f \in StepsFrame
  PROVE  LET g == [f EXCEPT !.i = @ + 1]
         IN  g \in StepsFrame /\ g.chain = f.chain /\ g.taken = f.taken
BY DEF StepsFrame

-----------------------------------------------------------------------------
(* What the operators Compose is written with do to the structure.         *)

(* Scopes and log.contexts are calls of the stack, finitely many.          *)
LEMMA OpenCalls ==
  ASSUME Shape
  PROVE  /\ IsFiniteSet(OpenScopes) /\ IsFiniteSet(OpenLogContexts)
         /\ stack # <<>> => /\ Len(stack) \in OpenScopes <=> InScope(Top)
                            /\ Len(stack) \in OpenLogContexts <=> Tagging(Top)
<1>1. Len(stack) \in Nat /\ DOMAIN stack = 1..Len(stack)
  BY LenProperties DEF Shape
<1>2. IsFiniteSet(1..Len(stack))
  BY <1>1, FS_Interval
<1>3. OpenScopes \subseteq 1..Len(stack) /\ OpenLogContexts \subseteq 1..Len(stack)
  BY <1>1 DEF OpenScopes, OpenLogContexts
<1>4. IsFiniteSet(OpenScopes) /\ IsFiniteSet(OpenLogContexts)
  BY <1>2, <1>3, FS_Subset
<1>5. stack # <<>> => Len(stack) \in 1..Len(stack)
  BY StackParts
<1>. QED  BY <1>1, <1>4, <1>5 DEF OpenScopes, OpenLogContexts, Top

(* The frames told apart by kind.                                          *)
LEMMA FrameKinds ==
  ASSUME Shape, stack # <<>>
  PROVE  /\ Top.kind = "steps" => Top \in StepsFrame
         /\ Top.kind = "call" => Top \in ProperCall
         /\ Top.kind \in {"steps", "call"}
BY StackParts DEF Frame, ProperCall, StepsFrame, CallFrame

LEMMA ReplyTypes ==
  /\ "none" \notin Replies
  /\ "ok" \in Replies /\ Failures \subseteq Replies /\ Signals \subseteq Replies
BY DEF Replies, Failures, Signals

(* A block that ends puts back what its slot took out of the context.      *)
LEMMA LeaveBlockStep ==
  ASSUME Structure, stack # <<>>, Top.kind = "steps",
         NEW r \in Replies, NEW current, current = Top.chain,
         LeaveBlock(r, current), UNCHANGED <<prog, cancelled>>
  PROVE  Structure' /\ OpenScopes' = OpenScopes /\ OpenLogContexts' = OpenLogContexts
<1>1. Top \in StepsFrame
  BY FrameKinds DEF Structure
<1>2. /\ stack' = Rest
      /\ reply' \in Replies /\ reply' # "none"
      /\ handler' = Top.taken \o Top.chain
      /\ noticed' \in BOOLEAN
  BY ReplyTypes DEF LeaveBlock, Notice, Failures, Structure, Shape
<1>3. /\ stack' \in Seq(Frame)
      /\ Len(stack') = Len(stack) - 1
      /\ stack' # <<>> => Top' = stack[Len(stack) - 1]
      /\ Linked'
      /\ OpenScopes' = OpenScopes \ {Len(stack)}
      /\ OpenLogContexts' = OpenLogContexts \ {Len(stack)}
  BY <1>2, PopFrame DEF Structure
<1>4. handler' \in Chain
  BY <1>1, <1>2 DEF StepsFrame, Chain
<1>5. Shape'
  BY <1>2, <1>3, <1>4 DEF Structure, Shape
<1>6. Held'
  <2>1. CASE Len(stack) = 1
    <3>1. Top.chain = <<>> /\ Top.taken = <<>>
      BY <2>1, TopLink DEF Structure, First
    <3>2. Len(stack') = 0 /\ stack' = <<>>
      BY <1>3, <2>1, EmptySeq
    <3>. QED  BY <1>2, <3>1, <3>2 DEF Held
  <2>2. CASE Len(stack) # 1
    <3>1. Above(stack[Len(stack) - 1], Top)
      BY <2>2, TopLink DEF Structure
    <3>2. PICK n \in Nat \ {0} : Len(stack) = n
      BY StackParts DEF Structure
    <3>3. stack' # <<>>
      BY <1>3, <2>2, <3>2, EmptySeq
    <3>4. Top'.kind = "call" /\ Top'.chain = handler'
      BY <1>2, <1>3, <3>1, <3>3 DEF Above
    <3>. QED  BY <3>3, <3>4 DEF Held
  <2>. QED  BY <2>1, <2>2
<1>7. Len(stack) \notin OpenScopes /\ Len(stack) \notin OpenLogContexts
  BY OpenCalls DEF Structure, InScope, Tagging
<1>. QED  BY <1>3, <1>5, <1>6, <1>7 DEF Structure

(* A function that returns leaves the executors its call was made with.    *)
LEMMA FinishStep ==
  ASSUME Structure, stack # <<>>, Top.kind = "call", NEW r \in Replies,
         Finish(r), UNCHANGED <<prog, cancelled>>
  PROVE  /\ Structure'
         /\ OpenScopes' = OpenScopes \ {Len(stack)}
         /\ OpenLogContexts' = OpenLogContexts \ {Len(stack)}
<1>1. /\ stack' = Rest
      /\ reply' \in Replies /\ reply' # "none"
      /\ handler' = Top.chain
      /\ noticed' \in BOOLEAN
  BY ReplyTypes DEF Finish, Notice, Structure, Shape, Held
<1>2. /\ stack' \in Seq(Frame)
      /\ Len(stack') = Len(stack) - 1
      /\ stack' # <<>> => Top' = stack[Len(stack) - 1]
      /\ Linked'
      /\ OpenScopes' = OpenScopes \ {Len(stack)}
      /\ OpenLogContexts' = OpenLogContexts \ {Len(stack)}
  BY <1>1, PopFrame DEF Structure
<1>3. Shape'
  BY <1>1, <1>2 DEF Structure, Shape, Finish
<1>4. Held'
  <2>1. Len(stack) # 1 /\ Above(stack[Len(stack) - 1], Top)
    BY TopLink DEF Structure, First
  <2>2. PICK n \in Nat \ {0} : Len(stack) = n
    BY StackParts DEF Structure
  <2>3. stack' # <<>>
    BY <1>2, <2>1, <2>2, EmptySeq
  <2>4. Top'.kind = "steps" /\ handler' # <<>> /\ Top'.chain = Tail(handler')
    BY <1>1, <1>2, <2>1, <2>3 DEF Above
  <2>. QED  BY <1>1, <2>3, <2>4 DEF Held
<1>. QED  BY <1>2, <1>3, <1>4 DEF Structure

(* The open calls when the innermost call goes on in frame f.              *)
OpenIn(f) ==
  /\ OpenScopes' = (OpenScopes \ {Len(stack)}) \cup {k \in {Len(stack)} : InScope(f)}
  /\ OpenLogContexts' =
       (OpenLogContexts \ {Len(stack)}) \cup {k \in {Len(stack)} : Tagging(f)}

(* A call that goes on, perhaps with the reply of a slot that did not run. *)
LEMMA GoOnStep ==
  ASSUME Structure, stack # <<>>, Top.kind = "call",
         NEW f \in ProperCall, f.chain = Top.chain,
         stack' = Append(Rest, f), reply' \in Replies \cup {"none"},
         noticed' \in BOOLEAN, UNCHANGED <<prog, handler, cancelled>>
  PROVE  Structure' /\ OpenIn(f)
<1>1. f \in Frame /\ f.kind = "call"
  BY DEF Frame, ProperCall, CallFrame
<1>2. /\ stack' \in Seq(Frame) /\ stack' # <<>> /\ Top' = f
      /\ Linked' /\ OpenIn(f)
  BY <1>1, ReplaceFrame DEF Structure, OpenIn
<1>3. Shape'
  BY <1>2 DEF Structure, Shape
<1>4. Held'
  BY <1>1, <1>2 DEF Structure, Held
<1>. QED  BY <1>2, <1>3, <1>4 DEF Structure

(* A call that enters a block.                                             *)
LEMMA EnterBlockStep ==
  ASSUME Structure, stack # <<>>, Top.kind = "call",
         NEW f \in ProperCall, f.chain = Top.chain,
         NEW b \in Block, NEW taken \in Chain, NEW chain \in Chain,
         taken \o chain = handler,
         EnterBlock(f, b, taken, chain), UNCHANGED <<prog, cancelled>>
  PROVE  Structure' /\ OpenIn(f)
<1>. DEFINE g == [kind |-> "steps", block |-> b, i |-> 1,
                  taken |-> taken, chain |-> chain]
            h == [f EXCEPT !.ran = TRUE]
<1>1. /\ h \in ProperCall /\ h.kind = "call" /\ h.chain = f.chain
      /\ InScope(h) <=> InScope(f)
      /\ Tagging(h) <=> Tagging(f)
  BY DEF ProperCall, CallFrame, InScope, Tagging
<1>2. g \in StepsFrame /\ g.kind = "steps" /\ g.taken = taken /\ g.chain = chain
  BY DEF StepsFrame
<1>3. stack' = Rest \o <<h, g>> /\ handler' = chain /\ reply' = "none"
      /\ noticed' = noticed
  BY DEF EnterBlock
<1>. HIDE DEF g, h
<1>4. h \in Frame /\ h.chain = Top.chain /\ h.chain = g.taken \o g.chain
  BY <1>1, <1>2 DEF Structure, Held, Frame
<1>5. /\ stack' \in Seq(Frame) /\ stack' # <<>> /\ Top' = g
      /\ Linked' /\ OpenIn(h)
  BY <1>1, <1>2, <1>3, <1>4, NestFrame DEF Structure, OpenIn
<1>6. Shape'
  BY <1>3, <1>5 DEF Structure, Shape
<1>7. Held'
  BY <1>2, <1>3, <1>5 DEF Held
<1>8. OpenIn(f)
  BY <1>1, <1>5 DEF OpenIn
<1>. QED  BY <1>5, <1>6, <1>7, <1>8 DEF Structure

(* A chain is what its owner's part and its rest are put together.         *)
LEMMA ChainSplit ==
  ASSUME NEW chain \in Chain, NEW k \in DOMAIN chain
  PROVE  /\ chain[k] \in SlotMap
         /\ SubSeq(chain, 1, k) \in Chain
         /\ SubSeq(chain, k + 1, Len(chain)) \in Chain
         /\ SubSeq(chain, 1, k) \o SubSeq(chain, k + 1, Len(chain)) = chain
<1>1. /\ chain \in Seq(SlotMap) /\ Len(chain) \in Nat /\ DOMAIN chain = 1..Len(chain)
      /\ \A j \in 1..Len(chain) : chain[j] \in SlotMap
  BY LenProperties, ElementOfSeq DEF Chain
<1>2. PICK n \in Nat : Len(chain) = n
  BY <1>1
<1>3. /\ k \in 1..n /\ 1 \in 1..(n + 1) /\ k \in (1 - 1)..n /\ n \in k..n
      /\ \A j \in 1..k : chain[j] \in SlotMap
      /\ \A j \in (k + 1)..n : chain[j] \in SlotMap
  BY <1>1, <1>2
<1>4. SubSeq(chain, 1, k) \in Chain /\ SubSeq(chain, k + 1, n) \in Chain
  BY <1>2, <1>3, SubSeqProperties DEF Chain
<1>5. SubSeq(chain, 1, k) \o SubSeq(chain, k + 1, n) = SubSeq(chain, 1, n)
  BY <1>1, <1>2, <1>3, ConcatAdjacentSubSeq
<1>6. SubSeq(chain, 1, n) = chain
  BY <1>1, <1>2, SubSeqFull
<1>. QED  BY <1>1, <1>2, <1>3, <1>4, <1>5, <1>6

(* A call that runs a slot.                                                *)
LEMMA RunSlotStep ==
  ASSUME Structure, stack # <<>>, Top.kind = "call", NEW name,
         NEW f \in ProperCall, f.chain = Top.chain,
         RunSlot(name, f), UNCHANGED <<prog, cancelled>>
  PROVE  Structure' /\ OpenIn(f)
<1>. DEFINE h == [f EXCEPT !.ran = FALSE]
<1>1. /\ h \in ProperCall /\ h.chain = f.chain
      /\ InScope(h) <=> InScope(f)
      /\ Tagging(h) <=> Tagging(f)
  BY DEF ProperCall, CallFrame, InScope, Tagging
<1>2. CASE /\ stack' = Append(Rest, h)
           /\ reply' \in Failures /\ noticed' \in BOOLEAN /\ UNCHANGED handler
  <2>. HIDE DEF h
  <2>1. Structure' /\ OpenIn(h)
    BY <1>1, <1>2, GoOnStep, ReplyTypes
  <2>. QED  BY <1>1, <2>1 DEF OpenIn
<1>3. CASE \E k \in DOMAIN handler :
             /\ Owns(handler, k, name)
             /\ EnterBlock(f, SlotSteps(handler[k], name),
                           SubSeq(handler, 1, k),
                           SubSeq(handler, k + 1, Len(handler)))
  <2>1. PICK k \in DOMAIN handler :
             /\ Owns(handler, k, name)
             /\ EnterBlock(f, SlotSteps(handler[k], name),
                           SubSeq(handler, 1, k),
                           SubSeq(handler, k + 1, Len(handler)))
    BY <1>3
  <2>2. /\ handler[k] \in SlotMap
        /\ SubSeq(handler, 1, k) \in Chain
        /\ SubSeq(handler, k + 1, Len(handler)) \in Chain
        /\ SubSeq(handler, 1, k) \o SubSeq(handler, k + 1, Len(handler)) = handler
    BY ChainSplit DEF Structure, Shape
  <2>3. SlotSteps(handler[k], name) \in Block
    BY <2>1, <2>2, SlotStepsType DEF Owns
  <2>. QED  BY <2>1, <2>2, <2>3, EnterBlockStep
<1>4. noticed \in BOOLEAN
  BY DEF Structure, Shape
<1>. QED  BY <1>2, <1>3, <1>4 DEF RunSlot, Notice, Failures

-----------------------------------------------------------------------------
(* Steps of functions other than log.context and registry/scope.           *)

Ordinary(f) == f.step.call \notin {"log_context", "scope"}

(* The counters, when no log.context and no scope begins or ends.          *)
LEMMA QuietCounters ==
  ASSUME IInv, stack # <<>>, UNCHANGED <<tags, scopes>>,
         OpenScopes' = OpenScopes, OpenLogContexts' \subseteq OpenLogContexts
  PROVE  Counters'
<1>1. IsFiniteSet(OpenLogContexts)
  BY OpenCalls DEF IInv, Structure
<1>2. /\ Cardinality(OpenLogContexts) \in Nat
      /\ Cardinality(OpenLogContexts') \in Nat
      /\ Cardinality(OpenLogContexts') <= Cardinality(OpenLogContexts)
  BY <1>1, FS_Subset, FS_CardinalityType
<1>. QED  BY <1>2 DEF IInv, Counters, ScopeBalance, TagsKept

LEMMA QuietReturn ==
  ASSUME IInv, stack # <<>>, Top.kind = "call", ~ InScope(Top), NEW r \in Replies,
         Finish(r), UNCHANGED <<prog, tags, scopes, cancelled>>
  PROVE  IInv'
<1>1. /\ Structure'
      /\ OpenScopes' = OpenScopes \ {Len(stack)}
      /\ OpenLogContexts' = OpenLogContexts \ {Len(stack)}
  BY FinishStep DEF IInv
<1>2. Len(stack) \notin OpenScopes
  BY OpenCalls DEF IInv, Structure
<1>. QED  BY <1>1, <1>2, QuietCounters DEF IInv

LEMMA QuietGoOn ==
  ASSUME IInv, stack # <<>>, Top.kind = "call",
         NEW f \in ProperCall, f.chain = Top.chain,
         ~ InScope(Top), ~ InScope(f), Tagging(f) => Tagging(Top),
         Structure', OpenIn(f), UNCHANGED <<tags, scopes>>
  PROVE  IInv'
<1>1. /\ Len(stack) \notin OpenScopes
      /\ Tagging(f) => Len(stack) \in OpenLogContexts
  BY OpenCalls DEF IInv, Structure
<1>2. OpenScopes' = OpenScopes /\ OpenLogContexts' \subseteq OpenLogContexts
  BY <1>1 DEF OpenIn
<1>. QED  BY <1>2, QuietCounters DEF IInv

LEMMA OrdinaryReturn ==
  ASSUME IInv, stack # <<>>, Top.kind = "call", Ordinary(Top), NEW r \in Replies,
         Finish(r), UNCHANGED <<prog, tags, scopes, cancelled>>
  PROVE  IInv'
BY QuietReturn DEF Ordinary, InScope

LEMMA OrdinaryGoOn ==
  ASSUME IInv, stack # <<>>, Top.kind = "call", Ordinary(Top),
         NEW f \in CallFrame, f.step = Top.step, f.chain = Top.chain,
         Become(f), UNCHANGED <<prog, handler, tags, scopes, cancelled, noticed>>
  PROVE  IInv'
<1>1. f \in ProperCall /\ ~ InScope(Top) /\ ~ InScope(f) /\ ~ Tagging(f)
  BY DEF Ordinary, InScope, Tagging, ProperCall
<1>2. Structure' /\ OpenIn(f)
  BY <1>1, GoOnStep DEF IInv, Structure, Shape, Become
<1>. QED  BY <1>1, <1>2, QuietGoOn

LEMMA OrdinaryRunSlot ==
  ASSUME IInv, stack # <<>>, Top.kind = "call", Ordinary(Top), NEW name,
         NEW f \in CallFrame, f.step = Top.step, f.chain = Top.chain,
         RunSlot(name, f), UNCHANGED <<prog, tags, scopes, cancelled>>
  PROVE  IInv'
<1>1. f \in ProperCall /\ ~ InScope(Top) /\ ~ InScope(f) /\ ~ Tagging(f)
  BY DEF Ordinary, InScope, Tagging, ProperCall
<1>2. Structure' /\ OpenIn(f)
  BY <1>1, RunSlotStep DEF IInv
<1>. QED  BY <1>1, <1>2, QuietGoOn

(* The frames in which functions go on.                                    *)
LEMMA Frames ==
  ASSUME NEW c \in CallFrame, NEW pc \in Labels, NEW n \in Nat, NEW r \in Replies
  PROVE  /\ LET f == [c EXCEPT !.pc = pc]
            IN  f \in CallFrame /\ f.step = c.step /\ f.chain = c.chain
         /\ LET f == [c EXCEPT !.pc = pc, !.n = n]
            IN  f \in CallFrame /\ f.step = c.step /\ f.chain = c.chain
         /\ LET f == [c EXCEPT !.pc = pc, !.limit = n]
            IN  f \in CallFrame /\ f.step = c.step /\ f.chain = c.chain
         /\ LET f == [c EXCEPT !.pc = pc, !.pending = r]
            IN  f \in CallFrame /\ f.step = c.step /\ f.chain = c.chain
BY DEF CallFrame

-----------------------------------------------------------------------------
(* The invariant holds initially and is kept by every step.                *)

THEOREM InitInvariant ==
  ASSUME Init
  PROVE  IInv
<1>. DEFINE f == [kind |-> "steps", block |-> Main, i |-> 1,
                  taken |-> <<>>, chain |-> <<>>]
<1>1. f \in StepsFrame /\ f.kind = "steps" /\ f.chain = <<>> /\ f.taken = <<>>
  BY BoundsAssumption DEF StepsFrame, Chain
<1>2. stack = <<f>> /\ reply = "none" /\ handler = <<>>
  BY DEF Init
<1>. HIDE DEF f
<1>3. stack \in Seq(Frame) /\ Len(stack) = 1 /\ stack[1] = f /\ stack # <<>>
  BY <1>1, <1>2 DEF Frame
<1>4. Shape
  <2>1. prog \in [Block -> Seq(Step)] /\ cancelled = FALSE /\ noticed = FALSE
    BY ProgramsAssumption DEF Init
  <2>2. handler \in Chain
    BY <1>2 DEF Chain
  <2>. QED  BY <1>2, <1>3, <2>1, <2>2 DEF Shape
<1>5. Top = f
  BY <1>3 DEF Top
<1>6. Linked
  BY <1>1, <1>3 DEF Linked, First
<1>7. Held
  BY <1>1, <1>2, <1>3, <1>5 DEF Held
<1>8. OpenScopes = {} /\ OpenLogContexts = {}
  BY <1>1, <1>3 DEF OpenScopes, OpenLogContexts, InScope, Tagging
<1>9. Counters
  BY <1>8, FS_EmptySet DEF Init, Counters, ScopeBalance, TagsKept
<1>. QED  BY <1>4, <1>6, <1>7, <1>9 DEF IInv, Structure

(* The call that run_steps begins.                                         *)
LEMMA CallBegun ==
  ASSUME Structure, BeginStep
  PROVE  \E f \in ProperCall :
           /\ stack' = Append(stack, f) /\ handler' = f.chain
           /\ f.kind = "call" /\ f.step = prog[Top.block][Top.i]
           /\ f.pc = "enter" /\ f.n = 0 /\ f.limit = 0 /\ f.pending = "ok"
           /\ f.chain \in Chain /\ f.chain # <<>> /\ Tail(f.chain) = handler
           /\ Top.block \in Block /\ Top.i \in DOMAIN prog[Top.block]
<1>. DEFINE step == prog[Top.block][Top.i]
            head == NormalizeChildren(step)
            chain == <<head>> \o handler
            f == [kind |-> "call", step |-> step, pc |-> "enter", n |-> 0,
                  limit |-> 0, pending |-> "ok", ran |-> FALSE, chain |-> chain]
<1>1. /\ Top \in StepsFrame /\ Top.i <= Len(prog[Top.block])
      /\ prog \in [Block -> Seq(Step)] /\ handler \in Chain
  BY FrameKinds DEF BeginStep, Structure, Shape
<1>2. /\ Top.block \in Block /\ prog[Top.block] \in Seq(Step)
      /\ Top.i \in 1..Len(prog[Top.block])
  BY <1>1 DEF StepsFrame
<1>3. step \in Step /\ Top.i \in DOMAIN prog[Top.block]
  BY <1>2, ElementOfSeq, LenProperties
<1>4. head \in SlotMap
  BY <1>3, NormalizeChildrenType
<1>5. stack' = Append(stack, f) /\ handler' = chain
  BY DEF BeginStep
<1>. HIDE DEF step, head
<1>6. chain \in Chain /\ chain # <<>> /\ Tail(chain) = handler
  BY <1>1, <1>4 DEF Chain
<1>. HIDE DEF chain
<1>7. /\ f \in CallFrame /\ f.kind = "call" /\ f.step = step
      /\ f.pc = "enter" /\ f.n = 0 /\ f.limit = 0 /\ f.pending = "ok"
      /\ f.chain = chain
  BY <1>3, <1>6 DEF CallFrame, Replies, Labels
<1>. HIDE DEF f
<1>8. f \in ProperCall
  BY <1>7 DEF ProperCall
<1>. QED  BY <1>2, <1>3, <1>5, <1>6, <1>7, <1>8 DEF step

LEMMA EngineStep ==
  ASSUME IInv, Engine
  PROVE  IInv'
<1>. USE ReplyTypes
<1>0. /\ Structure /\ Shape /\ handler \in Chain
      /\ stack # <<>> /\ Top.kind = "steps" => Top \in StepsFrame /\ Top.chain \in Chain
      /\ stack # <<>> /\ Top.kind = "call" => Top \in CallFrame /\ Top \in ProperCall
  BY FrameKinds DEF IInv, Structure, Shape, StepsFrame, ProperCall
<1>1. CASE BeginStep
  <2>1. PICK f \in ProperCall :
           /\ stack' = Append(stack, f) /\ handler' = f.chain
           /\ f.kind = "call" /\ f.pc = "enter" /\ f.n = 0
           /\ f.chain \in Chain /\ f.chain # <<>> /\ Tail(f.chain) = handler
    BY <1>0, <1>1, CallBegun
  <2>2. f \in Frame /\ Top.chain = Tail(f.chain) /\ ~ InScope(f) /\ ~ Tagging(f)
    <3>1. Top.chain = handler
      BY <1>0, <1>1 DEF BeginStep, Structure, Held
    <3>2. ~ InScope(f) /\ ~ Tagging(f)
      BY <2>1 DEF InScope, Tagging
    <3>. QED  BY <2>1, <3>1, <3>2 DEF Frame
  <2>3. /\ stack' \in Seq(Frame) /\ stack' # <<>> /\ Top' = f /\ Linked'
        /\ OpenScopes' = OpenScopes /\ OpenLogContexts' = OpenLogContexts
    BY <1>0, <1>1, <2>1, <2>2, PushFrame DEF BeginStep, Structure
  <2>4. Shape'
    BY <1>0, <1>1, <2>1, <2>3 DEF BeginStep, Shape
  <2>5. Held'
    BY <2>1, <2>3 DEF Held
  <2>. QED  BY <1>1, <2>3, <2>4, <2>5, QuietCounters DEF IInv, Structure, BeginStep
<1>2. CASE StepCancelled
  <2>1. Structure' /\ OpenScopes' = OpenScopes /\ OpenLogContexts' = OpenLogContexts
    BY <1>0, <1>2, LeaveBlockStep DEF StepCancelled, Structure, Held, Failures
  <2>. QED  BY <1>2, <2>1, QuietCounters DEF StepCancelled, IInv
<1>3. CASE EndBlock
  <2>1. Structure' /\ OpenScopes' = OpenScopes /\ OpenLogContexts' = OpenLogContexts
    BY <1>0, <1>3, LeaveBlockStep DEF EndBlock, Structure, Held
  <2>. QED  BY <1>3, <2>1, QuietCounters DEF EndBlock, IInv
<1>4. CASE StepReturns
  <2>1. stack # <<>> /\ Top.kind = "steps" /\ reply # "none" /\ reply \in Replies
    BY <1>0, <1>4 DEF StepReturns, Shape
  <2>2. Unwrapped = Top.chain
    BY <1>0, <2>1 DEF Unwrapped, Structure, Held
  <2>3. CASE reply # "ok"
    <3>1. Structure' /\ OpenScopes' = OpenScopes /\ OpenLogContexts' = OpenLogContexts
      BY <1>0, <1>4, <2>1, <2>2, <2>3, LeaveBlockStep DEF StepReturns
    <3>. QED  BY <1>4, <3>1, QuietCounters DEF StepReturns, IInv
  <2>4. CASE reply = "ok"
    <3>. DEFINE g == [Top EXCEPT !.i = @ + 1]
    <3>1. g \in StepsFrame /\ g.chain = Top.chain /\ g.taken = Top.taken /\ g.kind = "steps"
      BY <1>0, <2>1, NextStep DEF StepsFrame
    <3>2. stack' = Append(Rest, g) /\ reply' = "none" /\ handler' = Top.chain
      BY <1>4, <2>2, <2>4 DEF StepReturns, Become
    <3>. HIDE DEF g
    <3>3. g \in Frame /\ ~ InScope(g) /\ ~ Tagging(g)
      BY <3>1 DEF Frame, InScope, Tagging
    <3>4. /\ stack' \in Seq(Frame) /\ stack' # <<>> /\ Top' = g /\ Linked'
          /\ OpenScopes' = (OpenScopes \ {Len(stack)})
          /\ OpenLogContexts' = (OpenLogContexts \ {Len(stack)})
      BY <1>0, <2>1, <3>1, <3>2, <3>3, ReplaceFrame DEF Structure
    <3>5. Len(stack) \notin OpenScopes /\ Len(stack) \notin OpenLogContexts
      BY <1>0, <2>1, OpenCalls DEF InScope, Tagging
    <3>6. Shape'
      BY <1>0, <1>4, <2>1, <2>4, <3>2, <3>4 DEF StepReturns, Shape, StepsFrame
    <3>7. Held'
      BY <3>1, <3>2, <3>4 DEF Held
    <3>. QED  BY <1>4, <2>1, <3>4, <3>5, <3>6, <3>7, QuietCounters
              DEF IInv, Structure, StepReturns
  <2>. QED  BY <2>3, <2>4
<1>5. CASE CallFunction
  <2>1. /\ stack # <<>> /\ Top.kind = "call" /\ ~ InScope(Top) /\ Top.pc = "enter"
        /\ UNCHANGED <<prog, tags, scopes, cancelled>>
    BY <1>5 DEF CallFunction, InScope
  <2>2. CASE Finish("cancelled") \/ Finish("error")
    BY <2>1, <2>2, QuietReturn DEF Failures
  <2>3. CASE Become([Top EXCEPT !.pc = "run"]) /\ UNCHANGED <<handler, noticed>>
    <3>. DEFINE f == [Top EXCEPT !.pc = "run"]
    <3>1. /\ f \in CallFrame /\ f.chain = Top.chain /\ f.step = Top.step
          /\ f.n = Top.n /\ f.pc = "run" /\ f.kind = Top.kind
      BY <1>0, <2>1 DEF CallFrame, Labels
    <3>2. f \in ProperCall /\ f.chain = Top.chain
      BY <1>0, <2>1, <3>1 DEF ProperCall
    <3>3. ~ InScope(f) /\ (Tagging(f) => Tagging(Top))
      BY <3>1 DEF InScope, Tagging
    <3>4. stack' = Append(Rest, f) /\ reply' = "none"
      BY <2>3 DEF Become
    <3>. HIDE DEF f
    <3>5. Structure' /\ OpenIn(f)
      BY <1>0, <2>1, <2>3, <3>2, <3>4, GoOnStep DEF Shape
    <3>. QED  BY <2>1, <3>2, <3>3, <3>5, QuietGoOn
  <2>. QED  BY <1>5, <2>2, <2>3 DEF CallFunction
<1>. QED  BY <1>1, <1>2, <1>3, <1>4, <1>5 DEF Engine

(* What every step of a function starts from.                              *)
LEMMA CallContext ==
  ASSUME IInv, stack # <<>>, Top.kind = "call"
  PROVE  Top \in CallFrame /\ Top \in ProperCall /\ (reply # "none" => reply \in Replies)
BY FrameKinds DEF IInv, Structure, Shape, ProperCall

LEMMA FlowStep ==
  ASSUME IInv, Flow
  PROVE  IInv'
<1>. USE ReplyTypes
<1>0. 1..MaxItems \subseteq Nat /\ 0..MaxIterations \subseteq Nat
  BY BoundsAssumption
<1>1. CASE Primitive
  <2>1. /\ stack # <<>> /\ Top.kind = "call" /\ Ordinary(Top)
        /\ UNCHANGED <<prog, tags, scopes, cancelled>>
    BY <1>1 DEF Primitive, Running, Ordinary
  <2>2. Top \in CallFrame /\ (reply # "none" => reply \in Replies)
    BY <2>1, CallContext
  <2>. QED  BY <1>1, <2>1, <2>2, OrdinaryReturn DEF Primitive, Running, Failures, Signals
<1>2. CASE FlowSignal
  <2>1. /\ stack # <<>> /\ Top.kind = "call" /\ Ordinary(Top)
        /\ UNCHANGED <<prog, tags, scopes, cancelled>>
    BY <1>2 DEF FlowSignal, Running, Ordinary, Signals
  <2>2. Top \in CallFrame /\ (reply # "none" => reply \in Replies)
    BY <2>1, CallContext
  <2>. QED  BY <1>2, <2>1, <2>2, OrdinaryReturn DEF FlowSignal, Running, Failures, Signals
<1>3. CASE FlowCheckAbort
  <2>1. /\ stack # <<>> /\ Top.kind = "call" /\ Ordinary(Top)
        /\ UNCHANGED <<prog, tags, scopes, cancelled>>
    BY <1>3 DEF FlowCheckAbort, Running, Ordinary
  <2>2. Top \in CallFrame /\ (reply # "none" => reply \in Replies)
    BY <2>1, CallContext
  <2>. QED  BY <1>3, <2>1, <2>2, OrdinaryReturn DEF FlowCheckAbort, Running, Failures, Signals
<1>4. CASE FlowIf
  <2>1. /\ stack # <<>> /\ Top.kind = "call" /\ Ordinary(Top)
        /\ UNCHANGED <<prog, tags, scopes, cancelled>>
    BY <1>4 DEF FlowIf, Running, Ordinary
  <2>2. Top \in CallFrame /\ (reply # "none" => reply \in Replies)
    BY <2>1, CallContext
  <2>. DEFINE f == [Top EXCEPT !.pc = "branch"]
  <2>3. f \in CallFrame /\ f.step = Top.step /\ f.chain = Top.chain
    BY <2>2, Frames DEF Labels
  <2>4. PICK branch : RunSlot(branch, f)
    BY <1>4 DEF FlowIf
  <2>. HIDE DEF f
  <2>. QED  BY <2>1, <2>3, <2>4, OrdinaryRunSlot
<1>5. CASE IfReturns
  <2>1. /\ stack # <<>> /\ Top.kind = "call" /\ Ordinary(Top)
        /\ UNCHANGED <<prog, tags, scopes, cancelled>>
    BY <1>5 DEF IfReturns, Replied, Ordinary
  <2>2. Top \in CallFrame /\ (reply # "none" => reply \in Replies)
    BY <2>1, CallContext
  <2>. QED  BY <1>5, <2>1, <2>2, OrdinaryReturn DEF IfReturns, Replied, Failures, Signals
<1>6. CASE FlowTry
  <2>1. /\ stack # <<>> /\ Top.kind = "call" /\ Ordinary(Top)
        /\ UNCHANGED <<prog, tags, scopes, cancelled>>
    BY <1>6 DEF FlowTry, Running, Ordinary
  <2>2. Top \in CallFrame /\ (reply # "none" => reply \in Replies)
    BY <2>1, CallContext
  <2>. DEFINE f == [Top EXCEPT !.pc = "body"]
  <2>3. f \in CallFrame /\ f.step = Top.step /\ f.chain = Top.chain
    BY <2>2, Frames DEF Labels
  <2>4. RunSlot("children", f)
    BY <1>6 DEF FlowTry
  <2>. HIDE DEF f
  <2>. QED  BY <2>1, <2>3, <2>4, OrdinaryRunSlot
<1>7. CASE TrySignal
  <2>1. /\ stack # <<>> /\ Top.kind = "call" /\ Ordinary(Top)
        /\ UNCHANGED <<prog, tags, scopes, cancelled>>
    BY <1>7 DEF TrySignal, Replied, Ordinary
  <2>2. Top \in CallFrame /\ (reply # "none" => reply \in Replies)
    BY <2>1, CallContext
  <2>. QED  BY <1>7, <2>1, <2>2, OrdinaryReturn DEF TrySignal, Replied, Failures, Signals
<1>8. CASE TryCatch
  <2>1. /\ stack # <<>> /\ Top.kind = "call" /\ Ordinary(Top)
        /\ UNCHANGED <<prog, tags, scopes, cancelled>>
    BY <1>8 DEF TryCatch, Replied, Ordinary
  <2>2. Top \in CallFrame /\ (reply # "none" => reply \in Replies)
    BY <2>1, CallContext
  <2>. DEFINE f == [Top EXCEPT !.pc = "catch"]
  <2>3. f \in CallFrame /\ f.step = Top.step /\ f.chain = Top.chain
    BY <2>2, Frames DEF Labels
  <2>4. RunSlot("catch", f)
    BY <1>8 DEF TryCatch
  <2>. HIDE DEF f
  <2>. QED  BY <2>1, <2>3, <2>4, OrdinaryRunSlot
<1>9. CASE TryFinally
  <2>1. /\ stack # <<>> /\ Top.kind = "call" /\ Ordinary(Top)
        /\ UNCHANGED <<prog, tags, scopes, cancelled>>
    BY <1>9 DEF TryFinally, Replied, Ordinary
  <2>2. Top \in CallFrame /\ (reply # "none" => reply \in Replies)
    BY <2>1, CallContext
  <2>3. CASE \E r \in Replies : Finish(r)
    BY <2>1, <2>3, OrdinaryReturn
  <2>4. CASE RunSlot("finally", [Top EXCEPT !.pc = "finally", !.pending = reply])
    <3>. DEFINE f == [Top EXCEPT !.pc = "finally", !.pending = reply]
    <3>1. f \in CallFrame /\ f.step = Top.step /\ f.chain = Top.chain
      BY <1>9, <2>2, Frames DEF Labels, TryFinally, Replied
    <3>. HIDE DEF f
    <3>2. RunSlot("finally", f)
      BY <2>4 DEF f
    <3>. QED  BY <2>1, <3>1, <3>2, OrdinaryRunSlot
  <2>. QED  BY <1>9, <2>1, <2>2, <2>3, <2>4, <1>0 DEF TryFinally, Replied, Failures, Signals
<1>10. CASE TryReturns
  <2>1. /\ stack # <<>> /\ Top.kind = "call" /\ Ordinary(Top)
        /\ UNCHANGED <<prog, tags, scopes, cancelled>>
    BY <1>10 DEF TryReturns, Replied, Ordinary, CallFrame
  <2>2. Top \in CallFrame /\ (reply # "none" => reply \in Replies)
    BY <2>1, CallContext
  <2>3. Top.pending \in Replies
    BY <2>2 DEF CallFrame
  <2>. QED  BY <1>10, <2>1, <2>2, <2>3, OrdinaryReturn DEF TryReturns, Replied, Failures, Signals
<1>11. CASE FlowForeach
  <2>1. /\ stack # <<>> /\ Top.kind = "call" /\ Ordinary(Top)
        /\ UNCHANGED <<prog, tags, scopes, cancelled>>
    BY <1>11 DEF FlowForeach, Running, Ordinary
  <2>2. Top \in CallFrame /\ (reply # "none" => reply \in Replies)
    BY <2>1, CallContext
  <2>3. CASE \E r \in Replies : Finish(r)
    BY <2>1, <2>3, OrdinaryReturn
  <2>4. CASE RunSlot("else", [Top EXCEPT !.pc = "else"])
    <3>. DEFINE f == [Top EXCEPT !.pc = "else"]
    <3>1. f \in CallFrame /\ f.step = Top.step /\ f.chain = Top.chain
      BY <1>11, <2>2, Frames DEF Labels
    <3>. HIDE DEF f
    <3>2. RunSlot("else", f)
      BY <2>4 DEF f
    <3>. QED  BY <2>1, <3>1, <3>2, OrdinaryRunSlot
  <2>5. CASE /\ \E x \in Nat : Become([Top EXCEPT !.pc = "next", !.limit = x])
            /\ UNCHANGED <<handler, noticed>>
    <3>1. PICK x \in Nat : Become([Top EXCEPT !.pc = "next", !.limit = x])
      BY <2>5
    <3>. DEFINE f == [Top EXCEPT !.pc = "next", !.limit = x]
    <3>2. f \in CallFrame /\ f.step = Top.step /\ f.chain = Top.chain
      BY <2>2 DEF Labels, CallFrame
    <3>. HIDE DEF f
    <3>3. Become(f)
      BY <3>1 DEF f
    <3>. QED  BY <2>1, <2>5, <3>2, <3>3, OrdinaryGoOn
  <2>. QED  BY <1>11, <2>1, <2>2, <2>3, <2>4, <2>5, <1>0 DEF FlowForeach, Running, Failures, Signals
<1>12. CASE ForeachElseReturns
  <2>1. /\ stack # <<>> /\ Top.kind = "call" /\ Ordinary(Top)
        /\ UNCHANGED <<prog, tags, scopes, cancelled>>
    BY <1>12 DEF ForeachElseReturns, Replied, Ordinary
  <2>2. Top \in CallFrame /\ (reply # "none" => reply \in Replies)
    BY <2>1, CallContext
  <2>. QED  BY <1>12, <2>1, <2>2, OrdinaryReturn DEF ForeachElseReturns, Replied, Failures, Signals
<1>13. CASE ForeachItem
  <2>1. /\ stack # <<>> /\ Top.kind = "call" /\ Ordinary(Top)
        /\ UNCHANGED <<prog, tags, scopes, cancelled>>
    BY <1>13 DEF ForeachItem, Running, Ordinary
  <2>2. Top \in CallFrame /\ (reply # "none" => reply \in Replies)
    BY <2>1, CallContext
  <2>3. CASE \E r \in Replies : Finish(r)
    BY <2>1, <2>3, OrdinaryReturn
  <2>4. CASE RunSlot("body", [Top EXCEPT !.pc = "body"])
    <3>. DEFINE f == [Top EXCEPT !.pc = "body"]
    <3>1. f \in CallFrame /\ f.step = Top.step /\ f.chain = Top.chain
      BY <1>13, <2>2, Frames DEF Labels
    <3>. HIDE DEF f
    <3>2. RunSlot("body", f)
      BY <2>4 DEF f
    <3>. QED  BY <2>1, <3>1, <3>2, OrdinaryRunSlot
  <2>. QED  BY <1>13, <2>1, <2>2, <2>3, <2>4, <1>0 DEF ForeachItem, Running, Failures, Signals
<1>14. CASE ForeachBodyReturns
  <2>1. /\ stack # <<>> /\ Top.kind = "call" /\ Ordinary(Top)
        /\ UNCHANGED <<prog, tags, scopes, cancelled>>
    BY <1>14 DEF ForeachBodyReturns, Replied, Ordinary
  <2>2. Top \in CallFrame /\ (reply # "none" => reply \in Replies)
    BY <2>1, CallContext
  <2>3. CASE \E r \in Replies : Finish(r)
    BY <2>1, <2>3, OrdinaryReturn
  <2>4. CASE /\ Become([Top EXCEPT !.pc = "next", !.n = @ + 1])
            /\ UNCHANGED <<handler, noticed>>
    <3>. DEFINE m == Top.n + 1
                f == [Top EXCEPT !.pc = "next", !.n = m]
    <3>1. m \in Nat
      BY <2>2 DEF CallFrame
    <3>3. Become(f)
      BY <2>4
    <3>. HIDE DEF m
    <3>2. f \in CallFrame /\ f.step = Top.step /\ f.chain = Top.chain
      BY <2>2, <3>1 DEF Labels, CallFrame
    <3>. HIDE DEF f
    <3>. QED  BY <2>1, <2>4, <3>2, <3>3, OrdinaryGoOn
  <2>. QED  BY <1>14, <2>1, <2>2, <2>3, <2>4, <1>0 DEF ForeachBodyReturns, Replied, Failures, Signals
<1>15. CASE FlowWhile
  <2>1. /\ stack # <<>> /\ Top.kind = "call" /\ Ordinary(Top)
        /\ UNCHANGED <<prog, tags, scopes, cancelled>>
    BY <1>15 DEF FlowWhile, Running, Ordinary
  <2>2. Top \in CallFrame /\ (reply # "none" => reply \in Replies)
    BY <2>1, CallContext
  <2>3. CASE \E r \in Replies : Finish(r)
    BY <2>1, <2>3, OrdinaryReturn
  <2>4. CASE /\ \E x \in Nat : Become([Top EXCEPT !.pc = "test", !.limit = x])
            /\ UNCHANGED <<handler, noticed>>
    <3>1. PICK x \in Nat : Become([Top EXCEPT !.pc = "test", !.limit = x])
      BY <2>4
    <3>. DEFINE f == [Top EXCEPT !.pc = "test", !.limit = x]
    <3>2. f \in CallFrame /\ f.step = Top.step /\ f.chain = Top.chain
      BY <2>2 DEF Labels, CallFrame
    <3>. HIDE DEF f
    <3>3. Become(f)
      BY <3>1 DEF f
    <3>. QED  BY <2>1, <2>4, <3>2, <3>3, OrdinaryGoOn
  <2>. QED  BY <1>15, <2>1, <2>2, <2>3, <2>4, <1>0 DEF FlowWhile, Running, Failures, Signals
<1>16. CASE WhileTest
  <2>1. /\ stack # <<>> /\ Top.kind = "call" /\ Ordinary(Top)
        /\ UNCHANGED <<prog, tags, scopes, cancelled>>
    BY <1>16 DEF WhileTest, Running, Ordinary
  <2>2. Top \in CallFrame /\ (reply # "none" => reply \in Replies)
    BY <2>1, CallContext
  <2>3. CASE \E r \in Replies : Finish(r)
    BY <2>1, <2>3, OrdinaryReturn
  <2>4. CASE RunSlot("condition", [Top EXCEPT !.pc = "condition"])
    <3>. DEFINE f == [Top EXCEPT !.pc = "condition"]
    <3>1. f \in CallFrame /\ f.step = Top.step /\ f.chain = Top.chain
      BY <1>16, <2>2, Frames DEF Labels
    <3>. HIDE DEF f
    <3>2. RunSlot("condition", f)
      BY <2>4 DEF f
    <3>. QED  BY <2>1, <3>1, <3>2, OrdinaryRunSlot
  <2>. QED  BY <1>16, <2>1, <2>2, <2>3, <2>4, <1>0 DEF WhileTest, Running, Failures, Signals
<1>17. CASE WhileConditionReturns
  <2>1. /\ stack # <<>> /\ Top.kind = "call" /\ Ordinary(Top)
        /\ UNCHANGED <<prog, tags, scopes, cancelled>>
    BY <1>17 DEF WhileConditionReturns, Replied, Ordinary
  <2>2. Top \in CallFrame /\ (reply # "none" => reply \in Replies)
    BY <2>1, CallContext
  <2>3. CASE \E r \in Replies : Finish(r)
    BY <2>1, <2>3, OrdinaryReturn
  <2>4. CASE RunSlot("body", [Top EXCEPT !.pc = "body"])
    <3>. DEFINE f == [Top EXCEPT !.pc = "body"]
    <3>1. f \in CallFrame /\ f.step = Top.step /\ f.chain = Top.chain
      BY <1>17, <2>2, Frames DEF Labels
    <3>. HIDE DEF f
    <3>2. RunSlot("body", f)
      BY <2>4 DEF f
    <3>. QED  BY <2>1, <3>1, <3>2, OrdinaryRunSlot
  <2>5. CASE RunSlot("else", [Top EXCEPT !.pc = "else"])
    <3>. DEFINE f == [Top EXCEPT !.pc = "else"]
    <3>1. f \in CallFrame /\ f.step = Top.step /\ f.chain = Top.chain
      BY <1>17, <2>2, Frames DEF Labels
    <3>. HIDE DEF f
    <3>2. RunSlot("else", f)
      BY <2>5 DEF f
    <3>. QED  BY <2>1, <3>1, <3>2, OrdinaryRunSlot
  <2>. QED  BY <1>17, <2>1, <2>2, <2>3, <2>4, <2>5, <1>0 DEF WhileConditionReturns, Replied, Failures, Signals
<1>18. CASE WhileBodyReturns
  <2>1. /\ stack # <<>> /\ Top.kind = "call" /\ Ordinary(Top)
        /\ UNCHANGED <<prog, tags, scopes, cancelled>>
    BY <1>18 DEF WhileBodyReturns, Replied, Ordinary
  <2>2. Top \in CallFrame /\ (reply # "none" => reply \in Replies)
    BY <2>1, CallContext
  <2>3. CASE \E r \in Replies : Finish(r)
    BY <2>1, <2>3, OrdinaryReturn
  <2>4. CASE /\ Become([Top EXCEPT !.pc = "test", !.n = IF Top.limit = 0 THEN 1 ELSE @ + 1])
            /\ UNCHANGED <<handler, noticed>>
    <3>. DEFINE m == IF Top.limit = 0 THEN 1 ELSE Top.n + 1
                f == [Top EXCEPT !.pc = "test", !.n = m]
    <3>1. m \in Nat
      BY <2>2 DEF CallFrame
    <3>3. Become(f)
      BY <2>4
    <3>. HIDE DEF m
    <3>2. f \in CallFrame /\ f.step = Top.step /\ f.chain = Top.chain
      BY <2>2, <3>1 DEF Labels, CallFrame
    <3>. HIDE DEF f
    <3>. QED  BY <2>1, <2>4, <3>2, <3>3, OrdinaryGoOn
  <2>. QED  BY <1>18, <2>1, <2>2, <2>3, <2>4, <1>0 DEF WhileBodyReturns, Replied, Failures, Signals
<1>19. CASE WhileElseReturns
  <2>1. /\ stack # <<>> /\ Top.kind = "call" /\ Ordinary(Top)
        /\ UNCHANGED <<prog, tags, scopes, cancelled>>
    BY <1>19 DEF WhileElseReturns, Replied, Ordinary
  <2>2. Top \in CallFrame /\ (reply # "none" => reply \in Replies)
    BY <2>1, CallContext
  <2>. QED  BY <1>19, <2>1, <2>2, OrdinaryReturn DEF WhileElseReturns, Replied, Failures, Signals
<1>. QED  BY <1>1, <1>2, <1>3, <1>4, <1>5, <1>6, <1>7, <1>8, <1>9, <1>10, <1>11, <1>12, <1>13, <1>14, <1>15, <1>16, <1>17, <1>18, <1>19 DEF Flow

(* log.context and registry/scope: the counters follow the open calls.     *)
LEMMA CallCounts ==
  ASSUME Structure, stack # <<>>
  PROVE  /\ Cardinality(OpenScopes) \in Nat
         /\ Cardinality(OpenLogContexts) \in Nat
         /\ Cardinality(OpenScopes \ {Len(stack)}) =
              IF InScope(Top) THEN Cardinality(OpenScopes) - 1
              ELSE Cardinality(OpenScopes)
         /\ Cardinality(OpenLogContexts \ {Len(stack)}) =
              IF Tagging(Top) THEN Cardinality(OpenLogContexts) - 1
              ELSE Cardinality(OpenLogContexts)
         /\ Cardinality(OpenScopes \ {Len(stack)}) \in Nat
         /\ Cardinality(OpenLogContexts \ {Len(stack)}) \in Nat
         /\ Cardinality((OpenScopes \ {Len(stack)}) \cup {Len(stack)}) =
              Cardinality(OpenScopes \ {Len(stack)}) + 1
         /\ Cardinality((OpenLogContexts \ {Len(stack)}) \cup {Len(stack)}) =
              Cardinality(OpenLogContexts \ {Len(stack)}) + 1
<1>1. /\ IsFiniteSet(OpenScopes) /\ IsFiniteSet(OpenLogContexts)
      /\ Len(stack) \in OpenScopes <=> InScope(Top)
      /\ Len(stack) \in OpenLogContexts <=> Tagging(Top)
  BY OpenCalls DEF Structure
<1>2. /\ IsFiniteSet(OpenScopes \ {Len(stack)})
      /\ IsFiniteSet(OpenLogContexts \ {Len(stack)})
      /\ Cardinality(OpenScopes \ {Len(stack)}) =
              IF InScope(Top) THEN Cardinality(OpenScopes) - 1
              ELSE Cardinality(OpenScopes)
      /\ Cardinality(OpenLogContexts \ {Len(stack)}) =
              IF Tagging(Top) THEN Cardinality(OpenLogContexts) - 1
              ELSE Cardinality(OpenLogContexts)
  BY <1>1, FS_RemoveElement
<1>3. /\ Cardinality((OpenScopes \ {Len(stack)}) \cup {Len(stack)}) =
              Cardinality(OpenScopes \ {Len(stack)}) + 1
      /\ Cardinality((OpenLogContexts \ {Len(stack)}) \cup {Len(stack)}) =
              Cardinality(OpenLogContexts \ {Len(stack)}) + 1
  BY <1>2, FS_AddElement
<1>. QED  BY <1>1, <1>2, <1>3, FS_CardinalityType

LEMMA ContractStep ==
  ASSUME IInv, Contracts
  PROVE  IInv'
<1>. USE ReplyTypes
<1>1. CASE ComposeRunSlot
  <2>1. /\ stack # <<>> /\ Top.kind = "call" /\ Ordinary(Top)
        /\ UNCHANGED <<prog, tags, scopes, cancelled>>
    BY <1>1 DEF ComposeRunSlot, Running, Ordinary
  <2>2. CASE Finish("error")
    BY <2>1, <2>2, OrdinaryReturn DEF Failures
  <2>3. CASE RunSlot(Top.step.target, [Top EXCEPT !.pc = "slot"])
    <3>. DEFINE f == [Top EXCEPT !.pc = "slot"]
    <3>1. f \in CallFrame /\ f.step = Top.step /\ f.chain = Top.chain
      BY <2>1, CallContext, Frames DEF Labels
    <3>2. RunSlot(Top.step.target, f)
      BY <2>3
    <3>. HIDE DEF f
    <3>. QED  BY <2>1, <3>1, <3>2, OrdinaryRunSlot
  <2>. QED  BY <1>1, <2>2, <2>3 DEF ComposeRunSlot
<1>2. CASE ComposeRunSlotReturns
  BY <1>2, OrdinaryReturn DEF ComposeRunSlotReturns, Replied, Ordinary
<1>3. CASE Component
  <2>1. /\ stack # <<>> /\ Top.kind = "call" /\ ~ InScope(Top) /\ Ordinary(Top)
        /\ UNCHANGED <<prog, tags, scopes, cancelled>>
    BY <1>3 DEF Component, Running, InScope, Ordinary
  <2>. DEFINE f == [Top EXCEPT !.pc = "compose"]
  <2>2. f \in CallFrame /\ f.step = Top.step /\ f.chain = Top.chain
    BY <2>1, CallContext, Frames DEF Labels
  <2>3. EnterBlock(f, Top.step.body, <<>>, handler)
    BY <1>3 DEF Component
  <2>. HIDE DEF f
  <2>4. f \in ProperCall /\ ~ InScope(f) /\ ~ Tagging(f)
    BY <2>1, <2>2 DEF ProperCall, Ordinary, InScope, Tagging
  <2>5. Top.step.body \in Block
    BY <2>1, CallContext DEF CallFrame, Step
  <2>6. /\ <<>> \in Chain /\ handler \in Chain /\ <<>> \o handler = handler
        /\ Structure
    BY ConcatEmptySeq DEF IInv, Structure, Shape, Chain
  <2>7. Structure' /\ OpenIn(f)
    BY <2>1, <2>2, <2>3, <2>4, <2>5, <2>6, EnterBlockStep
  <2>. QED  BY <2>1, <2>2, <2>4, <2>7, QuietGoOn
<1>4. CASE ComponentReturns
  BY <1>4, CallContext, OrdinaryReturn DEF ComponentReturns, Replied, Ordinary
<1>5. CASE LogContext
  <2>1. /\ stack # <<>> /\ Top.kind = "call" /\ ~ InScope(Top)
        /\ UNCHANGED <<prog, scopes, cancelled>> /\ Structure
    BY <1>5 DEF LogContext, Running, InScope, IInv
  <2>2. CASE Finish("error") /\ UNCHANGED tags
    BY <2>1, <2>2, QuietReturn DEF Failures
  <2>3. CASE \E pushed \in {0, 1} :
               /\ tags' = tags + pushed
               /\ RunSlot("children", [Top EXCEPT !.pc = "children", !.n = pushed])
    <3>1. PICK pushed \in {0, 1} :
               /\ tags' = tags + pushed
               /\ RunSlot("children", [Top EXCEPT !.pc = "children", !.n = pushed])
      BY <2>3
    <3>. DEFINE f == [Top EXCEPT !.pc = "children", !.n = pushed]
    <3>. pushed \in Nat /\ Top \in CallFrame
      BY <2>1, CallContext
    <3>2. f \in CallFrame /\ f.step = Top.step /\ f.chain = Top.chain /\ f.n = pushed
      BY DEF CallFrame, Labels
    <3>3. RunSlot("children", f)
      BY <3>1
    <3>. HIDE DEF f
    <3>4. f \in ProperCall /\ ~ InScope(f) /\ (Tagging(f) => pushed = 1)
      BY <1>5, <3>2 DEF ProperCall, LogContext, Running, InScope, Tagging
    <3>5. Structure' /\ OpenIn(f)
      BY <2>1, <3>2, <3>3, <3>4, RunSlotStep
    <3>6. OpenScopes' = OpenScopes
      BY <2>1, <3>4, <3>5, OpenCalls DEF OpenIn, Structure
    <3>7. OpenLogContexts' = IF Tagging(f) THEN (OpenLogContexts \ {Len(stack)}) \cup {Len(stack)}
                             ELSE OpenLogContexts \ {Len(stack)}
      BY <3>5 DEF OpenIn
    <3>8. tags \in Nat /\ tags' = tags + pushed /\ Cardinality(OpenLogContexts) <= tags
      BY <3>1 DEF IInv, Counters, TagsKept
    <3>9. PICK c \in Nat, d \in Nat :
             /\ Cardinality(OpenLogContexts) = c
             /\ Cardinality(OpenLogContexts \ {Len(stack)}) = d /\ d <= c
             /\ Cardinality((OpenLogContexts \ {Len(stack)}) \cup {Len(stack)}) = d + 1
      BY <2>1, CallCounts
    <3>10. tags' \in Nat /\ Cardinality(OpenLogContexts') <= tags'
      BY <3>4, <3>7, <3>8, <3>9
    <3>. QED  BY <2>1, <3>5, <3>6, <3>10 DEF IInv, Counters, ScopeBalance, TagsKept
  <2>. QED  BY <1>5, <2>2, <2>3 DEF LogContext
<1>6. CASE LogContextReturns
  <2>1. /\ stack # <<>> /\ Top.kind = "call" /\ ~ InScope(Top) /\ reply # "none"
        /\ Finish(reply) /\ UNCHANGED <<prog, scopes, cancelled>> /\ Structure
        /\ tags' = IF reply = "ok" THEN tags - Top.n ELSE tags
    BY <1>6 DEF LogContextReturns, Replied, InScope, IInv
  <2>2. reply \in Replies /\ Top.n \in {0, 1} /\ (Tagging(Top) <=> Top.n = 1)
    BY <1>6, <2>1, CallContext DEF ProperCall, LogContextReturns, Replied, Tagging
  <2>3. /\ Structure'
        /\ OpenScopes' = OpenScopes \ {Len(stack)}
        /\ OpenLogContexts' = OpenLogContexts \ {Len(stack)}
    BY <2>1, <2>2, FinishStep
  <2>4. OpenScopes' = OpenScopes
    BY <2>1, <2>3, OpenCalls DEF Structure
  <2>5. tags \in Nat /\ Cardinality(OpenLogContexts) <= tags
    BY DEF IInv, Counters, TagsKept
  <2>6. PICK c \in Nat, d \in Nat :
           /\ Cardinality(OpenLogContexts) = c
           /\ Cardinality(OpenLogContexts \ {Len(stack)}) = d
           /\ d = IF Tagging(Top) THEN c - 1 ELSE c
    BY <2>1, CallCounts
  <2>7. tags' \in Nat /\ Cardinality(OpenLogContexts') <= tags'
    BY <2>1, <2>2, <2>3, <2>5, <2>6
  <2>. QED  BY <2>1, <2>3, <2>4, <2>7 DEF IInv, Counters, ScopeBalance, TagsKept
<1>7. CASE RegistryScope
  <2>1. /\ stack # <<>> /\ Top.kind = "call" /\ ~ InScope(Top) /\ ~ Tagging(Top)
        /\ UNCHANGED <<prog, tags, cancelled>> /\ Structure
    BY <1>7 DEF RegistryScope, Running, InScope, Tagging, IInv
  <2>2. CASE Finish("error") /\ UNCHANGED scopes
    BY <2>1, <2>2, QuietReturn DEF Failures
  <2>3. CASE /\ scopes' = scopes + 1
             /\ RunSlot("children", [Top EXCEPT !.pc = "children"])
    <3>. DEFINE f == [Top EXCEPT !.pc = "children"]
    <3>1. /\ f \in CallFrame /\ f.step = Top.step /\ f.chain = Top.chain
          /\ f.pc = "children" /\ f.kind = "call"
      BY <2>1, CallContext DEF CallFrame, Labels
    <3>2. RunSlot("children", f)
      BY <2>3
    <3>. HIDE DEF f
    <3>3. f \in ProperCall /\ InScope(f) /\ ~ Tagging(f)
      BY <1>7, <3>1 DEF ProperCall, RegistryScope, Running, InScope, Tagging
    <3>4. Structure' /\ OpenIn(f)
      BY <2>1, <3>1, <3>2, <3>3, RunSlotStep
    <3>5. /\ OpenScopes' = (OpenScopes \ {Len(stack)}) \cup {Len(stack)}
          /\ OpenLogContexts' = OpenLogContexts
      BY <2>1, <3>3, <3>4, OpenCalls DEF OpenIn, Structure
    <3>6. /\ Cardinality(OpenScopes') = Cardinality(OpenScopes) + 1
          /\ Cardinality(OpenScopes) \in Nat
      BY <2>1, <3>5, CallCounts
    <3>. QED  BY <2>1, <2>3, <3>4, <3>5, <3>6 DEF IInv, Counters, ScopeBalance, TagsKept
  <2>. QED  BY <1>7, <2>2, <2>3 DEF RegistryScope
<1>8. CASE RegistryScopeReturns
  <2>1. /\ stack # <<>> /\ Top.kind = "call" /\ InScope(Top) /\ ~ Tagging(Top)
        /\ reply # "none" /\ Finish(reply) /\ scopes' = scopes - 1
        /\ UNCHANGED <<prog, tags, cancelled>> /\ Structure
    BY <1>8 DEF RegistryScopeReturns, Replied, InScope, Tagging, IInv
  <2>2. /\ Structure'
        /\ OpenScopes' = OpenScopes \ {Len(stack)}
        /\ OpenLogContexts' = OpenLogContexts \ {Len(stack)}
    BY <2>1, CallContext, FinishStep
  <2>3. OpenLogContexts' = OpenLogContexts
    BY <2>1, <2>2, OpenCalls DEF Structure
  <2>4. /\ Cardinality(OpenScopes') = Cardinality(OpenScopes) - 1
        /\ Cardinality(OpenScopes') \in Nat
    BY <2>1, <2>2, CallCounts
  <2>. QED  BY <2>1, <2>2, <2>3, <2>4 DEF IInv, Counters, ScopeBalance, TagsKept
<1>. QED  BY <1>1, <1>2, <1>3, <1>4, <1>5, <1>6, <1>7, <1>8 DEF Contracts

LEMMA NextInvariant ==
  ASSUME IInv, [Next]_vars
  PROVE  IInv'
<1>1. CASE Engine
  BY <1>1, EngineStep
<1>2. CASE Flow
  BY <1>2, FlowStep
<1>3. CASE Contracts
  BY <1>3, ContractStep
<1>4. CASE Cancel
  BY <1>4 DEF Cancel, IInv, Structure, Shape, Linked, Held, Counters, ScopeBalance,
     TagsKept, OpenScopes, OpenLogContexts, Top
<1>5. CASE UNCHANGED vars
  BY <1>5 DEF vars, IInv, Structure, Shape, Linked, Held, Counters, ScopeBalance,
     TagsKept, OpenScopes, OpenLogContexts, Top
<1>. QED  BY <1>1, <1>2, <1>3, <1>4, <1>5 DEF Next, Run, Terminating

(* The invariant holds in every reachable state of every program.          *)
THEOREM Invariance == Spec => []IInv
<1>1. Init => IInv
  BY InitInvariant
<1>2. IInv /\ [Next]_vars => IInv'
  BY NextInvariant
<1>. QED  BY <1>1, <1>2, PTL DEF Spec

(* The state is well typed: in particular tags and scopes, which log.context *)
(* and registry/scope pop, never go below zero.                            *)
THEOREM TypeCorrect == Spec => []TypeOK
<1>1. IInv => TypeOK
  <2>1. Frame \subseteq StepsFrame \cup CallFrame
    BY DEF Frame, ProperCall
  <2>2. Seq(Frame) \subseteq Seq(StepsFrame \cup CallFrame)
    BY <2>1, SeqMonotonic
  <2>. QED  BY <2>2 DEF IInv, Structure, Shape, Counters, TypeOK
<1>. QED  BY <1>1, Invariance, PTL

(* Slot executors are put back on every path: a call finds the executors   *)
(* its frame was entered with, and the end of a run leaves none.           *)
THEOREM SlotsRestored == Spec => []SlotDiscipline
<1>1. IInv => SlotDiscipline
  <2>. SUFFICES ASSUME IInv PROVE SlotDiscipline
    OBVIOUS
  <2>1. stack # <<>> /\ reply = "none" => handler = Top.chain
    BY FrameKinds DEF IInv, Structure, Held
  <2>2. stack # <<>> /\ Top.kind = "call" => handler # <<>>
    BY TopLink DEF IInv, Structure, Held, First, Above
  <2>. QED  BY <2>1, <2>2 DEF SlotDiscipline, IInv, Structure, Held
<1>. QED  BY <1>1, Invariance, PTL

(* Every registry/scope entered is left, however its children end.         *)
THEOREM ScopesBalanced == Spec => []ScopeBalance
<1>1. IInv => ScopeBalance
  BY DEF IInv, Counters
<1>. QED  BY <1>1, Invariance, PTL

(* No log.context pops the tags of another.                                *)
THEOREM TagsNeverLost == Spec => []TagsKept
<1>1. IInv => TagsKept
  BY DEF IInv, Counters
<1>. QED  BY <1>1, Invariance, PTL
-----------------------------------------------------------------------------
(* Counters, cancellation and how calls are left.                          *)

(* The labels at which a function has not asked for a slot.                *)
Between == {"enter", "run", "next", "test"}

(* A loop has done no more iterations than its limit, and fewer while its  *)
(* body runs; only loops have a limit, which they are given when they run. *)
Counted(f) ==
  /\ f.limit > 0 => f.n <= f.limit /\ (f.pc = "body" => f.n < f.limit)
  /\ f.pc \in {"enter", "run"} => f.n = 0 /\ f.limit = 0

Pausing ==
  {f \in Frame : f.kind = "call" =>
     /\ Counted(f)
     /\ f.step.call \in Calls(prog)
     /\ f.pending = "cancelled" => cancelled}

(* The frames that may have another above them: a call waits for a slot,   *)
(* and a while that asked for its condition has an iteration left.         *)
Waiting ==
  {f \in Pausing : f.kind = "call" =>
     /\ f.pc \notin Between
     /\ f.step.call = "while" /\ f.pc = "condition" /\ f.limit > 0 => f.n < f.limit}

Waits ==
  \A k \in 1..Len(stack) :
    IF k < Len(stack) THEN stack[k] \in Waiting ELSE stack[k] \in Pausing

(* A while whose iterations are used up asks for its condition only when   *)
(* the run is cancelled, and then does not get it.                         *)
Answered ==
  stack # <<>> /\ Top.kind = "call" =>
    IF Top.pc \in Between THEN reply = "none"
    ELSE Top \in Waiting \/ reply = "cancelled"

(* Neither of the functions that drop errors is called.                    *)
Straight == Calls(prog) \cap {"run_slot", "foreach"} = {}

Reported ==
  /\ noticed => cancelled
  /\ reply = "cancelled" => cancelled
  /\ noticed /\ Straight => reply = "cancelled"

JInv == Waits /\ Answered /\ Reported

LEMMA SameFrames ==
  ASSUME UNCHANGED <<prog, cancelled>>
  PROVE  Pausing' = Pausing /\ Waiting' = Waiting /\ Straight' = Straight
<1>1. Pausing' = Pausing /\ Straight' = Straight
  BY DEF Pausing, Straight, Calls
<1>. QED  BY <1>1 DEF Waiting

(* The innermost frame is left: the one below it was waiting.              *)
LEMMA PopWaits ==
  ASSUME Shape, Waits, stack # <<>>, stack' = Rest, UNCHANGED <<prog, cancelled>>
  PROVE  Waits' /\ (stack' # <<>> => Top' \in Waiting')
<1>1. /\ Len(stack) \in Nat \ {0}
      /\ Len(stack') = Len(stack) - 1
      /\ \A j \in 1..(Len(stack) - 1) : stack'[j] = stack[j]
      /\ stack' \in Seq(Frame)
  BY StackParts
<1>2. Pausing' = Pausing /\ Waiting' = Waiting /\ Waiting \subseteq Pausing
  BY SameFrames DEF Waiting
<1>3. \A j \in 1..(Len(stack) - 1) : stack'[j] \in Waiting
  BY <1>1 DEF Waits
<1>4. Waits'
  BY <1>1, <1>2, <1>3 DEF Waits
<1>5. stack' # <<>> => Len(stack') \in 1..(Len(stack) - 1)
  BY <1>1, EmptySeq
<1>. QED  BY <1>2, <1>3, <1>4, <1>5 DEF Top

LEMMA ReplaceWaits ==
  ASSUME Shape, Waits, stack # <<>>, NEW f \in Pausing, stack' = Append(Rest, f),
         UNCHANGED <<prog, cancelled>>
  PROVE  Waits' /\ stack' # <<>> /\ Top' = f
<1>1. /\ Len(stack) \in Nat \ {0}
      /\ Len(stack') = Len(stack)
      /\ \A j \in 1..(Len(stack) - 1) : stack'[j] = stack[j]
      /\ stack'[Len(stack)] = f
      /\ stack' # <<>>
  <2>1. f \in Frame
    BY DEF Pausing
  <2>. QED  BY <2>1, StackParts, AppendProperties
<1>2. Waits'
  BY <1>1, SameFrames DEF Waits
<1>. QED  BY <1>1, <1>2 DEF Top

LEMMA PushWaits ==
  ASSUME Shape, Waits, stack # <<>>, Top \in Waiting,
         NEW f \in Pausing, stack' = Append(stack, f), UNCHANGED <<prog, cancelled>>
  PROVE  Waits' /\ stack' # <<>> /\ Top' = f
<1>1. /\ Len(stack) \in Nat \ {0}
      /\ Len(stack') = Len(stack) + 1
      /\ \A j \in 1..Len(stack) : stack'[j] = stack[j]
      /\ stack'[Len(stack) + 1] = f
      /\ stack' # <<>>
  <2>1. f \in Frame
    BY DEF Pausing
  <2>. QED  BY <2>1, StackParts, AppendProperties DEF Shape
<1>2. \A j \in 1..Len(stack) : stack[j] \in Waiting
  BY <1>1 DEF Waits, Top
<1>3. Waits'
  <2>1. PICK n \in Nat \ {0} : Len(stack) = n
    BY <1>1
  <2>. QED  BY <1>1, <1>2, <2>1, SameFrames DEF Waits
<1>. QED  BY <1>1, <1>3 DEF Top

LEMMA NestWaits ==
  ASSUME Shape, Waits, stack # <<>>, NEW f \in Waiting, NEW g \in Pausing,
         stack' = Rest \o <<f, g>>, UNCHANGED <<prog, cancelled>>
  PROVE  Waits' /\ stack' # <<>> /\ Top' = g
<1>1. f \in Frame /\ g \in Frame
  BY DEF Waiting, Pausing
<1>2. /\ Len(stack) \in Nat \ {0}
      /\ Len(stack') = Len(stack) + 1
      /\ \A j \in 1..(Len(stack) - 1) : stack'[j] = stack[j]
      /\ stack'[Len(stack)] = f
      /\ stack'[Len(stack) + 1] = g
      /\ stack' \in Seq(Frame)
  BY <1>1, NestPlaces
<1>3. Waits'
  <2>1. PICK n \in Nat \ {0} : Len(stack) = n
    BY <1>2
  <2>2. \A j \in 1..(n - 1) : stack[j] \in Waiting
    BY <2>1 DEF Waits
  <2>3. ASSUME NEW k \in 1..(n + 1)
        PROVE  IF k < n + 1 THEN stack'[k] \in Waiting ELSE stack'[k] \in Pausing
    <3>1. k \in 1..(n - 1) \/ k = n \/ k = n + 1
      BY <2>1
    <3>. QED  BY <1>2, <2>1, <2>2, <3>1
  <2>. QED  BY <1>2, <2>1, <2>3, SameFrames DEF Waits
<1>. QED  BY <1>2, <1>3, EmptySeq DEF Top

LEMMA RanFrame ==
  ASSUME NEW f \in Pausing, f.kind = "call", NEW b \in BOOLEAN
  PROVE  LET h == [f EXCEPT !.ran = b]
         IN  /\ h \in Pausing /\ h.kind = "call" /\ h.pc = f.pc
             /\ f \in Waiting => h \in Waiting
<1>. DEFINE h == [f EXCEPT !.ran = b]
<1>1. f \in ProperCall
  BY DEF Pausing, Frame, StepsFrame
<1>2. /\ h \in ProperCall /\ h.kind = "call" /\ h.pc = f.pc /\ h.step = f.step
      /\ h.n = f.n /\ h.limit = f.limit /\ h.pending = f.pending
  BY <1>1 DEF ProperCall, CallFrame
<1>. HIDE DEF h
<1>3. h \in Pausing
  BY <1>2 DEF Pausing, Frame, Counted
<1>4. f \in Waiting => h \in Waiting
  BY <1>2, <1>3 DEF Waiting
<1>. QED  BY <1>2, <1>3, <1>4 DEF h

(* A result that is a cancellation is one of the run.                      *)
LEMMA ResultReported ==
  ASSUME Shape, Reported, NEW r, Notice(r), reply' = r,
         r = "cancelled" => cancelled, noticed /\ Straight => r = "cancelled",
         UNCHANGED <<prog, cancelled>>
  PROVE  Reported'
<1>1. noticed' => noticed \/ r = "cancelled"
  BY DEF Notice
<1>2. (cancelled' => cancelled) /\ (cancelled => cancelled') /\ Straight' = Straight
  BY SameFrames
<1>3. noticed' => cancelled'
  BY <1>1, <1>2 DEF Reported
<1>4. noticed' /\ Straight' => reply' = "cancelled"
  BY <1>1, <1>2
<1>. QED  BY <1>2, <1>3, <1>4 DEF Reported

(* A call that returns r.                                                  *)
LEMMA CallReturns ==
  ASSUME IInv, JInv, stack # <<>>, NEW r \in Replies, Finish(r),
         r = "cancelled" => cancelled, noticed /\ Straight => r = "cancelled",
         UNCHANGED <<prog, cancelled>>
  PROVE  JInv'
<1>1. stack' = Rest /\ reply' = r /\ Notice(r)
  BY DEF Finish
<1>2. Waits' /\ (stack' # <<>> => Top' \in Waiting')
  BY <1>1, PopWaits DEF IInv, Structure, JInv
<1>3. Answered'
  BY <1>2 DEF Answered, Waiting
<1>4. Reported'
  BY <1>1, ResultReported DEF IInv, Structure, JInv
<1>. QED  BY <1>2, <1>3, <1>4 DEF JInv

(* A block that ends with r.                                               *)
LEMMA BlockLeft ==
  ASSUME IInv, JInv, stack # <<>>, NEW r \in Replies, NEW current,
         LeaveBlock(r, current),
         r = "cancelled" => cancelled, noticed /\ Straight => r = "cancelled",
         UNCHANGED <<prog, cancelled>>
  PROVE  JInv'
<1>1. PICK s \in Replies : /\ stack' = Rest /\ reply' = s /\ Notice(s)
                           /\ s = r \/ (s = "cancelled" /\ cancelled)
  BY ReplyTypes DEF LeaveBlock, IsCancelled, Failures
<1>2. Waits' /\ (stack' # <<>> => Top' \in Waiting')
  BY <1>1, PopWaits DEF IInv, Structure, JInv
<1>3. Answered'
  BY <1>2 DEF Answered, Waiting
<1>4. Reported'
  BY <1>1, ResultReported DEF IInv, Structure, JInv
<1>. QED  BY <1>2, <1>3, <1>4 DEF JInv

(* A call that goes on without a slot.                                     *)
LEMMA CallGoesOn ==
  ASSUME IInv, JInv, stack # <<>>, NEW f \in Pausing, f.pc \in Between, Become(f),
         ~ (noticed /\ Straight), UNCHANGED <<prog, cancelled, noticed>>
  PROVE  JInv'
<1>1. stack' = Append(Rest, f) /\ reply' = "none"
  BY DEF Become
<1>2. Waits' /\ stack' # <<>> /\ Top' = f
  BY <1>1, ReplaceWaits DEF IInv, Structure, JInv
<1>3. Answered'
  BY <1>1, <1>2 DEF Answered
<1>4. Reported'
  BY <1>1, SameFrames DEF JInv, Reported
<1>. QED  BY <1>2, <1>3, <1>4 DEF JInv

(* A call that enters a block.                                             *)
LEMMA CallEnters ==
  ASSUME IInv, JInv, stack # <<>>, NEW f \in Waiting, f.kind = "call",
         NEW b \in Block, NEW taken \in Chain, NEW chain \in Chain,
         EnterBlock(f, b, taken, chain),
         ~ (noticed /\ Straight), UNCHANGED <<prog, cancelled>>
  PROVE  JInv'
<1>. DEFINE g == [kind |-> "steps", block |-> b, i |-> 1,
                  taken |-> taken, chain |-> chain]
            h == [f EXCEPT !.ran = TRUE]
<1>1. f \in Pausing /\ h \in Waiting
  BY RanFrame DEF Waiting
<1>2. g \in Pausing /\ g.kind = "steps"
  BY DEF Pausing, Frame, StepsFrame
<1>3. stack' = Rest \o <<h, g>> /\ reply' = "none" /\ noticed' = noticed
  BY DEF EnterBlock
<1>. HIDE DEF g, h
<1>4. Waits' /\ stack' # <<>> /\ Top' = g
  BY <1>1, <1>2, <1>3, NestWaits DEF IInv, Structure, JInv
<1>5. Answered'
  BY <1>2, <1>4 DEF Answered
<1>6. Reported'
  BY <1>3, SameFrames DEF JInv, Reported
<1>. QED  BY <1>4, <1>5, <1>6 DEF JInv

(* A call that asks for a slot, which a cancelled run does not give it.    *)
LEMMA CallAsks ==
  ASSUME IInv, JInv, stack # <<>>, NEW f \in Pausing, f.kind = "call",
         f.pc \notin Between, f \in Waiting \/ cancelled, NEW name,
         RunSlot(name, f), UNCHANGED <<prog, cancelled>>
  PROVE  JInv'
<1>. DEFINE h == [f EXCEPT !.ran = FALSE]
<1>1. /\ h \in Pausing /\ h.kind = "call" /\ h.pc = f.pc
      /\ f \in Waiting => h \in Waiting
  BY RanFrame
<1>2. noticed => cancelled
  BY DEF JInv, Reported
<1>3. CASE /\ stack' = Append(Rest, h)
           /\ \/ cancelled /\ reply' = "cancelled" /\ Notice("cancelled")
              \/ ~ cancelled /\ reply' = "slot_not_found" /\ noticed' = noticed
  <2>. HIDE DEF h
  <2>1. Waits' /\ stack' # <<>> /\ Top' = h
    BY <1>1, <1>3, ReplaceWaits DEF IInv, Structure, JInv
  <2>2. Answered'
    BY <1>1, <1>3, <2>1, SameFrames DEF Answered
  <2>3. Reported'
    BY <1>2, <1>3, SameFrames DEF Reported, Notice
  <2>. QED  BY <2>1, <2>2, <2>3 DEF JInv
<1>4. CASE /\ ~ cancelled
           /\ \E k \in DOMAIN handler :
                /\ Owns(handler, k, name)
                /\ EnterBlock(f, SlotSteps(handler[k], name),
                              SubSeq(handler, 1, k),
                              SubSeq(handler, k + 1, Len(handler)))
  <2>1. PICK k \in DOMAIN handler :
                /\ Owns(handler, k, name)
                /\ EnterBlock(f, SlotSteps(handler[k], name),
                              SubSeq(handler, 1, k),
                              SubSeq(handler, k + 1, Len(handler)))
    BY <1>4
  <2>2. /\ handler[k] \in SlotMap
        /\ SubSeq(handler, 1, k) \in Chain
        /\ SubSeq(handler, k + 1, Len(handler)) \in Chain
    BY ChainSplit DEF IInv, Structure, Shape
  <2>3. SlotSteps(handler[k], name) \in Block
    BY <2>1, <2>2, SlotStepsType DEF Owns
  <2>. QED  BY <1>2, <1>4, <2>1, <2>2, <2>3, CallEnters
<1>. QED  BY <1>3, <1>4 DEF RunSlot, IsCancelled

(* What every step of a function starts from.                              *)
LEMMA CallCounted ==
  ASSUME IInv, JInv, stack # <<>>, Top.kind = "call"
  PROVE  /\ Top \in Pausing /\ Top \in ProperCall /\ Counted(Top)
         /\ Top.step.call \in Calls(prog)
         /\ Top.pending = "cancelled" => cancelled
         /\ reply # "none" => reply \in Replies
         /\ Top.pc \in Between => reply = "none"
         /\ Top.pc \notin Between => Top \in Waiting \/ reply = "cancelled"
         /\ Reported
<1>1. Top \in Pausing
  BY StackParts DEF IInv, Structure, JInv, Waits, Top
<1>2. Reported /\ Answered
  BY DEF JInv
<1>. QED  BY <1>1, <1>2, CallContext DEF Pausing, Answered

(* The frames in which a function asks for a slot, or goes on without.     *)
LEMMA NextFrames ==
  ASSUME NEW c \in Pausing, c.kind = "call", NEW pc \in Labels \ {"enter", "run"},
         pc = "body" /\ c.limit > 0 => c.n < c.limit
  PROVE  LET f == [c EXCEPT !.pc = pc]
         IN  /\ f \in Pausing /\ f.kind = "call" /\ f.pc = pc
             /\ pc \notin Between /\ (pc = "condition" /\ c.limit > 0 => c.n < c.limit)
                => f \in Waiting
<1>. DEFINE f == [c EXCEPT !.pc = pc]
<1>1. c \in ProperCall
  BY DEF Pausing, Frame, StepsFrame
<1>2. /\ f \in ProperCall /\ f.kind = "call" /\ f.pc = pc /\ f.step = c.step
      /\ f.n = c.n /\ f.limit = c.limit /\ f.pending = c.pending
  BY <1>1 DEF ProperCall, CallFrame
<1>. HIDE DEF f
<1>3. f \in Pausing
  BY <1>2 DEF Pausing, Frame, Counted
<1>4. pc \notin Between /\ (pc = "condition" /\ c.limit > 0 => c.n < c.limit) => f \in Waiting
  BY <1>2, <1>3 DEF Waiting
<1>. QED  BY <1>2, <1>3, <1>4 DEF f

LEMMA InitCounted ==
  ASSUME Init
  PROVE  JInv
<1>. DEFINE f == [kind |-> "steps", block |-> Main, i |-> 1,
                  taken |-> <<>>, chain |-> <<>>]
<1>1. f \in StepsFrame /\ f.kind = "steps"
  BY BoundsAssumption DEF StepsFrame, Chain
<1>2. stack = <<f>> /\ reply = "none" /\ noticed = FALSE
  BY DEF Init
<1>. HIDE DEF f
<1>3. Len(stack) = 1 /\ stack[1] = f /\ Top = f
  BY <1>2 DEF Top
<1>4. f \in Pausing
  BY <1>1 DEF Pausing, Frame
<1>5. Waits
  BY <1>3, <1>4 DEF Waits
<1>. QED  BY <1>1, <1>2, <1>3, <1>5 DEF JInv, Answered, Reported

LEMMA EngineCounted ==
  ASSUME IInv, JInv, Engine
  PROVE  JInv'
<1>. USE ReplyTypes
<1>0. /\ Structure /\ Shape /\ Reported
      /\ stack # <<>> /\ reply # "none" => reply \in Replies
  BY DEF IInv, Structure, Shape, JInv
<1>1. CASE BeginStep
  <2>1. PICK f \in ProperCall :
           /\ stack' = Append(stack, f)
           /\ f.kind = "call" /\ f.step = prog[Top.block][Top.i]
           /\ f.pc = "enter" /\ f.n = 0 /\ f.limit = 0 /\ f.pending = "ok"
           /\ Top.block \in Block /\ Top.i \in DOMAIN prog[Top.block]
    BY <1>0, <1>1, CallBegun
  <2>2. f.step.call \in Calls(prog)
    BY <2>1 DEF Calls
  <2>3. f \in Pausing
    BY <2>1, <2>2 DEF Pausing, Frame, Counted
  <2>4. /\ stack # <<>> /\ Top.kind = "steps" /\ reply = "none" /\ reply' = "none"
        /\ UNCHANGED <<prog, cancelled, noticed>>
    BY <1>1 DEF BeginStep
  <2>5. Top \in Waiting
    BY <2>4, StackParts DEF IInv, Structure, JInv, Waits, Top, Waiting
  <2>6. Waits' /\ stack' # <<>> /\ Top' = f
    BY <1>0, <2>1, <2>3, <2>4, <2>5, PushWaits DEF JInv
  <2>7. Answered'
    BY <2>1, <2>4, <2>6 DEF Answered, Between
  <2>8. Reported'
    BY <1>0, <2>4, SameFrames DEF Reported
  <2>. QED  BY <2>6, <2>7, <2>8 DEF JInv
<1>2. CASE StepCancelled
  BY <1>2, BlockLeft DEF StepCancelled, IsCancelled, Failures
<1>3. CASE EndBlock
  <2>1. ~ (noticed /\ Straight)
    BY <1>0, <1>3 DEF EndBlock, Reported
  <2>. QED  BY <1>3, <2>1, BlockLeft DEF EndBlock
<1>4. CASE StepReturns
  <2>1. stack # <<>> /\ reply # "none" /\ reply \in Replies /\ UNCHANGED <<prog, cancelled>>
    BY <1>0, <1>4 DEF StepReturns
  <2>2. CASE LeaveBlock(reply, Unwrapped)
    BY <1>0, <2>1, <2>2, BlockLeft DEF Reported
  <2>3. CASE reply = "ok" /\ Become([Top EXCEPT !.i = @ + 1]) /\ UNCHANGED noticed
    <3>. DEFINE g == [Top EXCEPT !.i = @ + 1]
    <3>1. g \in StepsFrame /\ g.kind = "steps"
      BY <1>0, <1>4, FrameKinds, NextStep DEF StepReturns, StepsFrame
    <3>2. stack' = Append(Rest, g) /\ reply' = "none"
      BY <2>3 DEF Become
    <3>. HIDE DEF g
    <3>3. g \in Pausing
      BY <3>1 DEF Pausing, Frame
    <3>4. Waits' /\ stack' # <<>> /\ Top' = g
      BY <1>0, <2>1, <3>2, <3>3, ReplaceWaits DEF JInv
    <3>5. Answered'
      BY <3>1, <3>4 DEF Answered
    <3>6. Reported'
      BY <1>0, <2>1, <2>3, <3>2, SameFrames DEF Reported
    <3>. QED  BY <3>4, <3>5, <3>6 DEF JInv
  <2>. QED  BY <1>4, <2>2, <2>3 DEF StepReturns
<1>5. CASE CallFunction
  <2>1. /\ stack # <<>> /\ Top.kind = "call" /\ Top.pc = "enter"
        /\ UNCHANGED <<prog, cancelled>>
    BY <1>5 DEF CallFunction
  <2>2. /\ Top \in Pausing /\ Top \in ProperCall /\ Counted(Top) /\ reply = "none"
    BY <2>1, CallCounted DEF Between
  <2>3. ~ (noticed /\ Straight)
    BY <1>0, <2>2 DEF Reported
  <2>4. CASE cancelled /\ Finish("cancelled")
    BY <2>1, <2>4, CallReturns DEF Failures
  <2>5. CASE Finish("error")
    BY <2>1, <2>3, <2>5, CallReturns DEF Failures
  <2>6. CASE Become([Top EXCEPT !.pc = "run"]) /\ UNCHANGED noticed
    <3>. DEFINE f == [Top EXCEPT !.pc = "run"]
    <3>1. /\ f \in ProperCall /\ f.kind = "call" /\ f.pc = "run" /\ f.step = Top.step
          /\ f.n = Top.n /\ f.limit = Top.limit /\ f.pending = Top.pending
      BY <2>1, <2>2 DEF ProperCall, CallFrame, Labels
    <3>2. Become(f)
      BY <2>6
    <3>. HIDE DEF f
    <3>3. f \in Pausing
      BY <2>1, <2>2, <3>1 DEF Pausing, Frame, Counted
    <3>. QED  BY <2>1, <2>3, <2>6, <3>1, <3>2, <3>3, CallGoesOn DEF Between
  <2>. QED  BY <1>5, <2>4, <2>5, <2>6 DEF CallFunction, IsCancelled
<1>. QED  BY <1>1, <1>2, <1>3, <1>4, <1>5 DEF Engine

(* A function asks for a slot; a loop has an iteration left.               *)
LEMMA FunctionAsks ==
  ASSUME IInv, JInv, stack # <<>>, Top.kind = "call",
         NEW pc \in Labels \ Between,
         pc \in {"body", "condition"} /\ Top.limit > 0 => Top.n < Top.limit,
         NEW name, RunSlot(name, [Top EXCEPT !.pc = pc]), UNCHANGED <<prog, cancelled>>
  PROVE  JInv'
<1>. DEFINE f == [Top EXCEPT !.pc = pc]
<1>1. pc \in Labels \ {"enter", "run"} /\ Top \in Pausing
  BY CallCounted DEF Between
<1>2. f \in Waiting /\ f \in Pausing /\ f.kind = "call" /\ f.pc = pc
  BY <1>1, NextFrames
<1>3. RunSlot(name, f)
  OBVIOUS
<1>. HIDE DEF f
<1>. QED  BY <1>2, <1>3, CallAsks

(* A function returns what its slot replied.                               *)
LEMMA ReplyReturned ==
  ASSUME IInv, JInv, stack # <<>>, Top.kind = "call", reply # "none",
         Finish(reply), UNCHANGED <<prog, cancelled>>
  PROVE  JInv'
BY CallCounted, CallReturns DEF Reported

(* A function returns something else, when no cancellation was noticed or  *)
(* the program has functions that drop errors.                             *)
LEMMA OtherReturned ==
  ASSUME IInv, JInv, stack # <<>>, NEW r \in Replies, r # "cancelled",
         ~ (noticed /\ Straight), Finish(r), UNCHANGED <<prog, cancelled>>
  PROVE  JInv'
BY CallReturns

(* Nothing is lost that way.                                               *)
LEMMA NothingLost ==
  ASSUME IInv, JInv, stack # <<>>, Top.kind = "call",
         reply # "cancelled" \/ Top.step.call \in {"run_slot", "foreach"}
  PROVE  ~ (noticed /\ Straight)
BY CallCounted DEF Reported, Straight

(* A loop that is given its limit, and one that goes on.                   *)
LEMMA LimitedFrame ==
  ASSUME IInv, JInv, stack # <<>>, Top.kind = "call", Top.pc = "run",
         Top.step.call # "log_context", NEW pc \in {"next", "test"}, NEW x \in Nat
  PROVE  LET f == [Top EXCEPT !.pc = pc, !.limit = x] IN f \in Pausing /\ f.pc = pc
<1>. DEFINE f == [Top EXCEPT !.pc = pc, !.limit = x]
<1>1. /\ Top \in ProperCall /\ Top \in Pausing /\ Top.n = 0 /\ pc \in Labels
  BY CallCounted DEF Counted, Labels
<1>2. /\ f \in ProperCall /\ f.kind = "call" /\ f.pc = pc /\ f.step = Top.step
      /\ f.n = 0 /\ f.limit = x /\ f.pending = Top.pending
  BY <1>1 DEF ProperCall, CallFrame
<1>. HIDE DEF f
<1>3. f \in Pausing
  BY <1>1, <1>2 DEF Pausing, Frame, Counted
<1>. QED  BY <1>2, <1>3 DEF f

LEMMA CountedFrame ==
  ASSUME IInv, JInv, stack # <<>>, Top.kind = "call",
         Top.step.call # "log_context", NEW pc \in {"next", "test"}, NEW m \in Nat,
         Top.limit > 0 => m <= Top.limit
  PROVE  LET f == [Top EXCEPT !.pc = pc, !.n = m] IN f \in Pausing /\ f.pc = pc
<1>. DEFINE f == [Top EXCEPT !.pc = pc, !.n = m]
<1>1. /\ Top \in ProperCall /\ Top \in Pausing /\ pc \in Labels
  BY CallCounted DEF Labels
<1>2. /\ f \in ProperCall /\ f.kind = "call" /\ f.pc = pc /\ f.step = Top.step
      /\ f.n = m /\ f.limit = Top.limit /\ f.pending = Top.pending
  BY <1>1 DEF ProperCall, CallFrame
<1>. HIDE DEF f
<1>3. f \in Pausing
  BY <1>1, <1>2 DEF Pausing, Frame, Counted
<1>. QED  BY <1>2, <1>3 DEF f

LEMMA FlowCounted ==
  ASSUME IInv, JInv, Flow
  PROVE  JInv'
<1>. USE ReplyTypes DEF IsCancelled
<1>0. 1..MaxItems \subseteq Nat /\ 0..MaxIterations \subseteq Nat
  BY BoundsAssumption
<1>1. CASE Primitive
  <2>1. stack # <<>> /\ Top.kind = "call" /\ Top.pc = "run" /\ UNCHANGED <<prog, cancelled>>
    BY <1>1 DEF Primitive, Running
  <2>. QED  BY <1>1, <2>1, CallCounted, NothingLost, OtherReturned
            DEF Primitive, Between, Failures
<1>2. CASE FlowSignal
  <2>1. stack # <<>> /\ Top.kind = "call" /\ Top.pc = "run" /\ UNCHANGED <<prog, cancelled>>
    BY <1>2 DEF FlowSignal, Running
  <2>. QED  BY <1>2, <2>1, CallCounted, NothingLost, OtherReturned
            DEF FlowSignal, Between, Signals
<1>3. CASE FlowCheckAbort
  <2>1. stack # <<>> /\ Top.kind = "call" /\ Top.pc = "run" /\ UNCHANGED <<prog, cancelled>>
    BY <1>3 DEF FlowCheckAbort, Running
  <2>2. CASE cancelled /\ Finish("cancelled")
    BY <2>1, <2>2, CallReturns DEF Failures
  <2>3. CASE Finish("ok")
    BY <2>1, <2>3, CallCounted, NothingLost, OtherReturned DEF Between
  <2>. QED  BY <1>3, <2>2, <2>3 DEF FlowCheckAbort
<1>4. CASE FlowIf
  BY <1>4, FunctionAsks DEF FlowIf, Running, Labels, Between
<1>5. CASE IfReturns
  <2>1. stack # <<>> /\ Top.kind = "call" /\ reply # "none" /\ UNCHANGED <<prog, cancelled>>
    BY <1>5 DEF IfReturns, Replied
  <2>2. CASE reply = "slot_not_found" /\ Finish("ok")
    BY <2>1, <2>2, NothingLost, OtherReturned
  <2>3. CASE Finish(reply)
    BY <2>1, <2>3, ReplyReturned
  <2>. QED  BY <1>5, <2>2, <2>3 DEF IfReturns
<1>6. CASE FlowTry
  <2>1. stack # <<>> /\ Top.kind = "call" /\ Top.pc = "run" /\ UNCHANGED <<prog, cancelled>>
        /\ RunSlot("children", [Top EXCEPT !.pc = "body"])
    BY <1>6 DEF FlowTry, Running
  <2>2. Top.limit = 0
    BY <2>1, CallCounted DEF Counted
  <2>. QED  BY <2>1, <2>2, FunctionAsks DEF Labels, Between
<1>7. CASE TrySignal
  BY <1>7, ReplyReturned DEF TrySignal, Replied
<1>8. CASE TryCatch
  BY <1>8, FunctionAsks DEF TryCatch, Replied, Labels, Between
<1>9. CASE TryFinally
  <2>1. /\ stack # <<>> /\ Top.kind = "call" /\ reply # "none" /\ UNCHANGED <<prog, cancelled>>
        /\ Top.pc \in {"body", "catch"}
    BY <1>9 DEF TryFinally, Replied
  <2>2. CASE Finish(reply)
    BY <2>1, <2>2, ReplyReturned
  <2>3. CASE RunSlot("finally", [Top EXCEPT !.pc = "finally", !.pending = reply])
    <3>. DEFINE f == [Top EXCEPT !.pc = "finally", !.pending = reply]
    <3>1. /\ Top \in Pausing /\ Top \in ProperCall /\ Counted(Top) /\ Reported
          /\ Top.step.call \in Calls(prog) /\ reply \in Replies
      BY <2>1, CallCounted
    <3>2. /\ f \in ProperCall /\ f.kind = "call" /\ f.pc = "finally" /\ f.step = Top.step
          /\ f.n = Top.n /\ f.limit = Top.limit /\ f.pending = reply
      BY <2>1, <3>1 DEF ProperCall, CallFrame, Labels
    <3>3. RunSlot("finally", f)
      BY <2>3
    <3>. HIDE DEF f
    <3>4. f \in Pausing
      BY <3>1, <3>2 DEF Pausing, Frame, Counted, Reported
    <3>5. f \in Waiting
      BY <3>2, <3>4 DEF Waiting, Between
    <3>. QED  BY <2>1, <3>2, <3>3, <3>4, <3>5, CallAsks DEF Between
  <2>. QED  BY <1>9, <2>2, <2>3 DEF TryFinally
<1>10. CASE TryReturns
  <2>1. stack # <<>> /\ Top.kind = "call" /\ reply # "none" /\ UNCHANGED <<prog, cancelled>>
    BY <1>10 DEF TryReturns, Replied
  <2>2. CASE reply = "ok" /\ Finish(Top.pending)
    <3>1. Top.pending \in Replies /\ (Top.pending = "cancelled" => cancelled)
      BY <2>1, CallCounted DEF ProperCall, CallFrame
    <3>. QED  BY <2>1, <2>2, <3>1, NothingLost, CallReturns
  <2>3. CASE Finish(reply)
    BY <2>1, <2>3, ReplyReturned
  <2>. QED  BY <1>10, <2>2, <2>3 DEF TryReturns
<1>11. CASE FlowForeach
  <2>1. /\ stack # <<>> /\ Top.kind = "call" /\ Top.pc = "run" /\ Top.step.call = "foreach"
        /\ UNCHANGED <<prog, cancelled>>
    BY <1>11 DEF FlowForeach, Running
  <2>2. ~ (noticed /\ Straight)
    BY <2>1, NothingLost
  <2>3. CASE Finish("error")
    BY <2>1, <2>2, <2>3, OtherReturned DEF Failures
  <2>4. CASE RunSlot("else", [Top EXCEPT !.pc = "else"])
    BY <2>1, <2>4, FunctionAsks DEF Labels, Between
  <2>5. CASE \E x \in Nat : Become([Top EXCEPT !.pc = "next", !.limit = x])
             /\ UNCHANGED noticed
    <3>1. PICK x \in Nat : Become([Top EXCEPT !.pc = "next", !.limit = x])
      BY <2>5
    <3>. DEFINE f == [Top EXCEPT !.pc = "next", !.limit = x]
    <3>2. /\ f \in Pausing /\ f.pc = "next"
      BY <2>1, LimitedFrame DEF Labels
    <3>. HIDE DEF f
    <3>3. Become(f)
      BY <3>1 DEF f
    <3>. QED  BY <2>1, <2>2, <2>5, <3>2, <3>3, CallGoesOn DEF Between
  <2>. QED  BY <1>0, <1>11, <2>3, <2>4, <2>5 DEF FlowForeach
<1>12. CASE ForeachElseReturns
  BY <1>12, NothingLost, OtherReturned DEF ForeachElseReturns, Replied
<1>13. CASE ForeachItem
  <2>1. /\ stack # <<>> /\ Top.kind = "call" /\ Top.pc = "next" /\ Top.step.call = "foreach"
        /\ UNCHANGED <<prog, cancelled>>
    BY <1>13 DEF ForeachItem
  <2>2. CASE Finish("ok")
    BY <2>1, <2>2, NothingLost, OtherReturned
  <2>3. CASE Top.n # Top.limit /\ RunSlot("body", [Top EXCEPT !.pc = "body"])
    <3>1. Top.limit > 0 => Top.n < Top.limit
      BY <2>1, <2>3, CallCounted DEF Counted, ProperCall, CallFrame
    <3>. QED  BY <2>1, <2>3, <3>1, FunctionAsks DEF Labels, Between
  <2>. QED  BY <1>13, <2>2, <2>3 DEF ForeachItem
<1>14. CASE ForeachBodyReturns
  <2>1. /\ stack # <<>> /\ Top.kind = "call" /\ Top.pc = "body" /\ Top.step.call = "foreach"
        /\ reply # "none" /\ UNCHANGED <<prog, cancelled>>
    BY <1>14 DEF ForeachBodyReturns, Replied
  <2>2. ~ (noticed /\ Straight)
    BY <2>1, NothingLost
  <2>3. CASE Finish("ok")
    BY <2>1, <2>2, <2>3, OtherReturned
  <2>4. CASE Finish(reply)
    BY <2>1, <2>4, ReplyReturned
  <2>5. CASE Become([Top EXCEPT !.pc = "next", !.n = @ + 1]) /\ UNCHANGED noticed
    <3>. DEFINE m == Top.n + 1
                f == [Top EXCEPT !.pc = "next", !.n = m]
    <3>1. m \in Nat /\ (Top.limit > 0 => m <= Top.limit)
      BY <2>1, CallCounted DEF Counted, ProperCall, CallFrame
    <3>2. Become(f)
      BY <2>5
    <3>. HIDE DEF m
    <3>3. f \in Pausing /\ f.pc = "next"
      BY <2>1, <3>1, CountedFrame DEF Labels
    <3>. HIDE DEF f
    <3>. QED  BY <2>1, <2>2, <2>5, <3>2, <3>3, CallGoesOn DEF Between
  <2>. QED  BY <1>14, <2>3, <2>4, <2>5 DEF ForeachBodyReturns
<1>15. CASE FlowWhile
  <2>1. /\ stack # <<>> /\ Top.kind = "call" /\ Top.pc = "run" /\ Top.step.call = "while"
        /\ UNCHANGED <<prog, cancelled>>
    BY <1>15 DEF FlowWhile, Running
  <2>2. ~ (noticed /\ Straight)
    BY <2>1, CallCounted, NothingLost DEF Between
  <2>3. CASE Finish("error")
    BY <2>1, <2>2, <2>3, OtherReturned DEF Failures
  <2>4. CASE \E x \in Nat : Become([Top EXCEPT !.pc = "test", !.limit = x])
             /\ UNCHANGED noticed
    <3>1. PICK x \in Nat : Become([Top EXCEPT !.pc = "test", !.limit = x])
      BY <2>4
    <3>. DEFINE f == [Top EXCEPT !.pc = "test", !.limit = x]
    <3>2. /\ f \in Pausing /\ f.pc = "test"
      BY <2>1, LimitedFrame DEF Labels
    <3>. HIDE DEF f
    <3>3. Become(f)
      BY <3>1 DEF f
    <3>. QED  BY <2>1, <2>2, <2>4, <3>2, <3>3, CallGoesOn DEF Between
  <2>. QED  BY <1>0, <1>15, <2>3, <2>4 DEF FlowWhile
<1>16. CASE WhileTest
  <2>1. /\ stack # <<>> /\ Top.kind = "call" /\ Top.pc = "test" /\ Top.step.call = "while"
        /\ UNCHANGED <<prog, cancelled>>
    BY <1>16 DEF WhileTest
  <2>2. CASE Finish("error")
    BY <2>1, <2>2, CallCounted, NothingLost, OtherReturned DEF Between, Failures
  <2>3. CASE /\ cancelled \/ ~ (Top.limit > 0 /\ Top.n >= Top.limit)
             /\ RunSlot("condition", [Top EXCEPT !.pc = "condition"])
    <3>. DEFINE f == [Top EXCEPT !.pc = "condition"]
    <3>1. Top \in Pausing /\ Top \in ProperCall
      BY <2>1, CallCounted
    <3>2. Top.n \in Nat /\ Top.limit \in Nat
      BY <3>1 DEF ProperCall, CallFrame
    <3>3. /\ f \in Pausing /\ f.kind = "call" /\ f.pc = "condition"
          /\ (Top.limit > 0 => Top.n < Top.limit) => f \in Waiting
      BY <2>1, <3>1, NextFrames DEF Labels, Between
    <3>4. RunSlot("condition", f)
      BY <2>3
    <3>. HIDE DEF f
    <3>5. f \in Waiting \/ cancelled
      BY <2>3, <3>2, <3>3
    <3>. QED  BY <2>1, <3>3, <3>4, <3>5, CallAsks DEF Between
  <2>. QED  BY <1>16, <2>2, <2>3 DEF WhileTest
<1>17. CASE WhileConditionReturns
  <2>1. /\ stack # <<>> /\ Top.kind = "call" /\ Top.pc = "condition"
        /\ Top.step.call = "while" /\ reply # "none" /\ UNCHANGED <<prog, cancelled>>
    BY <1>17 DEF WhileConditionReturns, Replied
  <2>2. CASE Finish(reply)
    BY <2>1, <2>2, ReplyReturned
  <2>3. CASE reply = "ok" /\ (Finish("error") \/ Finish("ok"))
    BY <2>1, <2>3, NothingLost, OtherReturned DEF Failures
  <2>4. CASE reply = "ok" /\ RunSlot("body", [Top EXCEPT !.pc = "body"])
    <3>1. Top.limit > 0 => Top.n < Top.limit
      BY <2>1, <2>4, CallCounted DEF Between, Waiting
    <3>. QED  BY <2>1, <2>4, <3>1, FunctionAsks DEF Labels, Between
  <2>5. CASE RunSlot("else", [Top EXCEPT !.pc = "else"])
    BY <2>1, <2>5, FunctionAsks DEF Labels, Between
  <2>. QED  BY <1>17, <2>2, <2>3, <2>4, <2>5 DEF WhileConditionReturns
<1>18. CASE WhileBodyReturns
  <2>1. /\ stack # <<>> /\ Top.kind = "call" /\ Top.pc = "body" /\ Top.step.call = "while"
        /\ reply # "none" /\ UNCHANGED <<prog, cancelled>>
    BY <1>18 DEF WhileBodyReturns, Replied
  <2>2. CASE reply = "break" /\ Finish("ok")
    BY <2>1, <2>2, NothingLost, OtherReturned
  <2>3. CASE Finish(reply)
    BY <2>1, <2>3, ReplyReturned
  <2>4. CASE /\ reply \in {"ok", "continue"} /\ UNCHANGED noticed
             /\ Become([Top EXCEPT !.pc = "test",
                                   !.n = IF Top.limit = 0 THEN 1 ELSE @ + 1])
    <3>. DEFINE m == IF Top.limit = 0 THEN 1 ELSE Top.n + 1
                f == [Top EXCEPT !.pc = "test", !.n = m]
    <3>1. m \in Nat /\ (Top.limit > 0 => m <= Top.limit)
      BY <2>1, CallCounted DEF Counted, ProperCall, CallFrame
    <3>2. Become(f)
      BY <2>4
    <3>. HIDE DEF m
    <3>3. f \in Pausing /\ f.pc = "test"
      BY <2>1, <3>1, CountedFrame DEF Labels
    <3>. HIDE DEF f
    <3>4. ~ (noticed /\ Straight)
      BY <2>1, <2>4, NothingLost
    <3>. QED  BY <2>1, <2>4, <3>2, <3>3, <3>4, CallGoesOn DEF Between
  <2>. QED  BY <1>18, <2>2, <2>3, <2>4 DEF WhileBodyReturns
<1>19. CASE WhileElseReturns
  BY <1>19, ReplyReturned DEF WhileElseReturns, Replied
<1>. QED  BY <1>1, <1>2, <1>3, <1>4, <1>5, <1>6, <1>7, <1>8, <1>9, <1>10, <1>11,
     <1>12, <1>13, <1>14, <1>15, <1>16, <1>17, <1>18, <1>19 DEF Flow

LEMMA ContractCounted ==
  ASSUME IInv, JInv, Contracts
  PROVE  JInv'
<1>. USE ReplyTypes
<1>1. CASE ComposeRunSlot
  <2>1. /\ stack # <<>> /\ Top.kind = "call" /\ Top.step.call = "run_slot"
        /\ UNCHANGED <<prog, cancelled>>
    BY <1>1 DEF ComposeRunSlot, Running
  <2>2. CASE Finish("error")
    BY <2>1, <2>2, NothingLost, OtherReturned DEF Failures
  <2>3. CASE RunSlot(Top.step.target, [Top EXCEPT !.pc = "slot"])
    BY <2>1, <2>3, FunctionAsks DEF Labels, Between
  <2>. QED  BY <1>1, <2>2, <2>3 DEF ComposeRunSlot
<1>2. CASE ComposeRunSlotReturns
  BY <1>2, NothingLost, OtherReturned DEF ComposeRunSlotReturns, Replied
<1>3. CASE LogContext
  <2>1. /\ stack # <<>> /\ Top.kind = "call" /\ Top.pc = "run"
        /\ UNCHANGED <<prog, cancelled>>
    BY <1>3 DEF LogContext, Running
  <2>2. CASE Finish("error")
    BY <2>1, <2>2, CallCounted, NothingLost, OtherReturned DEF Between, Failures
  <2>3. CASE \E pushed \in {0, 1} :
               RunSlot("children", [Top EXCEPT !.pc = "children", !.n = pushed])
    <3>1. PICK pushed \in {0, 1} :
               RunSlot("children", [Top EXCEPT !.pc = "children", !.n = pushed])
      BY <2>3
    <3>. DEFINE f == [Top EXCEPT !.pc = "children", !.n = pushed]
    <3>2. Top \in ProperCall /\ Top \in Pausing /\ Top.limit = 0
      BY <2>1, CallCounted DEF Counted
    <3>3. /\ f \in ProperCall /\ f.kind = "call" /\ f.pc = "children" /\ f.step = Top.step
          /\ f.limit = 0 /\ f.pending = Top.pending
      <4>1. Top \in CallFrame /\ pushed \in Nat
        BY <3>2 DEF ProperCall
      <4>2. /\ f \in CallFrame /\ f.kind = "call" /\ f.pc = "children"
            /\ f.step = Top.step /\ f.n = pushed /\ f.limit = Top.limit
            /\ f.pending = Top.pending
        BY <4>1 DEF CallFrame, Labels
      <4>. HIDE DEF f
      <4>. QED  BY <3>2, <4>2 DEF ProperCall
    <3>4. RunSlot("children", f)
      BY <3>1
    <3>. HIDE DEF f
    <3>5. f \in Pausing
      BY <2>1, <3>2, <3>3 DEF Pausing, Frame, Counted
    <3>6. f \in Waiting
      BY <3>3, <3>5 DEF Waiting, Between
    <3>. QED  BY <2>1, <3>3, <3>4, <3>5, <3>6, CallAsks DEF Between
  <2>. QED  BY <1>3, <2>2, <2>3 DEF LogContext
<1>4. CASE LogContextReturns
  BY <1>4, ReplyReturned DEF LogContextReturns, Replied
<1>5. CASE RegistryScope
  <2>1. /\ stack # <<>> /\ Top.kind = "call" /\ Top.pc = "run"
        /\ UNCHANGED <<prog, cancelled>>
    BY <1>5 DEF RegistryScope, Running
  <2>2. CASE Finish("error")
    BY <2>1, <2>2, CallCounted, NothingLost, OtherReturned DEF Between, Failures
  <2>3. CASE RunSlot("children", [Top EXCEPT !.pc = "children"])
    BY <2>1, <2>3, FunctionAsks DEF Labels, Between
  <2>. QED  BY <1>5, <2>2, <2>3 DEF RegistryScope
<1>6. CASE RegistryScopeReturns
  BY <1>6, ReplyReturned DEF RegistryScopeReturns, Replied
<1>7. CASE Component
  <2>1. /\ stack # <<>> /\ Top.kind = "call" /\ Top.pc = "run"
        /\ UNCHANGED <<prog, cancelled>>
        /\ EnterBlock([Top EXCEPT !.pc = "compose"], Top.step.body, <<>>, handler)
    BY <1>7 DEF Component, Running
  <2>. DEFINE f == [Top EXCEPT !.pc = "compose"]
  <2>2. f \in Waiting /\ f.kind = "call"
    BY <2>1, CallCounted, NextFrames DEF Labels, Between
  <2>3. EnterBlock(f, Top.step.body, <<>>, handler)
    BY <2>1
  <2>. HIDE DEF f
  <2>4. Top.step.body \in Block
    BY <2>1, CallContext DEF CallFrame, Step
  <2>5. <<>> \in Chain /\ handler \in Chain
    BY DEF IInv, Structure, Shape, Chain
  <2>6. ~ (noticed /\ Straight) /\ noticed' = noticed
    BY <2>1, CallCounted, NothingLost DEF Between, EnterBlock
  <2>. QED  BY <2>1, <2>2, <2>3, <2>4, <2>5, <2>6, CallEnters
<1>8. CASE ComponentReturns
  BY <1>8, ReplyReturned DEF ComponentReturns, Replied
<1>. QED  BY <1>1, <1>2, <1>3, <1>4, <1>5, <1>6, <1>7, <1>8 DEF Contracts

LEMMA NextCounted ==
  ASSUME IInv, JInv, [Next]_vars
  PROVE  JInv'
<1>1. CASE Engine
  BY <1>1, EngineCounted
<1>2. CASE Flow
  BY <1>2, FlowCounted
<1>3. CASE Contracts
  BY <1>3, ContractCounted
<1>4. CASE Cancel
  <2>1. /\ UNCHANGED <<prog, stack, reply, noticed>> /\ cancelled' = TRUE
        /\ Top' = Top /\ Straight' = Straight /\ Calls(prog)' = Calls(prog)
    BY <1>4 DEF Cancel, Top, Straight, Calls
  <2>2. Pausing \subseteq Pausing'
    BY <2>1 DEF Pausing
  <2>3. Waiting \subseteq Waiting'
    BY <2>2 DEF Waiting
  <2>4. Waits'
    BY <2>1, <2>2, <2>3 DEF JInv, Waits
  <2>5. Answered'
    BY <2>1, <2>3 DEF JInv, Answered
  <2>6. Reported'
    BY <2>1 DEF JInv, Reported
  <2>. QED  BY <2>4, <2>5, <2>6 DEF JInv
<1>5. CASE UNCHANGED vars
  <2>1. UNCHANGED <<prog, stack, reply, cancelled, noticed>> /\ Top' = Top
    BY <1>5 DEF vars, Top
  <2>2. Waits' /\ Answered' /\ Reported'
    BY <2>1, SameFrames DEF JInv, Waits, Answered, Reported
  <2>. QED  BY <2>2 DEF JInv
<1>. QED  BY <1>1, <1>2, <1>3, <1>4, <1>5 DEF Next, Run, Terminating

(* Counters and answers are in order in every reachable state.             *)
THEOREM CountedAlways == Spec => []JInv
<1>1. Init => JInv
  BY InitCounted
<1>2. IInv /\ JInv /\ [Next]_vars => JInv'
  BY NextCounted
<1>. QED  BY <1>1, <1>2, Invariance, PTL DEF Spec

(* No loop of flow/foreach or flow/while goes beyond its limit, and none   *)
(* runs its body once more than allowed, however loops are nested.         *)
THEOREM LoopsBounded == Spec => []LoopBounds
<1>1. IInv /\ JInv => LoopBounds
  <2>. SUFFICES ASSUME IInv, JInv, NEW k \in DOMAIN stack,
                       stack[k].kind = "call", stack[k].limit > 0
                PROVE  /\ stack[k].n <= stack[k].limit
                       /\ stack[k].pc = "body" => stack[k].n < stack[k].limit
    BY DEF LoopBounds
  <2>1. k \in 1..Len(stack)
    BY LenProperties DEF IInv, Structure, Shape
  <2>2. stack[k] \in Pausing
    BY <2>1 DEF JInv, Waits, Waiting
  <2>. QED  BY <2>2 DEF Pausing, Counted
<1>. QED  BY <1>1, Invariance, CountedAlways, PTL

(* A cancellation that was noticed is the result of the run, in every      *)
(* program without compose/run_slot and foreach.                           *)
THEOREM CancellationsKept == Spec => []CancellationKept
<1>1. JInv => CancellationKept
  BY DEF JInv, Reported, Straight, CancellationKept, CancellationReported
<1>. QED  BY <1>1, CountedAlways, PTL

(* A call that goes on, or asks for a slot, is not left.                   *)
LEMMA StaysOn ==
  ASSUME Shape, stack # <<>>, NEW f, stack' = Append(Rest, f)
  PROVE  ~ Len(stack') < Len(stack)
<1>1. /\ Len(stack) \in Nat \ {0} /\ Len(Rest) = Len(stack) - 1
      /\ Rest \in Seq(Frame \cup {f})
  <2>1. Rest \in Seq(Frame) /\ Seq(Frame) \subseteq Seq(Frame \cup {f})
    BY StackParts, SeqMonotonic
  <2>. QED  BY <2>1, StackParts
<1>2. Len(stack') = Len(stack)
  BY <1>1, AppendProperties
<1>. QED  BY <1>1, <1>2

LEMMA AskingStays ==
  ASSUME Shape, stack # <<>>, NEW name, NEW f, RunSlot(name, f)
  PROVE  ~ Len(stack') < Len(stack)
<1>. DEFINE h == [f EXCEPT !.ran = FALSE]
            e == [f EXCEPT !.ran = TRUE]
<1>1. CASE stack' = Append(Rest, h)
  <2>. HIDE DEF h
  <2>. QED  BY <1>1, StaysOn
<1>2. CASE \E g : stack' = Rest \o <<e, g>>
  <2>1. PICK g : stack' = Rest \o <<e, g>>
    BY <1>2
  <2>. HIDE DEF e
  <2>2. /\ Len(stack) \in Nat \ {0} /\ Len(Rest) = Len(stack) - 1
        /\ Rest \in Seq(Frame \cup {e, g}) /\ <<e, g>> \in Seq(Frame \cup {e, g})
        /\ Len(<<e, g>>) = 2
    <3>1. Rest \in Seq(Frame) /\ Seq(Frame) \subseteq Seq(Frame \cup {e, g})
      BY StackParts, SeqMonotonic
    <3>. QED  BY <3>1, StackParts
  <2>3. Len(stack') = Len(Rest) + 2
    BY <2>1, <2>2, ConcatProperties
  <2>. QED  BY <2>2, <2>3
<1>. QED  BY <1>1, <1>2 DEF RunSlot, EnterBlock

(* The steps that may leave a call of try, foreach or while.               *)
LEMMA Leaving ==
  ASSUME Shape, [Next]_vars, NEW call \in {"try", "foreach", "while"}, Leaves(call)
  PROVE  \/ CallFunction
         \/ call = "try" /\ (TrySignal \/ TryFinally \/ TryReturns)
         \/ call = "foreach" /\ (FlowForeach \/ ForeachElseReturns \/ ForeachItem
                                 \/ ForeachBodyReturns)
         \/ call = "while" /\ (FlowWhile \/ WhileTest \/ WhileConditionReturns
                               \/ WhileBodyReturns \/ WhileElseReturns)
<1>1. /\ stack # <<>> /\ Top.kind = "call" /\ Top.step.call = call
      /\ Len(stack') < Len(stack)
  BY DEF Leaves
<1>2. stack' # stack
  BY <1>1, LenProperties DEF Shape
<1>3. Engine => CallFunction
  BY <1>1 DEF Engine, BeginStep, StepCancelled, EndBlock, StepReturns
<1>4. ~ FlowTry /\ ~ TryCatch
  BY <1>1, AskingStays DEF FlowTry, TryCatch
<1>5. ~ (Primitive \/ FlowSignal \/ FlowCheckAbort \/ FlowIf \/ IfReturns)
  BY <1>1 DEF Primitive, FlowSignal, FlowCheckAbort, FlowIf, IfReturns, Running,
     Replied, Signals
<1>6. ~ Contracts
  BY <1>1 DEF Contracts, ComposeRunSlot, ComposeRunSlotReturns, LogContext,
     LogContextReturns, RegistryScope, RegistryScopeReturns, Component,
     ComponentReturns, Running, Replied
<1>7. /\ TrySignal \/ TryFinally \/ TryReturns => call = "try"
      /\ FlowForeach \/ ForeachElseReturns \/ ForeachItem \/ ForeachBodyReturns
         => call = "foreach"
      /\ FlowWhile \/ WhileTest \/ WhileConditionReturns \/ WhileBodyReturns
         \/ WhileElseReturns => call = "while"
  BY <1>1 DEF TrySignal, TryFinally, TryReturns, FlowForeach, ForeachElseReturns,
     ForeachItem, ForeachBodyReturns, FlowWhile, WhileTest, WhileConditionReturns,
     WhileBodyReturns, WhileElseReturns, Running, Replied
<1>8. ~ Cancel /\ ~ Terminating /\ ~ UNCHANGED vars
  BY <1>2 DEF Cancel, Terminating, vars
<1>9. Engine \/ Flow
  BY <1>6, <1>8 DEF Next, Run
<1>. QED  BY <1>3, <1>4, <1>5, <1>7, <1>9 DEF Flow

(* A try is not left before its finally slot was asked for, unless a flow  *)
(* signal passes or the run is cancelled, for every program.               *)
THEOREM FinallyBeforeLeaving == Spec => FinallyRuns
<1>1. IInv /\ [Next]_vars =>
        [Leaves("try") /\ HasSlot(Top.step, "finally", prog) =>
           Top.pc = "finally" \/ reply' \in Signals \/ cancelled]_vars
  <2>. SUFFICES ASSUME IInv, [Next]_vars, Leaves("try"),
                       HasSlot(Top.step, "finally", prog), ~ cancelled
                PROVE  Top.pc = "finally" \/ reply' \in Signals
    OBVIOUS
  <2>1. /\ stack # <<>> /\ Top.kind = "call" /\ Top.step.call = "try"
        /\ Len(stack') < Len(stack) /\ Shape
    BY DEF Leaves, IInv, Structure
  <2>2. CallFunction \/ TrySignal \/ TryFinally \/ TryReturns
    BY <2>1, Leaving
  <2>3. ~ CallFunction
    BY <2>1, StaysOn DEF CallFunction, IsCancelled, Functions, Become
  <2>4. TrySignal => reply' \in Signals
    BY DEF TrySignal, Finish
  <2>5. ~ TryFinally
    BY <2>1, AskingStays DEF TryFinally
  <2>6. TryReturns => Top.pc = "finally"
    BY DEF TryReturns, Replied
  <2>. QED  BY <2>2, <2>3, <2>4, <2>5, <2>6
<1>. QED  BY <1>1, Invariance, PTL DEF Spec, FinallyRuns

(* No break or continue raised in the body of a loop gets out of the loop. *)
THEOREM SignalsContained == Spec => LoopsContainSignals
<1>1. IInv /\ [Next]_vars =>
        [(Leaves("foreach") \/ Leaves("while")) /\ Top.pc = "body" =>
           reply' \notin Signals]_vars
  <2>. SUFFICES ASSUME IInv, [Next]_vars, NEW call \in {"foreach", "while"},
                       Leaves(call), Top.pc = "body"
                PROVE  reply' \notin Signals
    OBVIOUS
  <2>1. Shape
    BY DEF IInv, Structure
  <2>2. ForeachBodyReturns \/ WhileBodyReturns
    <3>1. /\ ~ CallFunction /\ ~ FlowForeach /\ ~ ForeachElseReturns /\ ~ ForeachItem
          /\ ~ FlowWhile /\ ~ WhileTest /\ ~ WhileConditionReturns /\ ~ WhileElseReturns
      BY DEF CallFunction, FlowForeach, ForeachElseReturns, ForeachItem, FlowWhile,
         WhileTest, WhileConditionReturns, WhileElseReturns, Running, Replied
    <3>. QED  BY <2>1, <3>1, Leaving
  <2>3. stack # <<>> /\ Len(stack') < Len(stack)
    BY DEF Leaves
  <2>4. PICK r \in Failures \cup {"ok"} : Finish(r)
    <3>1. ASSUME NEW f, Become(f) PROVE FALSE
      BY <2>1, <2>3, <3>1, StaysOn DEF Become
    <3>. DEFINE f1 == [Top EXCEPT !.pc = "next", !.n = @ + 1]
                f2 == [Top EXCEPT !.pc = "test",
                                  !.n = IF Top.limit = 0 THEN 1 ELSE @ + 1]
    <3>2. ~ Become(f1) /\ ~ Become(f2)
      <4>. HIDE DEF f1, f2
      <4>. QED  BY <3>1
    <3>. QED  BY <2>2, <3>2 DEF ForeachBodyReturns, WhileBodyReturns
  <2>. QED  BY <2>4 DEF Finish, Failures, Signals
<1>. QED  BY <1>1, Invariance, PTL DEF Spec, LoopsContainSignals
-----------------------------------------------------------------------------
(* The end of a cancelled run.                                             *)

(* At most how many steps a cancelled run takes in its innermost frame f,  *)
(* with reply r, until it is left.  A component that is about to run       *)
(* enters one more frame.                                                  *)
Weight(f, r) ==
  IF f.kind = "steps" THEN (IF r = "none" THEN 1 ELSE 2)
  ELSE CASE f.pc = "run"       -> IF f.step.call = "component" THEN 8 ELSE 5
         [] f.pc = "next"      -> 4
         [] f.pc = "test"      -> 2
         [] f.pc = "body"      -> IF r = "cancelled" THEN 3 ELSE 5
         [] f.pc = "catch"     -> 2
         [] f.pc = "condition" -> IF r = "cancelled" THEN 1 ELSE 4
         [] OTHER              -> 1

(* ... and until all frames are left.                                      *)
StepsLeft == IF stack = <<>> THEN 0 ELSE 6 * Len(stack) + Weight(Top, reply)

(* Each step of a cancelled run brings its end closer, whatever loops and  *)
(* operators that catch errors it is in.                                   *)
WindsDown == [][cancelled /\ Run => StepsLeft' < StepsLeft]_vars

LEMMA WeightBounds ==
  ASSUME NEW f, NEW r
  PROVE  /\ Weight(f, r) \in 1..8
         /\ f.kind = "steps" \/ f.pc # "run" => Weight(f, r) \in 1..5
BY DEF Weight

(* The innermost frame is left.                                            *)
LEMMA LessWhenLeft ==
  ASSUME IInv, JInv, stack # <<>>, stack' = Rest, UNCHANGED <<prog, cancelled>>
  PROVE  StepsLeft' < StepsLeft
<1>1. /\ Len(stack) \in Nat \ {0} /\ Len(stack') = Len(stack) - 1
      /\ stack' \in Seq(Frame)
  BY StackParts DEF IInv, Structure
<1>2. StepsLeft = 6 * Len(stack) + Weight(Top, reply)
  BY DEF StepsLeft
<1>3. Weight(Top, reply) \in 1..8
  BY WeightBounds
<1>4. CASE stack' = <<>>
  <2>1. StepsLeft' = 0
    BY <1>4 DEF StepsLeft
  <2>. QED  BY <1>1, <1>2, <1>3, <2>1
<1>5. CASE stack' # <<>>
  <2>1. Top' \in Waiting'
    BY <1>5, PopWaits DEF IInv, Structure, JInv
  <2>2. Top'.kind = "steps" \/ Top'.pc # "run"
    BY <2>1 DEF Waiting, Pausing, Frame, StepsFrame, ProperCall, CallFrame, Between
  <2>3. Weight(Top', reply') \in 1..5
    BY <2>2, WeightBounds
  <2>4. StepsLeft' = 6 * Len(stack') + Weight(Top', reply')
    BY <1>5 DEF StepsLeft
  <2>5. PICK n \in Nat, a \in 1..8, b \in 1..5 :
           /\ Len(stack) = n + 1 /\ Len(stack') = n
           /\ Weight(Top, reply) = a /\ Weight(Top', reply') = b
    <3>1. PICK n \in Nat : Len(stack) = n + 1 /\ Len(stack') = n
      BY <1>1
    <3>. QED  BY <1>3, <2>3, <3>1
  <2>6. StepsLeft = 6 * (n + 1) + a /\ StepsLeft' = 6 * n + b
    BY <1>2, <2>4, <2>5
  <2>7. 6 * n + b < 6 * (n + 1) + a
    BY <2>5
  <2>. QED  BY <2>6, <2>7
<1>. QED  BY <1>4, <1>5

(* It goes on as f.                                                        *)
LEMMA LessWhenLighter ==
  ASSUME Shape, stack # <<>>, NEW f \in Frame, stack' = Append(Rest, f),
         Weight(f, reply') < Weight(Top, reply)
  PROVE  StepsLeft' < StepsLeft
<1>1. /\ Len(stack) \in Nat \ {0} /\ Len(stack') = Len(stack)
      /\ stack' # <<>> /\ stack'[Len(stack)] = f
  BY StackParts, AppendProperties
<1>2. Top' = f
  BY <1>1 DEF Top
<1>3. /\ StepsLeft = 6 * Len(stack) + Weight(Top, reply)
      /\ StepsLeft' = 6 * Len(stack) + Weight(f, reply')
  BY <1>1, <1>2 DEF StepsLeft
<1>4. Weight(Top, reply) \in 1..8 /\ Weight(f, reply') \in 1..8
  BY WeightBounds
<1>5. PICK n \in Nat, a \in 1..8, b \in 1..8 :
           /\ Len(stack) = n /\ Weight(Top, reply) = a /\ Weight(f, reply') = b
  BY <1>1, <1>4
<1>6. StepsLeft = 6 * n + a /\ StepsLeft' = 6 * n + b
  BY <1>3, <1>5
<1>7. 6 * n + b < 6 * n + a
  BY <1>5
<1>. QED  BY <1>6, <1>7

(* A cancelled run gives no slot to a function that asks for one.          *)
LEMMA LessWhenAsking ==
  ASSUME IInv, stack # <<>>, Top.kind = "call", cancelled,
         NEW pc \in Labels \ Between, NEW name, RunSlot(name, [Top EXCEPT !.pc = pc]),
         Weight([Top EXCEPT !.pc = pc], "cancelled") < Weight(Top, reply)
  PROVE  StepsLeft' < StepsLeft
<1>. DEFINE f == [Top EXCEPT !.pc = pc]
            h == [f EXCEPT !.ran = FALSE]
<1>1. Top \in ProperCall
  BY CallContext
<1>2. /\ h \in ProperCall /\ h.kind = "call" /\ h.pc = pc /\ h.step = Top.step
      /\ f.kind = "call" /\ f.pc = pc /\ f.step = Top.step
  BY <1>1 DEF ProperCall, CallFrame
<1>3. stack' = Append(Rest, h) /\ reply' = "cancelled"
  BY DEF RunSlot, IsCancelled
<1>4. Weight(f, "cancelled") < Weight(Top, reply)
  OBVIOUS
<1>. HIDE DEF f, h
<1>5. Weight(h, reply') = Weight(f, "cancelled")
  BY <1>2, <1>3 DEF Weight
<1>6. h \in Frame
  BY <1>2 DEF Frame
<1>. QED  BY <1>3, <1>4, <1>5, <1>6, LessWhenLighter DEF IInv, Structure

LEMMA LessWhenReturned ==
  ASSUME IInv, JInv, stack # <<>>, NEW r, Finish(r), UNCHANGED <<prog, cancelled>>
  PROVE  StepsLeft' < StepsLeft
BY LessWhenLeft DEF Finish

(* A cancelled run that goes on does so towards its end.                   *)
LEMMA EngineWindsDown ==
  ASSUME IInv, JInv, cancelled, Engine
  PROVE  StepsLeft' < StepsLeft
<1>1. ~ BeginStep
  BY DEF BeginStep, IsCancelled
<1>2. CASE StepCancelled \/ EndBlock
  BY <1>2, LessWhenLeft DEF StepCancelled, EndBlock, LeaveBlock
<1>3. CASE StepReturns
  <2>1. /\ stack # <<>> /\ Top.kind = "steps" /\ reply # "none"
        /\ UNCHANGED <<prog, cancelled>>
    BY <1>3 DEF StepReturns
  <2>2. CASE LeaveBlock(reply, Unwrapped)
    BY <2>1, <2>2, LessWhenLeft DEF LeaveBlock
  <2>3. CASE Become([Top EXCEPT !.i = @ + 1])
    <3>. DEFINE g == [Top EXCEPT !.i = @ + 1]
    <3>1. g \in StepsFrame /\ g.kind = "steps"
      BY <2>1, FrameKinds, NextStep DEF StepsFrame, IInv, Structure
    <3>2. stack' = Append(Rest, g) /\ reply' = "none"
      BY <2>3 DEF Become
    <3>. HIDE DEF g
    <3>3. Weight(g, reply') = 1 /\ Weight(Top, reply) = 2
      BY <2>1, <3>1, <3>2 DEF Weight
    <3>. QED  BY <2>1, <3>1, <3>2, <3>3, LessWhenLighter DEF Frame, IInv, Structure
  <2>. QED  BY <1>3, <2>2, <2>3 DEF StepReturns
<1>4. CASE CallFunction
  BY <1>4, LessWhenReturned DEF CallFunction, IsCancelled
<1>. QED  BY <1>1, <1>2, <1>3, <1>4 DEF Engine

(* What the labels weigh, when a slot is asked for in a cancelled run.     *)
LEMMA Weights ==
  ASSUME IInv, stack # <<>>, Top.kind = "call"
  PROVE  /\ \A pc \in Labels \ Between :
              Weight([Top EXCEPT !.pc = pc], "cancelled") =
                IF pc = "body" THEN 3 ELSE IF pc = "catch" THEN 2 ELSE 1
         /\ Top.pc = "run" => Weight(Top, reply) =
              IF Top.step.call = "component" THEN 8 ELSE 5
         /\ Top.pc = "next" => Weight(Top, reply) = 4
         /\ Top.pc = "test" => Weight(Top, reply) = 2
         /\ Top.pc = "catch" => Weight(Top, reply) = 2
         /\ Top.pc = "body" => Weight(Top, reply) = IF reply = "cancelled" THEN 3 ELSE 5
         /\ Top.pc = "condition" /\ reply = "ok" => Weight(Top, reply) = 4
<1>1. Top \in ProperCall
  BY CallContext
<1>2. ASSUME NEW pc \in Labels \ Between
      PROVE  Weight([Top EXCEPT !.pc = pc], "cancelled") =
               IF pc = "body" THEN 3 ELSE IF pc = "catch" THEN 2 ELSE 1
  <2>. DEFINE f == [Top EXCEPT !.pc = pc]
  <2>1. f.kind = "call" /\ f.pc = pc
    BY <1>1 DEF ProperCall, CallFrame
  <2>. HIDE DEF f
  <2>2. Weight(f, "cancelled") = IF pc = "body" THEN 3 ELSE IF pc = "catch" THEN 2 ELSE 1
    BY <2>1 DEF Weight, Between
  <2>. QED  BY <2>2 DEF f
<1>3. Top.kind # "steps"
  OBVIOUS
<1>. QED  BY <1>2, <1>3 DEF Weight

LEMMA FlowWindsDown ==
  ASSUME IInv, JInv, cancelled, Flow
  PROVE  StepsLeft' < StepsLeft
<1>0. /\ {"branch", "body", "catch", "finally", "else", "condition"} \subseteq Labels \ Between
      /\ IsCancelled
      /\ 1..MaxItems \subseteq Nat /\ 0..MaxIterations \subseteq Nat
  BY BoundsAssumption DEF Labels, Between, IsCancelled
<1>1. CASE Primitive \/ FlowSignal \/ FlowCheckAbort \/ IfReturns \/ TrySignal
           \/ TryReturns \/ ForeachElseReturns \/ WhileElseReturns
  <2>1. stack # <<>> /\ UNCHANGED <<prog, cancelled>>
    BY <1>1 DEF Primitive, FlowSignal, FlowCheckAbort, IfReturns, TrySignal, TryReturns,
       ForeachElseReturns, WhileElseReturns, Running, Replied, Signals
  <2>2. \E r : Finish(r)
    BY <1>1 DEF Primitive, FlowSignal, FlowCheckAbort, IfReturns, TrySignal, TryReturns,
       ForeachElseReturns, WhileElseReturns
  <2>. QED  BY <2>1, <2>2, LessWhenReturned
<1>2. CASE FlowIf
  <2>1. /\ stack # <<>> /\ Top.kind = "call" /\ Top.pc = "run" /\ Top.step.call = "if"
    BY <1>2 DEF FlowIf, Running
  <2>2. Weight([Top EXCEPT !.pc = "branch"], "cancelled") < Weight(Top, reply)
    BY <1>0, <2>1, Weights
  <2>. QED  BY <1>0, <1>2, <2>1, <2>2, LessWhenAsking DEF FlowIf
<1>3. CASE FlowTry
  <2>1. /\ stack # <<>> /\ Top.kind = "call" /\ Top.pc = "run" /\ Top.step.call = "try"
    BY <1>3 DEF FlowTry, Running
  <2>2. Weight([Top EXCEPT !.pc = "body"], "cancelled") < Weight(Top, reply)
    BY <1>0, <2>1, Weights
  <2>. QED  BY <1>0, <1>3, <2>1, <2>2, LessWhenAsking DEF FlowTry
<1>4. CASE TryCatch
  <2>1. /\ stack # <<>> /\ Top.kind = "call" /\ Top.pc = "body"
    BY <1>4 DEF TryCatch, Replied
  <2>2. Weight([Top EXCEPT !.pc = "catch"], "cancelled") < Weight(Top, reply)
    BY <1>0, <2>1, Weights
  <2>. QED  BY <1>0, <1>4, <2>1, <2>2, LessWhenAsking DEF TryCatch
<1>5. CASE TryFinally
  <2>1. /\ stack # <<>> /\ Top.kind = "call" /\ Top.pc \in {"body", "catch"}
        /\ UNCHANGED <<prog, cancelled>> /\ reply # "none"
    BY <1>5 DEF TryFinally, Replied
  <2>2. CASE Finish(reply)
    BY <2>1, <2>2, LessWhenReturned
  <2>3. CASE RunSlot("finally", [Top EXCEPT !.pc = "finally", !.pending = reply])
    <3>. DEFINE f == [Top EXCEPT !.pc = "finally", !.pending = reply]
                h == [f EXCEPT !.ran = FALSE]
    <3>1. Top \in ProperCall /\ reply \in Replies
      BY <2>1, CallContext
    <3>2. h \in ProperCall /\ h.kind = "call" /\ h.pc = "finally"
      BY <3>1 DEF ProperCall, CallFrame, Labels
    <3>3. stack' = Append(Rest, h)
      BY <1>0, <2>3 DEF RunSlot
    <3>. HIDE DEF f, h
    <3>4. Weight(h, reply') = 1
      BY <3>2 DEF Weight
    <3>5. Weight(h, reply') < Weight(Top, reply)
      BY <2>1, <3>4, Weights
    <3>. QED  BY <2>1, <3>2, <3>3, <3>5, LessWhenLighter DEF Frame, IInv, Structure
  <2>. QED  BY <1>5, <2>2, <2>3 DEF TryFinally
<1>6. CASE FlowForeach
  <2>1. /\ stack # <<>> /\ Top.kind = "call" /\ Top.pc = "run" /\ Top.step.call = "foreach"
        /\ UNCHANGED <<prog, cancelled>>
    BY <1>6 DEF FlowForeach, Running
  <2>2. CASE Finish("error")
    BY <2>1, <2>2, LessWhenReturned
  <2>3. CASE RunSlot("else", [Top EXCEPT !.pc = "else"])
    <3>1. Weight([Top EXCEPT !.pc = "else"], "cancelled") < Weight(Top, reply)
      BY <1>0, <2>1, Weights
    <3>. QED  BY <1>0, <2>1, <2>3, <3>1, LessWhenAsking
  <2>4. CASE \E x \in Nat : Become([Top EXCEPT !.pc = "next", !.limit = x])
    <3>1. PICK x \in Nat : Become([Top EXCEPT !.pc = "next", !.limit = x])
      BY <2>4
    <3>. DEFINE f == [Top EXCEPT !.pc = "next", !.limit = x]
    <3>2. f \in Pausing /\ f.pc = "next" /\ f.kind = "call"
      BY <2>1, LimitedFrame, CallContext DEF CallFrame
    <3>3. stack' = Append(Rest, f)
      BY <3>1 DEF Become
    <3>. HIDE DEF f
    <3>4. Weight(f, reply') < Weight(Top, reply)
      BY <2>1, <3>2, Weights DEF Weight
    <3>. QED  BY <2>1, <3>2, <3>3, <3>4, LessWhenLighter DEF Pausing, IInv, Structure
  <2>. QED  BY <1>0, <1>6, <2>2, <2>3, <2>4 DEF FlowForeach
<1>7. CASE ForeachItem
  <2>1. /\ stack # <<>> /\ Top.kind = "call" /\ Top.pc = "next" /\ UNCHANGED <<prog, cancelled>>
    BY <1>7 DEF ForeachItem
  <2>2. Weight([Top EXCEPT !.pc = "body"], "cancelled") < Weight(Top, reply)
    BY <1>0, <2>1, Weights
  <2>3. Finish("ok") \/ RunSlot("body", [Top EXCEPT !.pc = "body"])
    BY <1>7 DEF ForeachItem
  <2>. QED  BY <1>0, <2>1, <2>2, <2>3, LessWhenReturned, LessWhenAsking
<1>8. CASE ForeachBodyReturns
  <2>1. /\ stack # <<>> /\ Top.kind = "call" /\ Top.pc = "body" /\ Top.step.call = "foreach"
        /\ UNCHANGED <<prog, cancelled>>
    BY <1>8 DEF ForeachBodyReturns, Replied
  <2>2. CASE \E r : Finish(r)
    BY <2>1, <2>2, LessWhenReturned
  <2>3. CASE /\ Become([Top EXCEPT !.pc = "next", !.n = @ + 1])
             /\ reply \in {"ok", "continue"}
    <3>. DEFINE m == Top.n + 1
                f == [Top EXCEPT !.pc = "next", !.n = m]
    <3>1. m \in Nat
      BY <2>1, CallContext DEF CallFrame
    <3>2. stack' = Append(Rest, f)
      BY <2>3 DEF Become
    <3>. HIDE DEF m
    <3>3. f \in ProperCall /\ f.kind = "call" /\ f.pc = "next"
      BY <2>1, <3>1, CallContext DEF ProperCall, CallFrame, Labels
    <3>. HIDE DEF f
    <3>4. Weight(f, reply') < Weight(Top, reply)
      BY <2>1, <2>3, <3>3, Weights DEF Weight
    <3>. QED  BY <2>1, <3>2, <3>3, <3>4, LessWhenLighter DEF Frame, IInv, Structure
  <2>. QED  BY <1>8, <2>2, <2>3 DEF ForeachBodyReturns
<1>9. CASE FlowWhile
  <2>1. /\ stack # <<>> /\ Top.kind = "call" /\ Top.pc = "run" /\ Top.step.call = "while"
        /\ UNCHANGED <<prog, cancelled>>
    BY <1>9 DEF FlowWhile, Running
  <2>2. CASE Finish("error")
    BY <2>1, <2>2, LessWhenReturned
  <2>3. CASE \E x \in Nat : Become([Top EXCEPT !.pc = "test", !.limit = x])
    <3>1. PICK x \in Nat : Become([Top EXCEPT !.pc = "test", !.limit = x])
      BY <2>3
    <3>. DEFINE f == [Top EXCEPT !.pc = "test", !.limit = x]
    <3>2. f \in Pausing /\ f.pc = "test" /\ f.kind = "call"
      BY <2>1, LimitedFrame, CallContext DEF CallFrame
    <3>3. stack' = Append(Rest, f)
      BY <3>1 DEF Become
    <3>. HIDE DEF f
    <3>4. Weight(f, reply') < Weight(Top, reply)
      BY <2>1, <3>2, Weights DEF Weight
    <3>. QED  BY <2>1, <3>2, <3>3, <3>4, LessWhenLighter DEF Pausing, IInv, Structure
  <2>. QED  BY <1>0, <1>9, <2>2, <2>3 DEF FlowWhile
<1>10. CASE WhileTest
  <2>1. /\ stack # <<>> /\ Top.kind = "call" /\ Top.pc = "test"
        /\ RunSlot("condition", [Top EXCEPT !.pc = "condition"])
    BY <1>0, <1>10 DEF WhileTest
  <2>2. Weight([Top EXCEPT !.pc = "condition"], "cancelled") < Weight(Top, reply)
    BY <1>0, <2>1, Weights
  <2>. QED  BY <1>0, <2>1, <2>2, LessWhenAsking
<1>11. CASE WhileConditionReturns
  <2>1. /\ stack # <<>> /\ Top.kind = "call" /\ Top.pc = "condition"
        /\ UNCHANGED <<prog, cancelled>>
    BY <1>11 DEF WhileConditionReturns, Replied
  <2>2. CASE \E r : Finish(r)
    BY <2>1, <2>2, LessWhenReturned
  <2>3. CASE reply = "ok" /\ RunSlot("body", [Top EXCEPT !.pc = "body"])
    <3>1. Weight([Top EXCEPT !.pc = "body"], "cancelled") < Weight(Top, reply)
      BY <1>0, <2>1, <2>3, Weights
    <3>. QED  BY <1>0, <2>1, <2>3, <3>1, LessWhenAsking
  <2>4. CASE reply = "ok" /\ RunSlot("else", [Top EXCEPT !.pc = "else"])
    <3>1. Weight([Top EXCEPT !.pc = "else"], "cancelled") < Weight(Top, reply)
      BY <1>0, <2>1, <2>4, Weights
    <3>. QED  BY <1>0, <2>1, <2>4, <3>1, LessWhenAsking
  <2>. QED  BY <1>11, <2>2, <2>3, <2>4 DEF WhileConditionReturns
<1>12. CASE WhileBodyReturns
  <2>1. /\ stack # <<>> /\ Top.kind = "call" /\ Top.pc = "body" /\ Top.step.call = "while"
        /\ UNCHANGED <<prog, cancelled>>
    BY <1>12 DEF WhileBodyReturns, Replied
  <2>2. CASE \E r : Finish(r)
    BY <2>1, <2>2, LessWhenReturned
  <2>3. CASE /\ Become([Top EXCEPT !.pc = "test", !.n = IF Top.limit = 0 THEN 1 ELSE @ + 1])
             /\ reply \in {"ok", "continue"}
    <3>. DEFINE m == IF Top.limit = 0 THEN 1 ELSE Top.n + 1
                f == [Top EXCEPT !.pc = "test", !.n = m]
    <3>1. m \in Nat
      BY <2>1, CallContext DEF CallFrame
    <3>2. stack' = Append(Rest, f)
      BY <2>3 DEF Become
    <3>. HIDE DEF m
    <3>3. f \in ProperCall /\ f.kind = "call" /\ f.pc = "test"
      BY <2>1, <3>1, CallContext DEF ProperCall, CallFrame, Labels
    <3>. HIDE DEF f
    <3>4. Weight(f, reply') < Weight(Top, reply)
      BY <2>1, <2>3, <3>3, Weights DEF Weight
    <3>. QED  BY <2>1, <3>2, <3>3, <3>4, LessWhenLighter DEF Frame, IInv, Structure
  <2>. QED  BY <1>12, <2>2, <2>3 DEF WhileBodyReturns
<1>. QED  BY <1>1, <1>2, <1>3, <1>4, <1>5, <1>6, <1>7, <1>8, <1>9, <1>10, <1>11, <1>12
     DEF Flow

LEMMA ContractWindsDown ==
  ASSUME IInv, JInv, cancelled, Contracts
  PROVE  StepsLeft' < StepsLeft
<1>0. {"slot", "children"} \subseteq Labels \ Between /\ IsCancelled
  BY DEF Labels, Between, IsCancelled
<1>1. CASE ComposeRunSlotReturns \/ LogContextReturns \/ RegistryScopeReturns
           \/ ComponentReturns
  BY <1>1, LessWhenReturned DEF ComposeRunSlotReturns, LogContextReturns,
     RegistryScopeReturns, ComponentReturns, Replied
<1>2. CASE ComposeRunSlot
  <2>1. /\ stack # <<>> /\ Top.kind = "call" /\ Top.pc = "run"
        /\ Top.step.call = "run_slot" /\ UNCHANGED <<prog, cancelled>>
    BY <1>2 DEF ComposeRunSlot, Running
  <2>2. Weight([Top EXCEPT !.pc = "slot"], "cancelled") < Weight(Top, reply)
    BY <1>0, <2>1, Weights
  <2>3. Finish("error") \/ RunSlot(Top.step.target, [Top EXCEPT !.pc = "slot"])
    BY <1>2 DEF ComposeRunSlot
  <2>. QED  BY <1>0, <2>1, <2>2, <2>3, LessWhenReturned, LessWhenAsking
<1>3. CASE LogContext
  <2>1. /\ stack # <<>> /\ Top.kind = "call" /\ Top.pc = "run"
        /\ Top.step.call = "log_context" /\ UNCHANGED <<prog, cancelled>>
    BY <1>3 DEF LogContext, Running
  <2>2. CASE Finish("error")
    BY <2>1, <2>2, LessWhenReturned
  <2>3. CASE \E pushed \in {0, 1} :
               RunSlot("children", [Top EXCEPT !.pc = "children", !.n = pushed])
    <3>1. PICK pushed \in {0, 1} :
               RunSlot("children", [Top EXCEPT !.pc = "children", !.n = pushed])
      BY <2>3
    <3>. DEFINE f == [Top EXCEPT !.pc = "children", !.n = pushed]
                h == [f EXCEPT !.ran = FALSE]
    <3>2. Top \in CallFrame /\ pushed \in Nat
      BY <2>1, CallContext
    <3>3. /\ h \in CallFrame /\ h.kind = "call" /\ h.pc = "children" /\ h.n = pushed
      BY <3>2 DEF CallFrame, Labels
    <3>4. stack' = Append(Rest, h)
      BY <1>0, <3>1 DEF RunSlot
    <3>. HIDE DEF f, h
    <3>5. h \in Frame
      BY <3>3 DEF Frame, ProperCall
    <3>6. Weight(h, reply') = 1
      BY <3>3 DEF Weight
    <3>7. Weight(h, reply') < Weight(Top, reply)
      BY <2>1, <3>6, Weights
    <3>. QED  BY <2>1, <3>4, <3>5, <3>7, LessWhenLighter DEF IInv, Structure
  <2>. QED  BY <1>3, <2>2, <2>3 DEF LogContext
<1>4. CASE RegistryScope
  <2>1. /\ stack # <<>> /\ Top.kind = "call" /\ Top.pc = "run"
        /\ Top.step.call = "scope" /\ UNCHANGED <<prog, cancelled>>
    BY <1>4 DEF RegistryScope, Running
  <2>2. Weight([Top EXCEPT !.pc = "children"], "cancelled") < Weight(Top, reply)
    BY <1>0, <2>1, Weights
  <2>3. Finish("error") \/ RunSlot("children", [Top EXCEPT !.pc = "children"])
    BY <1>4 DEF RegistryScope
  <2>. QED  BY <1>0, <2>1, <2>2, <2>3, LessWhenReturned, LessWhenAsking
<1>5. CASE Component
  <2>1. /\ stack # <<>> /\ Top.kind = "call" /\ Top.pc = "run"
        /\ Top.step.call = "component"
    BY <1>5 DEF Component, Running
  <2>. DEFINE h == [[Top EXCEPT !.pc = "compose"] EXCEPT !.ran = TRUE]
              g == [kind |-> "steps", block |-> Top.step.body, i |-> 1,
                    taken |-> <<>>, chain |-> handler]
  <2>2. h \in ProperCall
    BY <2>1, CallContext DEF ProperCall, CallFrame, Labels
  <2>3. g \in StepsFrame /\ g.kind = "steps"
    <3>1. Top.step.body \in Block
      BY <2>1, CallContext DEF CallFrame, Step
    <3>2. handler \in Chain /\ <<>> \in Chain
      BY DEF IInv, Structure, Shape, Chain
    <3>. QED  BY <3>1, <3>2 DEF StepsFrame
  <2>4. stack' = Rest \o <<h, g>> /\ reply' = "none"
    BY <1>5 DEF Component, EnterBlock
  <2>. HIDE DEF g, h
  <2>5. h \in Frame /\ g \in Frame
    BY <2>2, <2>3 DEF Frame
  <2>6. /\ Len(stack) \in Nat \ {0} /\ Len(stack') = Len(stack) + 1
        /\ stack'[Len(stack) + 1] = g
    BY <2>1, <2>4, <2>5, NestPlaces DEF IInv, Structure
  <2>7. stack' # <<>> /\ Top' = g
    BY <2>6, EmptySeq DEF Top
  <2>8. Weight(Top, reply) = 8 /\ Weight(g, reply') = 1
    BY <2>1, <2>3, <2>4, Weights DEF Weight
  <2>9. PICK n \in Nat : Len(stack) = n
    BY <2>6
  <2>10. StepsLeft = 6 * n + 8 /\ StepsLeft' = 6 * (n + 1) + 1
    BY <2>1, <2>6, <2>7, <2>8, <2>9 DEF StepsLeft
  <2>. QED  BY <2>9, <2>10
<1>. QED  BY <1>1, <1>2, <1>3, <1>4, <1>5 DEF Contracts

(* Each step of a cancelled run brings its end closer, in every program:   *)
(* with n frames on the stack at most 6 n + 8 steps are left.              *)
THEOREM CancelledWindsDown == Spec => WindsDown
<1>1. IInv /\ JInv /\ [Next]_vars =>
        [cancelled /\ Run => StepsLeft' < StepsLeft]_vars
  BY EngineWindsDown, FlowWindsDown, ContractWindsDown DEF Run
<1>. QED  BY <1>1, Invariance, CountedAlways, PTL DEF Spec, WindsDown

(* The measure is a natural number, so that it cannot decrease for ever.   *)
THEOREM StepsLeftNatural == Spec => [](StepsLeft \in Nat)
<1>1. IInv => StepsLeft \in Nat
  <2>. SUFFICES ASSUME IInv PROVE StepsLeft \in Nat
    OBVIOUS
  <2>1. PICK n \in Nat : Len(stack) = n
    BY LenProperties DEF IInv, Structure, Shape
  <2>2. PICK w \in 1..8 : Weight(Top, reply) = w
    BY WeightBounds
  <2>. QED  BY <2>1, <2>2 DEF StepsLeft
<1>. QED  BY <1>1, Invariance, PTL
=============================================================================
