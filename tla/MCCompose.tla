----------------------------- MODULE MCCompose -----------------------------
(***************************************************************************)
(* Programs for the checks of Compose.  A program has five blocks: Main    *)
(* runs one step whose slots are Inner, Left, Right; the step of Inner has *)
(* slots of its own, Left and Right; Left and Right run a function that    *)
(* has none, and Empty is empty.                                           *)
(***************************************************************************)
EXTENDS Compose, TLC

MCBlock == {"Main", "Inner", "Left", "Right", "Empty"}

MCSlotName == {"children", "body", "then", "else", "condition", "catch",
               "finally", "other"}

None == [form |-> "none", at |-> <<>>]
ListOf(b) == [form |-> "list", at |-> "children" :> b]
MapOf(f) == [form |-> "map", at |-> f]

Call(name) == [call |-> name, children |-> None, slots |-> None,
               target |-> "other", optional |-> FALSE, body |-> "Empty"]

Given(name, children) == [Call(name) EXCEPT !.children = children]

(* A step that calls a function with slots: first runs block b, the other  *)
(* slots block c.                                                          *)
Steps(b, c) ==
  {Given("if", MapOf("then" :> b @@ "else" :> c)),
   Given("if", MapOf("then" :> b)),
   Given("try", MapOf("children" :> b @@ "catch" :> c)),
   Given("try", MapOf("children" :> b @@ "finally" :> c)),
   Given("try", MapOf("children" :> b @@ "catch" :> c @@ "finally" :> c)),
   Given("foreach", ListOf(b)),
   Given("foreach", MapOf("body" :> b @@ "else" :> c)),
   Given("while", MapOf("condition" :> c @@ "body" :> b)),
   Given("while", MapOf("condition" :> b @@ "body" :> c @@ "else" :> c)),
   Given("log_context", ListOf(b)),
   Given("scope", ListOf(b)),
   [Given("component", MapOf("other" :> c @@ "children" :> c)) EXCEPT !.body = b]}

Swallowers(b) ==
  {[Given("run_slot", ListOf(b)) EXCEPT !.optional = TRUE],
   [Call("run_slot") EXCEPT !.slots = MapOf("other" :> b)]}

Leaf == {Call("primitive"), Call("break"), Call("continue"),
         Call("check_abort"), Call("missing"), Call("if"),
         Call("log_context")}

Program(main, inner, left, right) ==
  [b \in MCBlock |-> CASE b = "Main"  -> main
                       [] b = "Inner" -> inner
                       [] b = "Left"  -> left
                       [] b = "Right" -> right
                       [] b = "Empty" -> <<>>]

(* Every nesting of two of the functions that run slots, over every leaf.  *)
FlowPrograms ==
  {Program(<<m>>, <<i>>, <<l>>, <<r>>) :
     m \in Steps("Inner", "Right") \cup Swallowers("Inner"),
     i \in Steps("Left", "Right") \cup Swallowers("Left"),
     l \in Leaf, r \in {Call("primitive"), Call("continue")}}

(* A foreach over an empty list.                                           *)
ElsePrograms ==
  {Program(<<Given("foreach", MapOf("body" :> "Right" @@ "else" :> "Left"))>>,
           <<>>, <<Call("primitive")>>, <<Call("primitive")>>)}

LogPrograms ==
  {Program(<<Given("try", MapOf("children" :> "Inner" @@ "catch" :> "Right"))>>,
           <<Given("log_context", ListOf("Left"))>>,
           <<Call("primitive")>>, <<Call("primitive")>>)}

(* An optional slot that runs a log.context without children.              *)
OptionalPrograms ==
  {Program(<<m>>, <<>>, <<Call("primitive"), Call("log_context")>>, <<>>) :
     m \in Swallowers("Left")}
=============================================================================
