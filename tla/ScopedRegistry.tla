--------------------------- MODULE ScopedRegistry ---------------------------
(***************************************************************************)
(* What registry scopes promise to the one who uses them: lexical scoping. *)
(* Scopes nest, each has the registry of the scope around it with some     *)
(* contracts bound anew, whatever is registered or bound goes to the       *)
(* innermost scope, and leaving a scope forgets all of it.                 *)
(***************************************************************************)
EXTENDS Naturals, Sequences

CONSTANTS Name,      \* names of functions and contracts
          Contract,  \* the names that may be bound
          Entry,     \* definitions of functions
          Nothing    \* what a name without definition or binding stands for

Bindings == [Contract -> Name \cup {Nothing}]

Env == [bindings : Bindings, funcs : [Name -> Entry \cup {Nothing}]]

(* What a call of `name` finds: the function of that name, else the one    *)
(* the name is bound to; bindings are followed once.                       *)
Find(env, name) ==
  IF env.funcs[name] # Nothing THEN env.funcs[name]
  ELSE IF name \in Contract /\ env.bindings[name] # Nothing
       THEN env.funcs[env.bindings[name]]
       ELSE Nothing

(* The bindings with overrides on top of them.                             *)
Override(bindings, overrides) ==
  [k \in Contract |-> IF overrides[k] # Nothing THEN overrides[k] ELSE bindings[k]]

WithBinding(env, contract, name) == [env EXCEPT !.bindings[contract] = name]

WithFunction(env, name, entry) == [env EXCEPT !.funcs[name] = entry]

VARIABLES layers,  \* the registries of the open scopes, innermost last
          answer   \* what the last call found

Inner == layers[Len(layers)]
Outer == SubSeq(layers, 1, Len(layers) - 1)

ScopedInit ==
  /\ \E env \in Env : layers = <<env>>
  /\ answer = Nothing

Open(overrides) ==
  /\ layers' = Append(layers,
                 [Inner EXCEPT !.bindings = Override(@, overrides)])
  /\ UNCHANGED answer

Close ==
  /\ Len(layers) > 1
  /\ layers' = Outer
  /\ UNCHANGED answer

Amend(env) ==
  /\ layers' = Append(Outer, env)
  /\ UNCHANGED answer

Ask(name) ==
  /\ answer' = Find(Inner, name)
  /\ UNCHANGED layers

ScopedNext ==
  \/ \E overrides \in Bindings : Open(overrides)
  \/ Close
  \/ \E name \in Name, entry \in Entry : Amend(WithFunction(Inner, name, entry))
  \/ \E contract \in Contract, name \in Name :
       Amend(WithBinding(Inner, contract, name))
  \/ \E name \in Name : Ask(name)

ScopedSpec == ScopedInit /\ [][ScopedNext]_<<layers, answer>>
=============================================================================
