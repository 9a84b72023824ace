--------------------------- MODULE RegistryScope ----------------------------
(***************************************************************************)
(* The registry of the kernel and its scopes (src/src/registry.rs).  The   *)
(* functions and bindings are shared by every context made from the        *)
(* registry: the one of the program and those in which the threads of its  *)
(* HTTP hosts run their handlers.  A scope is a copy of the registry, kept *)
(* by the context that entered it and written back when it leaves.  Each   *)
(* access takes the registry's mutex, but entering a scope takes it twice: *)
(* once to copy the registry, once to write the copy with its overrides.   *)
(***************************************************************************)
EXTENDS Naturals, Sequences

CONSTANTS Ctx,       \* the contexts
          Amenders,  \* those that run functions which register or bind
          Name, Contract, Entry, Nothing,
          MaxDepth   \* bound: scopes a context has open at once

ASSUME CtxAssumption == Ctx # {} /\ Amenders \subseteq Ctx

ASSUME NamesAssumption ==
  Contract \subseteq Name /\ Nothing \notin Name /\ Nothing \notin Entry

VARIABLES registry,   \* RegistryInner
          snapshots,  \* registry_scope_stack, by context
          entering,   \* what enter_registry_scope holds between its locks
          answer,     \* what the last Context::call found
          base,       \* history: the registry as made outside of all scopes
          exclusive   \* history: no context has changed the registry while
                      \* another had a scope open or was entering one

vars == <<registry, snapshots, entering, answer, base, exclusive>>

Scopes == INSTANCE ScopedRegistry WITH layers <- <<registry>>

Idle == [phase |-> "idle"]

TypeOK ==
  /\ registry \in Scopes!Env
  /\ snapshots \in [Ctx -> Seq(Scopes!Env)]
  /\ entering \in [Ctx -> {Idle} \cup
                          [phase : {"entering"}, taken : Scopes!Env,
                           overrides : Scopes!Bindings]]
  /\ answer \in Entry \cup {Nothing}
  /\ base \in Scopes!Env
  /\ exclusive \in BOOLEAN

Init ==
  /\ registry \in Scopes!Env
  /\ snapshots = [c \in Ctx |-> <<>>]
  /\ entering = [c \in Ctx |-> Idle]
  /\ answer = Nothing
  /\ base = registry
  /\ exclusive = TRUE

(* c has a scope open or is entering one.                                  *)
Busy(c) == snapshots[c] # <<>> \/ entering[c] # Idle

Alone(c) == \A d \in Ctx \ {c} : ~ Busy(d)

-----------------------------------------------------------------------------
(* Entering.                                                               *)
CopyRegistry(c, overrides) ==
  /\ entering[c] = Idle
  /\ Len(snapshots[c]) < MaxDepth
  /\ entering' = [entering EXCEPT ![c] =
                    [phase |-> "entering", taken |-> registry,
                     overrides |-> overrides]]
  /\ exclusive' = (exclusive /\ Alone(c))
  /\ UNCHANGED <<registry, snapshots, answer, base>>

(* Faulty variant: the bindings of the scope are the overrides alone.      *)
Scoped_Replaces(e) ==
  [e.taken EXCEPT !.bindings =
     [k \in {x \in Contract : e.overrides[x] # Nothing} |-> e.overrides[k]]]

(* The registry of the scope that e enters.                                *)
Scoped(e) ==
  [e.taken EXCEPT !.bindings = Scopes!Override(@, e.overrides)]

(* Faulty variant: the registry is copied after the overrides are written. *)
WriteScope_CopiesLate(c) ==
  /\ entering[c] # Idle
  /\ registry' = Scoped(entering[c])
  /\ snapshots' = [snapshots EXCEPT ![c] = Append(@, registry')]
  /\ entering' = [entering EXCEPT ![c] = Idle]
  /\ UNCHANGED <<answer, base, exclusive>>

WriteScope(c) ==
  /\ entering[c] # Idle
  /\ registry' = Scoped(entering[c])
  /\ snapshots' = [snapshots EXCEPT ![c] = Append(@, entering[c].taken)]
  /\ entering' = [entering EXCEPT ![c] = Idle]
  /\ UNCHANGED <<answer, base, exclusive>>

(* Faulty variant: the functions registered in the scope stay.             *)
LeaveScope_BindingsOnly(c) ==
  /\ entering[c] = Idle
  /\ snapshots[c] # <<>>
  /\ registry' = [registry EXCEPT
                    !.bindings = snapshots[c][Len(snapshots[c])].bindings]
  /\ snapshots' = [snapshots EXCEPT ![c] = SubSeq(@, 1, Len(@) - 1)]
  /\ UNCHANGED <<entering, answer, base, exclusive>>

LeaveScope(c) ==
  /\ entering[c] = Idle
  /\ snapshots[c] # <<>>
  /\ registry' = snapshots[c][Len(snapshots[c])]
  /\ snapshots' = [snapshots EXCEPT ![c] = SubSeq(@, 1, Len(@) - 1)]
  /\ UNCHANGED <<entering, answer, base, exclusive>>

-----------------------------------------------------------------------------
(* The other accesses.                                                     *)

(* The registry becomes env; outside of all scopes that is for good.       *)
Amend(c, env) ==
  /\ c \in Amenders
  /\ entering[c] = Idle
  /\ registry' = env
  /\ base' = IF Busy(c) THEN base ELSE env
  /\ exclusive' = (exclusive /\ Alone(c))
  /\ UNCHANGED <<snapshots, entering, answer>>

Register(c, name, entry) == Amend(c, Scopes!WithFunction(registry, name, entry))

SetBinding(c, contract, name) ==
  Amend(c, Scopes!WithBinding(registry, contract, name))

Call(c, name) ==
  /\ entering[c] = Idle
  /\ answer' = Scopes!Find(registry, name)
  /\ UNCHANGED <<registry, snapshots, entering, base, exclusive>>

Next ==
  \E c \in Ctx :
    \/ \E overrides \in Scopes!Bindings : CopyRegistry(c, overrides)
    \/ WriteScope(c)
    \/ LeaveScope(c)
    \/ \E name \in Name, entry \in Entry : Register(c, name, entry)
    \/ \E contract \in Contract, name \in Name : SetBinding(c, contract, name)
    \/ \E name \in Name : Call(c, name)

Spec == Init /\ [][Next]_vars
-----------------------------------------------------------------------------
(* Properties.                                                             *)

NoScopeOpen == \A c \in Ctx : ~ Busy(c)

(* Scoped registrations and bindings are undone: when no scope is open the *)
(* registry is what was registered and bound outside of scopes.  It holds  *)
(* for one context, not for two whose scopes overlap in time.              *)
RestoredWhenIdle == NoScopeOpen => registry = base

(* It does hold as long as no context enters a scope, registers or binds   *)
(* while another one has a scope open: the scopes of several contexts may  *)
(* follow each other in any order.                                         *)
RestoredIfExclusive == exclusive => RestoredWhenIdle

(* To the only context of a registry its scopes are lexical scopes.        *)
TheContext == CHOOSE c \in Ctx : TRUE

Lexical == INSTANCE ScopedRegistry
             WITH layers <- Append(snapshots[TheContext], registry)

LexicalScoping == Lexical!ScopedSpec
=============================================================================
