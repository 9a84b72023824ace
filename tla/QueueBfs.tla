------------------------------ MODULE QueueBfs ------------------------------
(***************************************************************************)
(* The helper tooling/queue/bfs (queue_bfs_helper of                       *)
(* src/src/tooling/mod.rs): a search over a queue of items.  The slot      *)
(* `key` names an item, and the slot `process` handles it and answers with *)
(* its children, unless an item of that key has been processed before.     *)
(* Another thread may cancel the run at any time.                          *)
(***************************************************************************)
EXTENDS ToolingData, Functions, SequencesExt

VARIABLES pc,
          queue,      \* the items to come
          visited,    \* the keys seen, those given with the call included
          iterations,
          limit,      \* maxIterations, 0 for none
          item, key,  \* those of this iteration
          cancelled,  \* the flag of the run
          known,      \* history: the keys given with the call
          queued,     \* history: how many items there have been
          processed,  \* history: the keys processed, in order
          answer

vars == <<pc, queue, visited, iterations, limit, item, key, cancelled,
          known, queued, processed, answer>>

None == "none"

Pcs == {"idle", "next", "key", "process", "ended"}

TypeOK ==
  /\ pc \in Pcs
  /\ queue \in Seq(Item)
  /\ visited \subseteq Key /\ known \subseteq visited
  /\ iterations \in Nat /\ queued \in Nat
  /\ limit \in 0..MaxLimit
  /\ item \in Item \cup {None} /\ key \in Key \cup {None}
  /\ cancelled \in BOOLEAN
  /\ processed \in Seq(Key)
  /\ answer \in {"none", "ok", "limit", "error"}
  /\ pc = "ended" <=> answer # "none"

Init ==
  /\ pc = "idle"
  /\ queue = <<>>
  /\ visited = {} /\ known = {}
  /\ iterations = 0 /\ queued = 0
  /\ limit = 0
  /\ item = None /\ key = None
  /\ cancelled = FALSE
  /\ processed = <<>>
  /\ answer = "none"

CallQueueBfs ==
  /\ pc = "idle"
  /\ pc' = "next"
  /\ queue' \in SeqOf(Item, MaxItems)
  /\ queued' = Len(queue')
  /\ known' \in SUBSET Key /\ visited' = known'
  /\ limit' \in 0..MaxLimit
  /\ UNCHANGED <<iterations, item, key, cancelled, processed, answer>>

Return(a) == pc' = "ended" /\ answer' = a

EmptyQueue ==
  /\ pc = "next" /\ queue = <<>>
  /\ Return("ok")
  /\ UNCHANGED <<queue, visited, iterations, limit, item, key, cancelled,
                 known, queued, processed>>

(* Faulty variant: the limit is passed by one iteration.                   *)
AtLimit_OffByOne == limit > 0 /\ iterations > limit

AtLimit == limit > 0 /\ iterations >= limit

PopItem ==
  /\ pc = "next" /\ queue # <<>>
  /\ IF AtLimit
       THEN Return("limit") /\ UNCHANGED <<queue, item>>
       ELSE /\ item' = Head(queue)
            /\ queue' = Tail(queue)
            /\ pc' = "key"
            /\ UNCHANGED answer
  /\ UNCHANGED <<visited, iterations, limit, key, cancelled, known, queued,
                 processed>>

PassOver == iterations' = iterations + 1

(* A key slot that fails, is cancelled or answers no text leaves the text  *)
(* of the item for its key.                                                *)
KeySlot ==
  /\ pc = "key"
  /\ key' \in IF cancelled THEN {item} ELSE Key
  /\ IF key' \in visited
       THEN PassOver /\ pc' = "next" /\ UNCHANGED visited
       ELSE /\ visited' = visited \cup {key'}
            /\ pc' = "process"
            /\ UNCHANGED iterations
  /\ UNCHANGED <<queue, limit, item, cancelled, known, queued, processed, answer>>

(* Faulty variant: the slot runs in a context with a flag of its own.      *)
SlotCancelled_OwnFlag == FALSE

(* Context::run_slot looks at the flag before and after the slot.          *)
SlotCancelled == cancelled

ProcessSlot ==
  /\ pc = "process"
  /\ \/ /\ ~ SlotCancelled
        /\ \E children \in SeqOf(Item, MaxChildren) :
             /\ queue' = queue \o children
             /\ queued' = queued + Len(children)
        /\ iterations' = iterations + 1
        /\ processed' = Append(processed, key)
        /\ pc' = "next"
        /\ UNCHANGED answer
     \/ /\ Return("error")
        /\ UNCHANGED <<queue, queued, iterations, processed>>
  /\ UNCHANGED <<visited, limit, item, key, cancelled, known>>

Cancel ==
  /\ pc # "ended"
  /\ cancelled' = TRUE
  /\ UNCHANGED <<pc, queue, visited, iterations, limit, item, key, known,
                 queued, processed, answer>>

Next ==
  CallQueueBfs \/ EmptyQueue \/ PopItem \/ KeySlot \/ ProcessSlot \/ Cancel
-----------------------------------------------------------------------------
(* Properties.                                                             *)

(* Each key is processed at most once, and none that was given as visited; *)
(* each item that ever was in the queue is counted once, whether it was    *)
(* processed or passed over; no more items are looked at than allowed; and *)
(* a search that succeeds has looked at all of them and processed all keys *)
(* it reports as visited.                                                  *)
InHand == IF pc \in {"key", "process"} THEN 1 ELSE 0

SearchSound ==
  /\ \A j, k \in DOMAIN processed : j # k => processed[j] # processed[k]
  /\ Range(processed) \cap known = {}
  /\ pc # "ended" => iterations + InHand + Len(queue) = queued
  /\ limit > 0 => iterations <= limit
  /\ answer = "ok" => /\ iterations = queued
                      /\ Range(processed) = visited \ known
  /\ answer = "limit" => iterations = limit /\ limit < queued

(* queue_bfs drops the answer of its own look at the flag, but once the    *)
(* run is cancelled no item is processed any more.                         *)
CancelStopsSearch == [][cancelled => processed' = processed]_vars
=============================================================================
