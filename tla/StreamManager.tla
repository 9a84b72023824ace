---------------------------- MODULE StreamManager ----------------------------
(***************************************************************************)
(* The streams of a context (src/src/streams.rs): content registered as a  *)
(* list of chunks, read in pieces that need not agree with the chunks.     *)
(* What a read took out of the chunks beyond its limit is kept in pending. *)
(*                                                                         *)
(* Content is a sequence of bytes with the places where its chunks end.    *)
(***************************************************************************)
EXTENDS Integers, Sequences

CONSTANTS Content,     \* contents that occur: [bytes, ends]
          Limit,       \* the values of maxBytes, NoLimit when it is absent
          NoLimit,
          MaxStreams,  \* bound: streams registered in a run
          MaxEmpty     \* bound: the number of a chunk up to which reads of no
                       \* bytes go on producing empty chunks

(* The bytes of the contents, however these are cut into chunks.           *)
Offered == {c.bytes : c \in Content}

Bytes == INSTANCE ByteStreams
           WITH Streams <- Offered, streams <- <<>>,
                issued <- 0, answer <- <<>>

(* The ends of the chunks do not decrease and the last is that of the      *)
(* content; chunks may be empty, and there may be none.                    *)
WellCut(c) ==
  /\ c.ends \in Seq(0..Len(c.bytes))
  /\ \A j, k \in 1..Len(c.ends) : j <= k => c.ends[j] <= c.ends[k]
  /\ IF c.ends = <<>> THEN c.bytes = <<>> ELSE c.ends[Len(c.ends)] = Len(c.bytes)

ASSUME ContentAssumption ==
  \A c \in Content : c.bytes \in Seq(Bytes!Byte) /\ WellCut(c)

ASSUME LimitAssumption ==
  /\ NoLimit \notin Int /\ Limit \subseteq Nat \cup {NoLimit}
  /\ MaxStreams \in Nat /\ MaxEmpty \in Nat

VARIABLES entries,  \* the entries, by number of their handle
          counter,  \* handles given out
          reply     \* what the last operation returned

vars == <<entries, counter, reply>>

(* `taken` is history: the bytes that left the entry.                      *)
Entry == [content : Content, encoding : Bytes!Encoding, pending : Seq(Bytes!Byte),
          index : Nat, done : BOOLEAN, seq : Nat, taken : Nat]

Init ==
  /\ entries = <<>>
  /\ counter = 0
  /\ reply = Bytes!Plain("none")

Put(id, entry) ==
  entries' = [h \in DOMAIN entries \cup {id} |->
                IF h = id THEN entry ELSE entries[h]]

-----------------------------------------------------------------------------
(* Registering and closing.                                                *)

(* Faulty variant: the number is taken before counting.                    *)
NextId_Before == counter

NextId == counter + 1

RegisterChunks(content, encoding) ==
  /\ counter < MaxStreams
  /\ counter' = counter + 1
  /\ Put(NextId, [content |-> content, encoding |-> encoding, pending |-> <<>>,
                  index |-> 0, done |-> FALSE, seq |-> 0, taken |-> 0])
  /\ reply' = Bytes!Plain("handle")

Close(id) ==
  /\ id \in DOMAIN entries
  /\ entries' = [h \in DOMAIN entries \ {id} |-> entries[h]]
  /\ reply' = Bytes!Plain("released")
  /\ UNCHANGED counter

(* Reading or closing with a handle that is closed or never was given out. *)
UnknownHandle(id) ==
  /\ id \notin DOMAIN entries
  /\ reply' = Bytes!Plain("error")
  /\ UNCHANGED <<entries, counter>>

-----------------------------------------------------------------------------
(* Reading.                                                                *)

End(content, k) == IF k = 0 THEN 0 ELSE content.ends[k]

(* The buffer of a read that has gone on to the end of chunk k.            *)
Buffer(e, k) ==
  e.pending \o SubSeq(e.content.bytes, End(e.content, e.index) + 1, End(e.content, k))

(* Faulty variant: a read with a limit stops after one chunk with bytes.   *)
Enough_AnyByte(buffer, limit) == limit # NoLimit /\ (limit = 0 \/ buffer # <<>>)

Enough(buffer, limit) == limit # NoLimit /\ Len(buffer) >= limit

(* The chunk up to which a read goes on.                                   *)
FillsUpTo(e, limit, k) ==
  /\ k \in e.index..Len(e.content.ends)
  /\ k = Len(e.content.ends) \/ Enough(Buffer(e, k), limit)
  /\ \A j \in e.index..(k - 1) : ~ Enough(Buffer(e, j), limit)

Exhausted(e) == e.done /\ e.pending = <<>>

ReadExhausted(id, limit) ==
  /\ id \in DOMAIN entries
  /\ Exhausted(entries[id])
  /\ reply' = Bytes!Empty("done", limit)
  /\ UNCHANGED <<entries, counter>>

(* Nothing was read: no chunk was left with a byte in it, or the limit is  *)
(* zero.  Faulty variant: the early return comes before done is set.       *)
ReadNothing_NotDone(id, limit) ==
  /\ id \in DOMAIN entries
  /\ ~ Exhausted(entries[id])
  /\ LET e == entries[id]
     IN  \E k \in 0..Len(e.content.ends) :
           /\ FillsUpTo(e, limit, k)
           /\ Buffer(e, k) = <<>>
           /\ Put(id, [e EXCEPT !.index = k, !.pending = <<>>])
  /\ reply' = Bytes!Empty("done", limit)
  /\ UNCHANGED counter

ReadNothing(id, limit) ==
  /\ id \in DOMAIN entries
  /\ ~ Exhausted(entries[id])
  /\ LET e == entries[id]
     IN  \E k \in 0..Len(e.content.ends) :
           /\ FillsUpTo(e, limit, k)
           /\ Buffer(e, k) = <<>>
           /\ Put(id, [e EXCEPT !.index = k, !.pending = <<>>,
                                !.done = (@ \/ k = Len(e.content.ends))])
  /\ reply' = Bytes!Empty("done", limit)
  /\ UNCHANGED counter

(* Faulty variant: what exceeds the limit is dropped.                      *)
Carry_Dropped(buffer, limit) == <<>>

Carry(buffer, limit) == Bytes!From(buffer, Bytes!Share(buffer, limit))

(* The entry after a read up to chunk k that has got the given buffer.     *)
After(e, limit, k) ==
  [e EXCEPT !.index = k, !.pending = Carry(Buffer(e, k), limit),
            !.done = (@ \/ k = Len(e.content.ends)),
            !.taken = @ + Bytes!Share(Buffer(e, k), limit)]

(* Bytes that do not decode are lost: they have left pending.              *)
ReadBytes(id, limit, encoding) ==
  /\ id \in DOMAIN entries
  /\ ~ Exhausted(entries[id])
  /\ limit = 0 => entries[id].seq < MaxEmpty
  /\ LET e == entries[id]
     IN  \E k \in 0..Len(e.content.ends) :
           /\ FillsUpTo(e, limit, k)
           /\ Buffer(e, k) # <<>>
           /\ LET chunk == Bytes!FirstOf(Buffer(e, k), limit)
              IN  \/ /\ Bytes!Decodes(chunk, encoding)
                     /\ Put(id, [After(e, limit, k) EXCEPT !.seq = @ + 1])
                     /\ reply' = Bytes!Chunk(chunk, e.seq, limit)
                  \/ /\ ~ Bytes!Decodes(chunk, encoding)
                     /\ Put(id, After(e, limit, k))
                     /\ reply' = Bytes!Empty("error", limit)
  /\ UNCHANGED counter

(* The encoding asked for, or else that of the stream.                     *)
Read(id, limit) ==
  \/ ReadExhausted(id, limit)
  \/ ReadNothing(id, limit)
  \/ \E decode \in Bytes!Encoding : ReadBytes(id, limit, decode)
  \/ id \in DOMAIN entries /\ ReadBytes(id, limit, entries[id].encoding)

Next ==
  \/ \E content \in Content, encoding \in Bytes!Encoding :
       RegisterChunks(content, encoding)
  \/ \E id \in 1..MaxStreams :
       \/ \E limit \in Limit : Read(id, limit)
       \/ Close(id)
       \/ UnknownHandle(id)

Spec == Init /\ [][Next]_vars

(* A reader goes on reading until it is told that the stream is over, as   *)
(* the resolver's download does, and asks for at least one byte.           *)
FairSpec ==
  /\ Spec
  /\ \A id \in 1..MaxStreams : WF_vars(\E limit \in Limit \ {0} : Read(id, limit))
-----------------------------------------------------------------------------
(* Properties.                                                             *)

TypeOK ==
  /\ DOMAIN entries \subseteq 1..counter
  /\ entries \in [DOMAIN entries -> Entry]
  /\ counter \in Nat
  /\ reply \in [kind : {"none", "handle", "released", "done", "chunk", "error"},
                bytes : Seq(Bytes!Byte), seq : Nat,
                asked : Limit \cup {NoLimit}]

(* No byte is lost, repeated or reordered between the chunks, pending and  *)
(* the readers: pending and the chunks not yet visited are what follows    *)
(* the bytes taken so far.                                                 *)
Accounted(e) ==
  /\ e.index \in 0..Len(e.content.ends)
  /\ e.taken \in 0..End(e.content, e.index)
  /\ e.pending = SubSeq(e.content.bytes, e.taken + 1, End(e.content, e.index))

Conserved == \A id \in DOMAIN entries : Accounted(entries[id])

(* Readers cannot tell how the content was cut into chunks: every read     *)
(* gets exactly the next bytes up to its limit.                            *)
ByteStreams == INSTANCE ByteStreams
  WITH Streams <- Offered,
       streams <- [id \in DOMAIN entries |->
                     [bytes |-> entries[id].content.bytes,
                      at |-> entries[id].taken, seq |-> entries[id].seq]],
       issued <- counter,
       answer <- reply

ChunkingInvisible == ByteStreams!StreamsSpec

(* A closed handle never comes to name another stream.                     *)
HandlesStayClosed ==
  [][\A id \in 1..counter : id \notin DOMAIN entries => id \notin DOMAIN entries']_vars

(* A reader that keeps asking for bytes reaches the end.                   *)
ReadersFinish ==
  \A id \in 1..MaxStreams :
    id \in DOMAIN entries ~> (id \in DOMAIN entries => Exhausted(entries[id]))
=============================================================================
