----------------------------- MODULE ByteStreams -----------------------------
(***************************************************************************)
(* What readers may expect of streams: a stream is a sequence of bytes,    *)
(* and a read of at most `limit` bytes gets the next ones, as many as      *)
(* there are up to the limit.  Bytes that cannot be decoded are skipped    *)
(* with an error, and a read of no bytes may be told that the stream is    *)
(* over.                                                                   *)
(***************************************************************************)
EXTENDS Integers, Sequences

CONSTANTS Streams,  \* the byte sequences that occur
          Limit,    \* limits given to read: numbers, or NoLimit
          NoLimit

(* Of text only what decoding it can trip over is kept: a byte that stands *)
(* for itself, or the two bytes of a longer character.                     *)
Byte == {"one", "lead", "cont"}

Encoding == {"utf-8", "base64"}

IsText(bytes) ==
  \A i \in 1..Len(bytes) :
    /\ bytes[i] = "lead" => i < Len(bytes) /\ bytes[i + 1] = "cont"
    /\ bytes[i] = "cont" => i > 1 /\ bytes[i - 1] = "lead"

Decodes(bytes, encoding) == encoding = "utf-8" => IsText(bytes)

From(bytes, at) == SubSeq(bytes, at + 1, Len(bytes))

(* How much of `bytes` a read takes, and what it leaves.                   *)
Share(bytes, limit) ==
  IF limit = NoLimit \/ Len(bytes) <= limit THEN Len(bytes) ELSE limit

FirstOf(bytes, limit) == SubSeq(bytes, 1, Share(bytes, limit))

(* Replies of the operations; `asked` is the limit of the read that is     *)
(* answered.                                                               *)
Empty(kind, limit) == [kind |-> kind, bytes |-> <<>>, seq |-> 0, asked |-> limit]

Plain(kind) == Empty(kind, NoLimit)

Chunk(bytes, seq, limit) ==
  [kind |-> "chunk", bytes |-> bytes, seq |-> seq, asked |-> limit]

VARIABLES streams,  \* by handle: the bytes, how many were taken, and the
                    \* number of the next chunk
          issued,   \* how many handles were given out
          answer    \* the last reply

StreamsInit ==
  /\ streams = <<>>
  /\ issued = 0
  /\ answer = Plain("none")

Put(id, stream) ==
  streams' = [h \in DOMAIN streams \cup {id} |->
                IF h = id THEN stream ELSE streams[h]]

Open(bytes) ==
  /\ issued' = issued + 1
  /\ Put(issued + 1, [bytes |-> bytes, at |-> 0, seq |-> 0])
  /\ answer' = Plain("handle")

End(id, limit) ==
  /\ From(streams[id].bytes, streams[id].at) = <<>> \/ limit = 0
  /\ answer' = Empty("done", limit)
  /\ UNCHANGED <<streams, issued>>

Take(id, limit, encoding) ==
  LET s    == streams[id]
      left == From(s.bytes, s.at)
      next == FirstOf(left, limit)
  IN  /\ left # <<>>
      /\ \/ /\ Decodes(next, encoding)
            /\ Put(id, [bytes |-> s.bytes, at |-> s.at + Share(left, limit),
                        seq |-> s.seq + 1])
            /\ answer' = Chunk(next, s.seq, limit)
         \/ /\ ~ Decodes(next, encoding)
            /\ Put(id, [s EXCEPT !.at = @ + Share(left, limit)])
            /\ answer' = Empty("error", limit)
      /\ UNCHANGED issued

Release(id) ==
  /\ streams' = [h \in DOMAIN streams \ {id} |-> streams[h]]
  /\ answer' = Plain("released")
  /\ UNCHANGED issued

Refuse ==
  /\ answer' = Plain("error")
  /\ UNCHANGED <<streams, issued>>

StreamsNext ==
  \/ \E bytes \in Streams : Open(bytes)
  \/ \E id \in DOMAIN streams, limit \in Limit, encoding \in Encoding :
       End(id, limit) \/ Take(id, limit, encoding)
  \/ \E id \in DOMAIN streams : Release(id)
  \/ Refuse

StreamsSpec == StreamsInit /\ [][StreamsNext]_<<streams, issued, answer>>
=============================================================================
