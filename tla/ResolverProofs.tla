--------------------------- MODULE ResolverProofs ----------------------------
(***************************************************************************)
(* Theorems about Resolver among the parts of MCTooling, for any set of    *)
(* dependencies, descriptors and sources.                                  *)
(***************************************************************************)
EXTENDS QueueBfsProofs

-----------------------------------------------------------------------------
(* The invariant.                                                          *)

(* The dependencies on the path p, from the first below the root to p[n].  *)
Way(p, n) == [i \in 1..(n - 1) |-> p[i + 1].dep]

HasNode(w) == \E t \in tree : t.walk = w

(* The path leads along dependencies, without a repetition, and it is what *)
(* `visited` holds.                                                        *)
OnPath ==
  path # <<>> =>
    /\ path[1].dep = Root /\ path[1].requires = call.requires
    /\ \A n \in 2..Len(path) : path[n].dep \in R!Wanted(path[n - 1].requires)
    /\ \A m, n \in 2..Len(path) : m # n => path[m].dep # path[n].dep
    /\ visited = {path[n].dep : n \in 2..Len(path)}

(* What a descriptor on the path wants is in its list, next on the path,   *)
(* or a node already.                                                      *)
Visits(n) ==
  /\ R!Range(path[n].left) \subseteq R!Range(path[n].requires)
  /\ \A dep \in R!Wanted(path[n].requires) :
       \/ dep \in R!Range(path[n].left)
       \/ n < Len(path) /\ dep = path[n + 1].dep
       \/ HasNode(Append(Way(path, n), dep))

ToVisit == \A n \in 1..Len(path) : Visits(n)

(* What a node wants is a node, and none is below itself.                  *)
Grown ==
  \A t \in tree : /\ ~ R!Repeats(t.walk)
                  /\ \A dep \in R!Wanted(t.requires) : HasNode(Append(t.walk, dep))

(* A node is wanted by the root, by a node or by a descriptor on the path. *)
Below(t) ==
  LET last == R!Last(t.walk)
  IN  \/ t.walk = <<last>> /\ last \in R!Wanted(call.requires)
      \/ \E s \in tree : /\ t.walk = Append(s.walk, last)
                         /\ last \in R!Wanted(s.requires)
      \/ \E n \in 2..Len(path) : /\ t.walk = Append(Way(path, n), last)
                                 /\ last \in R!Wanted(path[n].requires)

Rooted == answer \in {"none", "ok"} => \A t \in tree : Below(t)

(* A descriptor is what the cache has at its key; unless files came or     *)
(* went, or links were turned, that is where the source leads.             *)
Agrees(dep, found, requires) ==
  /\ found \in DOMAIN cache /\ cache[found] = requires
  /\ ~ moved => found = links[call.sources[dep]]

Reading ==
  /\ \A n \in 2..Len(path) : Agrees(path[n].dep, path[n].key, path[n].requires)
  /\ \A t \in tree : Agrees(R!Last(t.walk), t.key, t.requires)
  /\ ~ moved => \A d \in DOMAIN cache : files[d] # Gone /\ links[d] = d

(* The descriptor about to be read has not been read yet.                  *)
Looking ==
  lookup # NoKey =>
    /\ path # <<>> /\ R!Top.left # <<>>
    /\ Head(R!Top.left) \notin Skipped \cup visited
    /\ R!HasSource(Head(R!Top.left))
    /\ lookup \notin DOMAIN cache
    /\ ~ moved /\ R!Read(Head(R!Top.left)) # Gone
         => lookup = links[call.sources[Head(R!Top.left)]]

Answered ==
  /\ answer # "none" => path = <<>>
  /\ answer = "ok" => \A dep \in R!Wanted(call.requires) : HasNode(<<dep>>)

(* Nothing has happened before the call.                                   *)
NotAsked ==
  path = <<>> /\ answer = "none" => tree = {} /\ visited = {} /\ cache = <<>>

RInv ==
  /\ R!TypeOK /\ OnPath /\ ToVisit /\ Grown /\ Rooted
  /\ Reading /\ Looking /\ Answered /\ NotAsked

-----------------------------------------------------------------------------
(* Paths.                                                                  *)

LEMMA Frames ==
  ASSUME R!TypeOK
  PROVE  /\ path \in Seq(R!Frame) /\ Len(path) \in Nat /\ DOMAIN path = 1..Len(path)
         /\ \A n \in 1..Len(path) : /\ path[n] \in R!Frame
                                   /\ path[n].dep \in Dep \cup {Root}
                                   /\ path[n].left \in Seq(Dep)
                                   /\ path[n].key \in Descriptor \cup {NoKey}
                                   /\ path[n].requires \in Requires
         /\ path # <<>> => Len(path) > 0 /\ R!Top = path[Len(path)]
<1>1. path \in Seq(R!Frame)
  BY DEF R!TypeOK
<1>2. /\ Len(path) \in Nat /\ DOMAIN path = 1..Len(path)
      /\ \A n \in 1..Len(path) : path[n] \in R!Frame
      /\ path # <<>> => Len(path) > 0
  BY <1>1, Lengths
<1>3. ASSUME NEW f \in R!Frame
      PROVE  /\ f.dep \in Dep \cup {Root} /\ f.left \in Seq(Dep)
             /\ f.key \in Descriptor \cup {NoKey} /\ f.requires \in Requires
  BY DEF R!Frame
<1>4. R!Top = path[Len(path)]
  BY DEF R!Top, R!Last
<1>. QED  BY <1>1, <1>2, <1>3, <1>4

LEMMA Passed ==
  ASSUME R!TypeOK, NEW dep \in Dep, R!At(dep)
  PROVE  /\ path # <<>> /\ R!PassedBy \in Seq(R!Frame) /\ Len(R!PassedBy) = Len(path)
         /\ \A n \in 1..Len(path) : /\ R!PassedBy[n].dep = path[n].dep
                                   /\ R!PassedBy[n].key = path[n].key
                                   /\ R!PassedBy[n].requires = path[n].requires
         /\ \A n \in 1..(Len(path) - 1) : R!PassedBy[n] = path[n]
         /\ R!Range(path[Len(path)].left)
              = R!Range(R!PassedBy[Len(path)].left) \cup {dep}
<1>. DEFINE N == Len(path)
            l == path[N].left
            g == [dep |-> path[N].dep, left |-> Tail(l), key |-> path[N].key,
                  requires |-> path[N].requires]
<1>1. /\ path # <<>> /\ N \in Nat /\ N > 0 /\ R!Top = path[N] /\ path \in Seq(R!Frame)
      /\ path[N] \in R!Frame
      /\ path[N].dep \in Dep \cup {Root} /\ path[N].key \in Descriptor \cup {NoKey}
      /\ path[N].requires \in Requires
      /\ l \in Seq(Dep) /\ DOMAIN path = 1..N
  BY Frames DEF R!At
<1>2. l # <<>> /\ dep = Head(l)
  BY <1>1 DEF R!At
<1>3. Tail(l) \in Seq(Dep)
  BY <1>1, <1>2, HeadTailProperties
<1>4. R!PassedBy = [path EXCEPT ![N] = g]
  <2>. DEFINE f == path[N]
  <2>1. R!PassedBy = [path EXCEPT ![N] = [f EXCEPT !.left = Tail(f.left)]]
    BY DEF R!PassedBy
  <2>2. f \in R!Frame
    BY <1>1
  <2>. HIDE DEF f
  <2>3. [f EXCEPT !.left = Tail(f.left)]
          = [dep |-> f.dep, left |-> Tail(f.left), key |-> f.key, requires |-> f.requires]
    <3>1. ASSUME NEW x
          PROVE  [f EXCEPT !.left = x]
                   = [dep |-> f.dep, left |-> x, key |-> f.key, requires |-> f.requires]
      BY <2>2 DEF R!Frame
    <3>. QED  BY <3>1
  <2>4. R!PassedBy
          = [path EXCEPT ![N] = [dep |-> f.dep, left |-> Tail(f.left), key |-> f.key,
                                 requires |-> f.requires]]
    BY <2>1, <2>3
  <2>. QED  BY <2>4 DEF f
<1>5. g \in R!Frame
  BY <1>1, <1>3 DEF R!Frame
<1>6. /\ g.dep = path[N].dep /\ g.left = Tail(l) /\ g.key = path[N].key
      /\ g.requires = path[N].requires
  OBVIOUS
<1>. HIDE DEF g
<1>7. /\ R!PassedBy \in Seq(R!Frame) /\ Len(R!PassedBy) = N
      /\ \A n \in 1..N : R!PassedBy[n] = IF n = N THEN g ELSE path[n]
  <2>1. R!PassedBy = [path EXCEPT ![N] = g] /\ g \in R!Frame /\ N \in 1..N
    BY <1>1, <1>4, <1>5
  <2>. HIDE DEF N
  <2>2. path \in [1..N -> R!Frame]
    BY <1>1, LenProperties DEF N
  <2>3. R!PassedBy \in [1..N -> R!Frame]
    BY <2>1, <2>2
  <2>4. R!PassedBy \in Seq(R!Frame)
    BY <1>1, <2>3, SeqDef
  <2>5. Len(R!PassedBy) = N
    BY <1>1, <2>3, <2>4, LenProperties
  <2>6. \A n \in 1..N : R!PassedBy[n] = IF n = N THEN g ELSE path[n]
    BY <2>1, <2>2
  <2>. QED  BY <2>4, <2>5, <2>6 DEF N
<1>8. /\ R!PassedBy[N] = g
      /\ \A n \in 1..(N - 1) : R!PassedBy[n] = path[n]
      /\ \A n \in 1..N : /\ R!PassedBy[n].dep = path[n].dep
                         /\ R!PassedBy[n].key = path[n].key
                         /\ R!PassedBy[n].requires = path[n].requires
  <2>1. N \in 1..N /\ \A n \in 1..(N - 1) : n \in 1..N /\ n # N
    <3>. HIDE DEF N
    <3>. QED  BY <1>1
  <2>. HIDE DEF N, l
  <2>2. R!PassedBy[N] = g /\ \A n \in 1..(N - 1) : R!PassedBy[n] = path[n]
    BY <1>7, <2>1
  <2>. QED  BY <1>6, <1>7, <2>2
<1>9. R!Range(l) = R!Range(Tail(l)) \cup {dep}
  <2>. HIDE DEF l
  <2>1. /\ Len(l) \in Nat /\ Len(l) > 0 /\ DOMAIN l = 1..Len(l)
        /\ Len(Tail(l)) = Len(l) - 1
        /\ DOMAIN Tail(l) = 1..(Len(l) - 1)
        /\ \A i \in 1..(Len(l) - 1) : Tail(l)[i] = l[i + 1]
        /\ l[1] = dep
    <3>1. /\ Tail(l) \in Seq(Dep) /\ Len(Tail(l)) = Len(l) - 1 /\ Head(l) = l[1]
          /\ \A i \in 1..Len(Tail(l)) : Tail(l)[i] = l[i + 1]
      BY <1>1, <1>2, HeadTailProperties
    <3>. QED  BY <1>1, <1>2, <3>1, Lengths
  <2>2. ASSUME NEW i \in 1..Len(l)
        PROVE  l[i] = dep \/ l[i] \in R!Range(Tail(l))
    <3>1. CASE i = 1
      BY <2>1, <3>1
    <3>2. CASE i > 1
      <4>1. i - 1 \in 1..(Len(l) - 1) /\ (i - 1) + 1 = i
        BY <2>1, <3>2
      <4>2. Tail(l)[i - 1] = l[i]
        BY <2>1, <4>1
      <4>. QED  BY <2>1, <4>1, <4>2 DEF R!Range
    <3>. QED  BY <2>1, <2>2, <3>1, <3>2
  <2>3. ASSUME NEW i \in DOMAIN Tail(l)
        PROVE  Tail(l)[i] \in R!Range(l)
    <3>1. i \in 1..(Len(l) - 1)
      BY <2>1
    <3>2. i + 1 \in 1..Len(l) /\ Tail(l)[i] = l[i + 1]
      BY <2>1, <3>1
    <3>. QED  BY <2>1, <3>2 DEF R!Range
  <2>4. 1 \in 1..Len(l)
    BY <2>1
  <2>. QED  BY <2>1, <2>2, <2>3, <2>4 DEF R!Range
<1>. QED  BY <1>1, <1>6, <1>7, <1>8, <1>9

(* The way to a descriptor on the path repeats nothing.                    *)
LEMMA Ways ==
  ASSUME R!TypeOK, OnPath, NEW n \in 2..Len(path)
  PROVE  /\ Way(path, n) \in Seq(Dep \ Skipped) /\ ~ R!Repeats(Way(path, n))
         /\ R!Last(Way(path, n)) = path[n].dep
<1>. DEFINE w == Way(path, n)
            D == Dep \ Skipped
<1>1. n \in Nat /\ n > 1 /\ n <= Len(path) /\ path # <<>> /\ Len(path) \in Nat
  BY Frames, Lengths
<1>2. /\ \A i, j \in 2..Len(path) : i # j => path[i].dep # path[j].dep
      /\ \A i \in 2..Len(path) : path[i].dep \in D
  BY <1>1 DEF OnPath, R!TypeOK
<1>. HIDE DEF D
<1>3. /\ w \in [1..(n - 1) -> D] /\ DOMAIN w = 1..(n - 1)
      /\ \A i \in 1..(n - 1) : w[i] = path[i + 1].dep
  <2>1. \A i \in 1..(n - 1) : i + 1 \in 2..Len(path)
    BY <1>1
  <2>. QED  BY <1>2, <2>1 DEF Way
<1>. HIDE DEF w
<1>4. n - 1 \in Nat /\ n - 1 \in 1..(n - 1) /\ (n - 1) + 1 = n
  BY <1>1
<1>5. w \in Seq(D) /\ Len(w) = n - 1
  <2>1. w \in Seq(D)
    BY <1>3, <1>4, SeqDef
  <2>. QED  BY <1>3, <1>4, <2>1, LenProperties
<1>6. ~ R!Repeats(w)
  <2>. SUFFICES ASSUME NEW i \in 1..(n - 1), NEW j \in 1..(n - 1), i < j, w[i] = w[j]
                PROVE  FALSE
    BY <1>3 DEF R!Repeats
  <2>1. i + 1 \in 2..Len(path) /\ j + 1 \in 2..Len(path) /\ i + 1 # j + 1
    BY <1>1
  <2>. QED  BY <1>2, <1>3, <2>1
<1>7. R!Last(w) = path[n].dep
  BY <1>3, <1>4, <1>5 DEF R!Last
<1>. QED  BY <1>5, <1>6, <1>7 DEF w, D

LEMMA WayGrows ==
  ASSUME NEW p, NEW N \in Nat, N > 1, \A n \in 2..N : p[n].dep \in Dep
  PROVE  Append(Way(p, N - 1), p[N].dep) = Way(p, N)
<1>. DEFINE v == Way(p, N - 1)
            w == Way(p, N)
<1>1. /\ v \in [1..(N - 2) -> Dep] /\ w \in [1..(N - 1) -> Dep]
      /\ N - 2 \in Nat /\ N - 1 \in Nat /\ p[N].dep \in Dep
      /\ \A i \in 1..(N - 2) : v[i] = w[i]
      /\ w[N - 1] = p[N].dep
  <2>1. (N - 1) - 1 = N - 2 /\ N - 1 \in 1..(N - 1) /\ (N - 1) + 1 = N /\ N \in 2..N
        /\ N - 2 \in Nat /\ N - 1 \in Nat
    OBVIOUS
  <2>2. \A i \in 1..(N - 1) : i + 1 \in 2..N
    OBVIOUS
  <2>3. \A i \in 1..(N - 2) : i \in 1..(N - 1)
    OBVIOUS
  <2>4. w \in [1..(N - 1) -> Dep] /\ \A i \in 1..(N - 1) : w[i] = p[i + 1].dep
    BY <2>2 DEF Way
  <2>5. v = [i \in 1..(N - 2) |-> p[i + 1].dep]
    BY <2>1 DEF Way
  <2>. HIDE DEF v, w
  <2>6. v \in [1..(N - 2) -> Dep] /\ \A i \in 1..(N - 2) : v[i] = p[i + 1].dep
    BY <2>2, <2>3, <2>5
  <2>. QED  BY <2>1, <2>3, <2>4, <2>6
<1>. HIDE DEF v, w
<1>2. v \in Seq(Dep) /\ Len(v) = N - 2 /\ w \in Seq(Dep) /\ Len(w) = N - 1
  <2>1. v \in Seq(Dep) /\ w \in Seq(Dep)
    BY <1>1, SeqDef
  <2>. QED  BY <1>1, <2>1, LenProperties
<1>3. /\ Append(v, p[N].dep) \in Seq(Dep) /\ Len(Append(v, p[N].dep)) = (N - 2) + 1
      /\ \A i \in 1..(N - 2) : Append(v, p[N].dep)[i] = v[i]
      /\ Append(v, p[N].dep)[(N - 2) + 1] = p[N].dep
  BY <1>1, <1>2, Appended
<1>4. (N - 2) + 1 = N - 1 /\ \A i \in 1..(N - 1) : i \in 1..(N - 2) \/ i = N - 1
  OBVIOUS
<1>5. \A i \in 1..Len(w) : w[i] = Append(v, p[N].dep)[i]
  BY <1>1, <1>2, <1>3, <1>4
<1>6. Append(v, p[N].dep) = w
  BY <1>2, <1>3, <1>4, <1>5, SeqEqual
<1>. QED  BY <1>6 DEF v, w

LEMMA FirstWay ==
  ASSUME NEW p, NEW x
  PROVE  Append(Way(p, 1), x) = <<x>>
<1>1. Way(p, 1) = [i \in 1..0 |-> p[i + 1].dep]
  BY DEF Way
<1>2. Way(p, 1) = <<>>
  BY <1>1
<1>3. Append(<<>>, x) = <<x>>
  OBVIOUS
<1>. QED  BY <1>2, <1>3

-----------------------------------------------------------------------------
(* What a step keeps.                                                      *)

LEMMA SameTree ==
  ASSUME UNCHANGED tree
  PROVE  /\ \A w : HasNode(w)' <=> HasNode(w)
         /\ Grown => Grown'
BY DEF HasNode, Grown, R!Repeats, R!Wanted, R!Range

(* The path goes on where it was, perhaps further.                         *)
LEMMA SameBelow ==
  ASSUME UNCHANGED <<tree, call>>, answer' = answer, Rooted,
         Len(path) \in Nat, Len(path') \in Nat, Len(path) <= Len(path'),
         \A n \in 1..Len(path) : /\ path'[n].dep = path[n].dep
                                 /\ path'[n].requires = path[n].requires
  PROVE  Rooted'
<1>1. ASSUME NEW n \in 1..Len(path)  PROVE Way(path', n) = Way(path, n)
  <2>1. \A i \in 1..(n - 1) : i + 1 \in 1..Len(path)
    OBVIOUS
  <2>. QED  BY <2>1 DEF Way
<1>2. ASSUME NEW t \in tree, Below(t)  PROVE Below(t)'
  <2>. DEFINE last == R!Last(t.walk)
  <2>0. R!Last(t.walk)' = last
    BY DEF R!Last
  <2>. HIDE DEF last
  <2>1. CASE t.walk = <<last>> /\ last \in R!Wanted(call.requires)
    BY <2>0, <2>1 DEF Below, R!Wanted, R!Range
  <2>2. CASE \E s \in tree : t.walk = Append(s.walk, last) /\ last \in R!Wanted(s.requires)
    BY <2>0, <2>2 DEF Below, R!Wanted, R!Range
  <2>3. CASE \E n \in 2..Len(path) : /\ t.walk = Append(Way(path, n), last)
                                     /\ last \in R!Wanted(path[n].requires)
    <3>1. PICK n \in 2..Len(path) : /\ t.walk = Append(Way(path, n), last)
                                    /\ last \in R!Wanted(path[n].requires)
      BY <2>3
    <3>2. n \in 1..Len(path) /\ n \in 2..Len(path')
      OBVIOUS
    <3>3. t.walk = Append(Way(path', n), last) /\ last \in R!Wanted(path'[n].requires)
      BY <1>1, <3>1, <3>2
    <3>. QED  BY <2>0, <3>2, <3>3 DEF Below, R!Wanted, R!Range, Way
  <2>. QED  BY <1>2, <2>1, <2>2, <2>3 DEF Below, last
<1>. QED  BY <1>2 DEF Rooted

LEMMA Agreed ==
  ASSUME NEW dep, NEW found, NEW requires, Agrees(dep, found, requires),
         UNCHANGED <<call, links, moved>>, DOMAIN cache \subseteq DOMAIN cache',
         \A d \in DOMAIN cache : cache'[d] = cache[d]
  PROVE  Agrees(dep, found, requires)'
BY DEF Agrees

(* What is still to be shown of the path after a step.                     *)
LEMMA VisitsNext ==
  ASSUME NEW n, NEW wanted, path'[n].requires = wanted,
         R!Range(path'[n].left) \subseteq R!Range(wanted),
         \A dep \in R!Wanted(wanted) :
           \/ dep \in R!Range(path'[n].left)
           \/ n < Len(path') /\ dep = path'[n + 1].dep
           \/ \E t \in tree' : t.walk = Append(Way(path', n), dep)
  PROVE  Visits(n)'
BY DEF Visits, HasNode, Way, R!Wanted, R!Range

(* The last descriptor on the path is past a dependency that is skipped.   *)
LEMMA SkipStep ==
  ASSUME RInv, NEW dep \in Dep, R!SkipDependency(dep)
  PROVE  RInv'
<1>1. /\ R!TypeOK /\ R!At(dep) /\ dep \in Skipped /\ path' = R!PassedBy
      /\ UNCHANGED <<links, files, edits, moved, call, lookup, visited, cache, tree, answer>>
  BY DEF RInv, R!SkipDependency, R!disk
<1>2. /\ path # <<>> /\ path' \in Seq(R!Frame) /\ Len(path') = Len(path)
      /\ \A n \in 1..Len(path) : /\ path'[n].dep = path[n].dep
                                 /\ path'[n].key = path[n].key
                                 /\ path'[n].requires = path[n].requires
      /\ \A n \in 1..(Len(path) - 1) : path'[n] = path[n]
      /\ R!Range(path[Len(path)].left) = R!Range(path'[Len(path)].left) \cup {dep}
      /\ Len(path) \in Nat /\ Len(path) > 0
  BY <1>1, Passed, Frames
<1>3. path' # <<>> /\ 1 \in 1..Len(path) /\ 2..Len(path) \subseteq 1..Len(path)
      /\ \A n \in 2..Len(path) : n - 1 \in 1..Len(path)
  BY <1>2, Lengths
<1>4. R!TypeOK'
  BY <1>1, <1>2 DEF R!TypeOK
<1>5. OnPath'
  <2>1. OnPath
    BY DEF RInv
  <2>2. /\ path'[1].dep = Root /\ path'[1].requires = call.requires
        /\ \A n \in 2..Len(path) : path'[n].dep \in R!Wanted(path'[n - 1].requires)
        /\ \A m, n \in 2..Len(path) : m # n => path'[m].dep # path'[n].dep
    <3>1. \A n \in 1..Len(path) : /\ path'[n].dep = path[n].dep
                                  /\ path'[n].requires = path[n].requires
      BY <1>2
    <3>2. path'[1].dep = Root /\ path'[1].requires = call.requires
      BY <1>2, <1>3, <2>1, <3>1 DEF OnPath
    <3>3. ASSUME NEW n \in 2..Len(path)
          PROVE  path'[n].dep \in R!Wanted(path'[n - 1].requires)
      <4>1. path[n].dep \in R!Wanted(path[n - 1].requires)
        BY <1>2, <2>1 DEF OnPath
      <4>2. n \in 1..Len(path) /\ n - 1 \in 1..Len(path)
        BY <1>3
      <4>. QED  BY <3>1, <4>1, <4>2
    <3>4. ASSUME NEW m \in 2..Len(path), NEW n \in 2..Len(path), m # n
          PROVE  path'[m].dep # path'[n].dep
      <4>1. path[m].dep # path[n].dep
        BY <1>2, <2>1, <3>4 DEF OnPath
      <4>2. m \in 1..Len(path) /\ n \in 1..Len(path)
        BY <1>3
      <4>. QED  BY <3>1, <4>1, <4>2
    <3>. QED  BY <3>2, <3>3, <3>4
  <2>3. visited = {path'[n].dep : n \in 2..Len(path)}
    <3>1. visited = {path[n].dep : n \in 2..Len(path)}
      BY <1>2, <2>1 DEF OnPath
    <3>2. \A n \in 2..Len(path) : path'[n].dep = path[n].dep
      BY <1>2, <1>3
    <3>. QED  BY <3>1, <3>2
  <2>. QED  BY <1>1, <1>2, <2>2, <2>3 DEF OnPath, R!Wanted, R!Range
<1>6. ToVisit'
  <2>. SUFFICES ASSUME NEW n \in 1..Len(path) PROVE Visits(n)'
    BY <1>2 DEF ToVisit
  <2>1. Visits(n)
    BY DEF RInv, ToVisit
  <2>2. /\ path'[n].requires = path[n].requires /\ Way(path', n) = Way(path, n)
        /\ n < Len(path) => path'[n + 1].dep = path[n + 1].dep
    <3>1. \A i \in 1..(n - 1) : i + 1 \in 1..Len(path)
      BY <1>2
    <3>2. n < Len(path) => n + 1 \in 1..Len(path)
      BY <1>2
    <3>. QED  BY <1>2, <3>1, <3>2 DEF Way
  <2>3. /\ R!Range(path'[n].left) \subseteq R!Range(path[n].left)
        /\ R!Range(path[n].left) \subseteq R!Range(path'[n].left) \cup {dep}
    <3>1. CASE n < Len(path)
      <4>1. path'[n] = path[n]
        BY <1>2, <3>1
      <4>. QED  BY <4>1
    <3>2. CASE n = Len(path)
      BY <1>2, <3>2
    <3>. QED  BY <1>2, <3>1, <3>2
  <2>4. dep \notin R!Wanted(path[n].requires)
    BY <1>1 DEF R!Wanted
  <2>5. ASSUME NEW x \in R!Wanted(path[n].requires)
        PROVE  \/ x \in R!Range(path'[n].left)
               \/ n < Len(path) /\ x = path[n + 1].dep
               \/ HasNode(Append(Way(path, n), x))
    BY <2>1, <2>3, <2>4 DEF Visits
  <2>6. R!Range(path'[n].left) \subseteq R!Range(path[n].requires)
    BY <2>1, <2>3 DEF Visits
  <2>7. ASSUME NEW x \in R!Wanted(path[n].requires)
        PROVE  \/ x \in R!Range(path'[n].left)
               \/ n < Len(path') /\ x = path'[n + 1].dep
               \/ \E t \in tree' : t.walk = Append(Way(path', n), x)
    BY <1>1, <1>2, <2>2, <2>5 DEF HasNode
  <2>. QED  BY <2>2, <2>6, <2>7, VisitsNext
<1>7. Grown'
  BY <1>1, SameTree DEF RInv
<1>8. Rooted'
  BY <1>1, <1>2, SameBelow DEF RInv
<1>9. Reading'
  <2>1. ASSUME NEW n \in 2..Len(path)
        PROVE  Agrees(path[n].dep, path[n].key, path[n].requires)'
    <3>1. /\ Agrees(path[n].dep, path[n].key, path[n].requires)
          /\ path'[n].dep = path[n].dep /\ path'[n].key = path[n].key
          /\ path'[n].requires = path[n].requires
      BY <1>2, <1>3 DEF RInv, Reading
    <3>. QED  BY <1>1, <3>1 DEF Agrees
  <2>2. ASSUME NEW t \in tree
        PROVE  Agrees(R!Last(t.walk), t.key, t.requires)'
    <3>1. Agrees(R!Last(t.walk), t.key, t.requires)
      BY DEF RInv, Reading
    <3>. QED  BY <1>1, <3>1 DEF Agrees, R!Last
  <2>. QED  BY <1>1, <1>2, <2>1, <2>2 DEF RInv, Reading
<1>10. lookup' = NoKey
  BY <1>1, <1>2 DEF RInv, Looking, R!At
<1>11. Looking' /\ Answered' /\ NotAsked'
  BY <1>1, <1>2, <1>3, <1>10 DEF RInv, Looking, Answered, NotAsked
<1>. QED  BY <1>4, <1>5, <1>6, <1>7, <1>8, <1>9, <1>11 DEF RInv

LEMMA AnswerStep ==
  ASSUME RInv, NEW x \in {"ok", "cycle", "error"}, R!Answer(x),
         x = "ok" => /\ Len(path) < 2 /\ answer = "none"
                     /\ \A dep \in R!Wanted(call.requires) : HasNode(<<dep>>)
  PROVE  RInv'
<1>1. /\ answer' = x /\ path' = <<>> /\ lookup' = NoKey
      /\ UNCHANGED <<links, files, edits, moved, call, visited, cache, tree>>
  BY DEF R!Answer, R!disk
<1>2. R!TypeOK'
  <2>1. path' \in Seq(R!Frame) /\ answer' \in R!Answers
    BY <1>1, EmptySeq DEF R!Answers
  <2>. QED  BY <1>1, <2>1 DEF RInv, R!TypeOK
<1>3. OnPath' /\ ToVisit' /\ NotAsked' /\ Looking'
  BY <1>1 DEF OnPath, ToVisit, NotAsked, Looking
<1>4. Grown'
  BY <1>1, SameTree DEF RInv
<1>5. Rooted'
  <2>. SUFFICES ASSUME x = "ok", NEW t \in tree PROVE Below(t)'
    BY <1>1 DEF Rooted
  <2>1. Below(t)
    BY DEF RInv, Rooted
  <2>2. 2..Len(path) = {}
    BY Frames DEF RInv
  <2>. QED  BY <1>1, <2>1, <2>2 DEF Below, R!Last, R!Wanted, R!Range
<1>6. Reading'
  <2>1. ASSUME NEW t \in tree
        PROVE  Agrees(R!Last(t.walk), t.key, t.requires)'
    <3>1. Agrees(R!Last(t.walk), t.key, t.requires)
      BY DEF RInv, Reading
    <3>. QED  BY <1>1, <3>1 DEF Agrees, R!Last
  <2>. QED  BY <1>1, <2>1 DEF RInv, Reading
<1>7. Answered'
  BY <1>1, SameTree DEF Answered, R!Wanted, R!Range
<1>. QED  BY <1>2, <1>3, <1>4, <1>5, <1>6, <1>7 DEF RInv

LEMMA FinishStep ==
  ASSUME RInv, R!Finish
  PROVE  RInv'
<1>1. R!TypeOK /\ Len(path) = 1 /\ R!Top.left = <<>> /\ R!Answer("ok")
  BY DEF RInv, R!Finish
<1>2. path # <<>> /\ path[1].left = <<>>
  <2>1. path # <<>>
    BY <1>1
  <2>. QED  BY <1>1, <2>1, Frames
<1>3. path[1].requires = call.requires /\ answer = "none"
  BY <1>2 DEF RInv, OnPath, Answered
<1>4. R!Range(path[1].left) = {}
  BY <1>2 DEF R!Range
<1>5. ASSUME NEW dep \in R!Wanted(call.requires)
      PROVE  HasNode(<<dep>>)
  <2>1. HasNode(Append(Way(path, 1), dep))
    BY <1>1, <1>3, <1>4, <1>5 DEF RInv, ToVisit, Visits
  <2>. QED  BY <2>1, FirstWay
<1>. QED  BY <1>1, <1>3, <1>5, AnswerStep

(* The dependency the loop stands at is wanted by the last descriptor.     *)
LEMMA WantedNext ==
  ASSUME R!TypeOK, ToVisit, NEW dep \in Dep, R!At(dep), dep \notin Skipped
  PROVE  dep \in R!Wanted(path[Len(path)].requires)
<1>1. /\ Len(path) \in Nat /\ Len(path) > 0
      /\ dep \in R!Range(path[Len(path)].left)
  BY Passed, Frames
<1>2. Visits(Len(path))
  BY <1>1 DEF ToVisit
<1>. QED  BY <1>1, <1>2 DEF Visits, R!Wanted

LEMMA EnterStep ==
  ASSUME RInv, NEW dep \in Dep, R!At(dep), dep \notin Skipped, dep \notin visited,
         NEW found \in Descriptor, NEW requires \in Requires,
         R!Enter(dep, found, requires), lookup' = NoKey,
         DOMAIN cache' \subseteq Descriptor, \A d \in DOMAIN cache' : cache'[d] \in Requires,
         DOMAIN cache \subseteq DOMAIN cache', \A d \in DOMAIN cache : cache'[d] = cache[d],
         found \in DOMAIN cache', cache'[found] = requires,
         ~ moved => /\ found = links[call.sources[dep]]
                    /\ \A d \in DOMAIN cache' : files[d] # Gone /\ links[d] = d
  PROVE  RInv'
<1>. DEFINE N == Len(path)
            q == R!PassedBy
            f == [dep |-> dep, left |-> requires, key |-> found, requires |-> requires]
<1>1. /\ R!TypeOK /\ visited' = visited \cup {dep} /\ path' = Append(q, f)
      /\ UNCHANGED <<links, files, edits, moved, call, tree, answer>>
  BY DEF RInv, R!Enter, R!disk
<1>2. /\ path # <<>> /\ q \in Seq(R!Frame) /\ Len(q) = N
      /\ \A n \in 1..N : /\ q[n].dep = path[n].dep /\ q[n].key = path[n].key
                         /\ q[n].requires = path[n].requires
      /\ \A n \in 1..(N - 1) : q[n] = path[n]
      /\ R!Range(path[N].left) = R!Range(q[N].left) \cup {dep}
      /\ N \in Nat /\ N > 0
  BY <1>1, Passed, Frames
<1>3. requires \in Seq(Dep)
  BY ResolverAssumption
<1>4. /\ f \in R!Frame /\ f.dep = dep /\ f.left = requires /\ f.key = found
      /\ f.requires = requires
  BY <1>3 DEF R!Frame
<1>5. dep \in R!Wanted(path[N].requires)
  BY <1>1, WantedNext DEF RInv
<1>6. answer = "none"
  BY <1>2 DEF RInv, Answered
<1>. HIDE DEF f, q
<1>7. /\ path' \in Seq(R!Frame) /\ Len(path') = N + 1
      /\ \A n \in 1..N : path'[n] = q[n]
      /\ path'[N + 1] = f
  BY <1>1, <1>2, <1>4, Appended
<1>. HIDE DEF N
<1>8. \A n \in 1..N : /\ path'[n].dep = path[n].dep /\ path'[n].key = path[n].key
                      /\ path'[n].requires = path[n].requires
  BY <1>2, <1>7
<1>9. /\ 1 \in 1..N /\ N \in 1..N /\ path' # <<>>
      /\ \A n \in 2..(N + 1) : (n \in 2..N /\ n \in 1..N /\ n - 1 \in 1..N) \/ n = N + 1
  BY <1>2, <1>7, Lengths
<1>10. R!TypeOK'
  BY <1>1, <1>7 DEF R!TypeOK
<1>11. OnPath'
  <2>1. /\ path[1].dep = Root /\ path[1].requires = call.requires
        /\ \A n \in 2..N : path[n].dep \in R!Wanted(path[n - 1].requires)
        /\ \A m, n \in 2..N : m # n => path[m].dep # path[n].dep
        /\ visited = {path[n].dep : n \in 2..N}
    BY <1>2 DEF RInv, OnPath, N
  <2>2. path'[1].dep = Root /\ path'[1].requires = call.requires
    BY <1>8, <1>9, <2>1
  <2>3. ASSUME NEW n \in 2..(N + 1)
        PROVE  path'[n].dep \in R!Wanted(path'[n - 1].requires)
    <3>1. CASE n \in 2..N
      BY <1>8, <1>9, <2>1, <3>1
    <3>2. CASE n = N + 1
      <4>1. n - 1 = N /\ path'[n].dep = dep
        BY <1>2, <1>4, <1>7, <3>2
      <4>. QED  BY <1>5, <1>8, <1>9, <4>1
    <3>. QED  BY <1>9, <3>1, <3>2
  <2>4. \A n \in 2..N : path'[n].dep = path[n].dep /\ path[n].dep \in visited
    BY <1>8, <1>9, <2>1
  <2>5. ASSUME NEW m \in 2..(N + 1), NEW n \in 2..(N + 1), m # n
        PROVE  path'[m].dep # path'[n].dep
    <3>1. CASE m \in 2..N /\ n \in 2..N
      BY <2>1, <2>4, <2>5, <3>1
    <3>2. CASE m = N + 1 /\ n \in 2..N
      BY <1>4, <1>7, <2>4, <3>2
    <3>3. CASE n = N + 1 /\ m \in 2..N
      BY <1>4, <1>7, <2>4, <3>3
    <3>. QED  BY <1>9, <2>5, <3>1, <3>2, <3>3
  <2>6. visited' = {path'[n].dep : n \in 2..(N + 1)}
    <3>1. 2..(N + 1) = (2..N) \cup {N + 1}
      BY <1>2
    <3>2. {path'[n].dep : n \in 2..N} = {path[n].dep : n \in 2..N}
      BY <2>4
    <3>3. path'[N + 1].dep = dep
      BY <1>4, <1>7
    <3>4. {path'[n].dep : n \in 2..(N + 1)}
            = {path'[n].dep : n \in 2..N} \cup {path'[N + 1].dep}
      BY <3>1
    <3>. QED  BY <1>1, <2>1, <3>2, <3>3, <3>4
  <2>. QED  BY <1>1, <1>7, <2>2, <2>3, <2>5, <2>6 DEF OnPath, R!Wanted, R!Range
<1>12. ToVisit'
  <2>. SUFFICES ASSUME NEW n \in 1..(N + 1) PROVE Visits(n)'
    BY <1>7 DEF ToVisit
  <2>1. CASE n = N + 1
    <3>1. path'[n].left = requires /\ path'[n].requires = requires
      BY <1>4, <1>7, <2>1
    <3>2. \A x \in R!Wanted(requires) : x \in R!Range(path'[n].left)
      BY <3>1 DEF R!Wanted
    <3>. QED  BY <3>1, <3>2, VisitsNext
  <2>2. CASE n \in 1..N
    <3>1. Visits(n)
      BY <2>2 DEF RInv, ToVisit, N
    <3>2. Way(path', n) = Way(path, n)
      <4>1. \A i \in 1..(n - 1) : i + 1 \in 1..N
        BY <1>2, <2>2
      <4>. QED  BY <1>8, <4>1 DEF Way
    <3>3. /\ R!Range(path'[n].left) \subseteq R!Range(path[n].left)
          /\ \A x \in R!Range(path[n].left) :
               x \in R!Range(path'[n].left) \/ (n < N + 1 /\ x = path'[n + 1].dep)
          /\ n < N => path'[n + 1].dep = path[n + 1].dep
      <4>1. CASE n = N
        <5>1. path'[n] = q[n] /\ path'[n + 1].dep = dep /\ n < N + 1
          BY <1>2, <1>4, <1>7, <1>9, <4>1
        <5>2. R!Range(path[n].left) = R!Range(path'[n].left) \cup {dep}
          BY <1>2, <4>1, <5>1
        <5>3. ~ (n < N)
          BY <1>2, <4>1
        <5>. QED  BY <5>1, <5>2, <5>3
      <4>2. CASE n # N
        <5>1. n \in 1..(N - 1) /\ n + 1 \in 1..N
          BY <1>2, <2>2, <4>2
        <5>2. path'[n] = path[n] /\ path'[n + 1].dep = path[n + 1].dep
          BY <1>2, <1>7, <1>8, <2>2, <5>1
        <5>3. R!Range(path'[n].left) = R!Range(path[n].left)
          BY <5>2
        <5>. QED  BY <5>2, <5>3
      <4>. QED  BY <4>1, <4>2
    <3>4. path'[n].requires = path[n].requires
      BY <1>8, <2>2
    <3>5. R!Range(path'[n].left) \subseteq R!Range(path[n].requires)
      BY <3>1, <3>3 DEF Visits
    <3>6. ASSUME NEW x \in R!Wanted(path[n].requires)
          PROVE  \/ x \in R!Range(path'[n].left)
                 \/ n < Len(path') /\ x = path'[n + 1].dep
                 \/ \E t \in tree' : t.walk = Append(Way(path', n), x)
      <4>1. \/ x \in R!Range(path[n].left)
            \/ n < N /\ x = path[n + 1].dep
            \/ HasNode(Append(Way(path, n), x))
        BY <3>1 DEF Visits, N
      <4>2. CASE x \in R!Range(path[n].left)
        BY <1>7, <3>3, <4>2
      <4>3. CASE n < N /\ x = path[n + 1].dep
        <5>1. n < N + 1
          BY <1>2, <2>2
        <5>. QED  BY <1>7, <3>3, <4>3, <5>1
      <4>4. CASE HasNode(Append(Way(path, n), x))
        BY <1>1, <3>2, <4>4 DEF HasNode
      <4>. QED  BY <4>1, <4>2, <4>3, <4>4
    <3>. QED  BY <3>4, <3>5, <3>6, VisitsNext
  <2>. QED  BY <1>2, <2>1, <2>2
<1>13. Grown'
  BY <1>1, SameTree DEF RInv
<1>14. Rooted'
  <2>1. N <= Len(path')
    BY <1>2, <1>7
  <2>. QED  BY <1>1, <1>2, <1>7, <1>8, <2>1, SameBelow DEF RInv, N
<1>15. Reading'
  <2>1. ASSUME NEW n \in 2..(N + 1)
        PROVE  Agrees(path[n].dep, path[n].key, path[n].requires)'
    <3>1. CASE n \in 2..N
      <4>1. Agrees(path[n].dep, path[n].key, path[n].requires)
        BY <3>1 DEF RInv, Reading, N
      <4>2. /\ path'[n].dep = path[n].dep /\ path'[n].key = path[n].key
            /\ path'[n].requires = path[n].requires
        BY <1>8, <1>9, <3>1
      <4>. QED  BY <1>1, <4>1, <4>2 DEF Agrees
    <3>2. CASE n = N + 1
      <4>1. path'[n].dep = dep /\ path'[n].key = found /\ path'[n].requires = requires
        BY <1>4, <1>7, <3>2
      <4>. QED  BY <1>1, <4>1 DEF Agrees
    <3>. QED  BY <1>9, <3>1, <3>2
  <2>2. ASSUME NEW t \in tree
        PROVE  Agrees(R!Last(t.walk), t.key, t.requires)'
    <3>1. Agrees(R!Last(t.walk), t.key, t.requires)
      BY DEF RInv, Reading
    <3>. QED  BY <1>1, <3>1 DEF Agrees, R!Last
  <2>. QED  BY <1>1, <1>7, <2>1, <2>2 DEF Reading
<1>16. Looking' /\ Answered' /\ NotAsked'
  BY <1>1, <1>6, <1>9 DEF Looking, Answered, NotAsked
<1>. QED  BY <1>10, <1>11, <1>12, <1>13, <1>14, <1>15, <1>16 DEF RInv

(* The key that canonicalize gives, and what a stable file makes of it.    *)
LEMMA Keys ==
  ASSUME R!TypeOK, NEW dep, R!HasSource(dep)
  PROVE  /\ call.sources[dep] \in Descriptor
         /\ R!CanonicalKey(call.sources[dep]) \in Descriptor
         /\ links[call.sources[dep]] \in Descriptor
         /\ links[links[call.sources[dep]]] = links[call.sources[dep]]
<1>1. call.sources[dep] \in Descriptor
  BY DEF R!HasSource, R!TypeOK
<1>2. links \in [Descriptor -> Descriptor] /\ \A d \in Descriptor : links[links[d]] = links[d]
  BY DEF R!TypeOK, R!Links
<1>. QED  BY <1>1, <1>2 DEF R!CanonicalKey

LEMMA HitStep ==
  ASSUME RInv, NEW dep \in Dep, R!CacheHit(dep)
  PROVE  RInv'
<1>. DEFINE found == R!CanonicalKey(call.sources[dep])
<1>1. /\ R!TypeOK /\ R!At(dep) /\ lookup = NoKey /\ dep \notin Skipped
      /\ dep \notin visited /\ R!HasSource(dep)
      /\ found \in DOMAIN cache /\ R!Enter(dep, found, cache[found])
      /\ UNCHANGED <<lookup, cache>>
  BY DEF RInv, R!CacheHit, R!Reaches
<1>2. found \in Descriptor /\ cache[found] \in Requires
  BY <1>1, Keys DEF R!TypeOK
<1>3. ASSUME ~ moved
      PROVE  /\ found = links[call.sources[dep]]
             /\ \A d \in DOMAIN cache : files[d] # Gone /\ links[d] = d
  <2>1. \A d \in DOMAIN cache : files[d] # Gone /\ links[d] = d
    BY <1>3 DEF RInv, Reading
  <2>2. files[found] # Gone /\ links[found] = found
    BY <1>1, <2>1
  <2>. QED  BY <2>1, <2>2 DEF R!CanonicalKey
<1>4. /\ DOMAIN cache' \subseteq Descriptor
      /\ \A d \in DOMAIN cache' : cache'[d] \in Requires
  BY <1>1 DEF R!TypeOK
<1>. HIDE DEF found
<1>. QED  BY <1>1, <1>2, <1>3, <1>4, EnterStep

LEMMA ReadStep ==
  ASSUME RInv, NEW dep \in Dep, R!ReadDescriptor(dep)
  PROVE  RInv'
<1>. DEFINE read == R!Read(dep)
<1>1. /\ R!TypeOK /\ R!At(dep) /\ lookup # NoKey /\ read \notin {Unreadable, Gone}
      /\ cache' = [d \in DOMAIN cache \cup {lookup} |->
                     IF d = lookup THEN read ELSE cache[d]]
      /\ lookup' = NoKey /\ R!Enter(dep, lookup, read)
  BY DEF RInv, R!ReadDescriptor
<1>2. /\ dep \notin Skipped /\ dep \notin visited /\ R!HasSource(dep)
      /\ lookup \notin DOMAIN cache
      /\ ~ moved => lookup = links[call.sources[dep]]
  <2>1. dep = Head(R!Top.left) /\ Looking
    BY <1>1 DEF R!At, RInv
  <2>. QED  BY <1>1, <2>1 DEF Looking
<1>3. lookup \in Descriptor /\ read \in Requires
  <2>1. links[call.sources[dep]] \in Descriptor
    BY <1>1, <1>2, Keys
  <2>2. files \in [Descriptor -> R!Contents]
    BY <1>1 DEF R!TypeOK
  <2>. QED  BY <1>1, <2>1, <2>2 DEF R!TypeOK, R!Read, R!Contents
<1>4. /\ DOMAIN cache' = DOMAIN cache \cup {lookup} /\ cache'[lookup] = read
      /\ \A d \in DOMAIN cache : cache'[d] = cache[d]
  BY <1>1, <1>2
<1>5. /\ DOMAIN cache' \subseteq Descriptor
      /\ \A d \in DOMAIN cache' : cache'[d] \in Requires
  BY <1>1, <1>3, <1>4 DEF R!TypeOK
<1>6. ASSUME ~ moved
      PROVE  \A d \in DOMAIN cache' : files[d] # Gone /\ links[d] = d
  <2>1. files[lookup] # Gone /\ links[lookup] = lookup
    <3>1. lookup = links[call.sources[dep]] /\ links[lookup] = lookup
      BY <1>1, <1>2, <1>6, Keys
    <3>. QED  BY <1>1, <3>1 DEF R!Read
  <2>2. \A d \in DOMAIN cache : files[d] # Gone /\ links[d] = d
    BY <1>6 DEF RInv, Reading
  <2>. QED  BY <1>4, <2>1, <2>2
<1>. HIDE DEF read
<1>. QED  BY <1>1, <1>2, <1>3, <1>4, <1>5, <1>6, EnterStep

(* Neither the path nor what has been read changes.                        *)
LEMMA SameResolution ==
  ASSUME RInv, UNCHANGED <<call, path, visited, cache, tree, answer>>,
         R!TypeOK', Looking',
         moved => moved',
         ~ moved' => /\ links' = links
                     /\ \A d \in DOMAIN cache : files[d] # Gone => files'[d] # Gone
  PROVE  RInv'
<1>1. OnPath' /\ NotAsked'
  BY DEF RInv, OnPath, NotAsked, R!Wanted, R!Range
<1>2. ToVisit'
  <2>. SUFFICES ASSUME NEW n \in 1..Len(path) PROVE Visits(n)'
    BY DEF ToVisit
  <2>1. Visits(n) /\ Way(path', n) = Way(path, n)
    BY DEF RInv, ToVisit, Way
  <2>. QED  BY <2>1, VisitsNext DEF Visits, HasNode
<1>3. Grown'
  BY SameTree DEF RInv
<1>4. Rooted'
  <2>1. ASSUME NEW t \in tree, Below(t)  PROVE Below(t)'
    BY <2>1 DEF Below, Way, R!Last, R!Wanted, R!Range
  <2>. QED  BY <2>1 DEF RInv, Rooted
<1>5. Reading'
  <2>1. ASSUME NEW n \in 2..Len(path)
        PROVE  Agrees(path[n].dep, path[n].key, path[n].requires)'
    <3>1. Agrees(path[n].dep, path[n].key, path[n].requires)
      BY DEF RInv, Reading
    <3>. QED  BY <3>1 DEF Agrees
  <2>2. ASSUME NEW t \in tree
        PROVE  Agrees(R!Last(t.walk), t.key, t.requires)'
    <3>1. Agrees(R!Last(t.walk), t.key, t.requires)
      BY DEF RInv, Reading
    <3>. QED  BY <3>1 DEF Agrees, R!Last
  <2>3. ~ moved' => \A d \in DOMAIN cache : files'[d] # Gone /\ links'[d] = d
    BY DEF RInv, Reading
  <2>. QED  BY <2>1, <2>2, <2>3 DEF Reading
<1>6. Answered'
  <2>1. \A w : HasNode(w)' <=> HasNode(w)
    BY SameTree
  <2>. QED  BY <2>1 DEF RInv, Answered, R!Wanted, R!Range
<1>. QED  BY <1>1, <1>2, <1>3, <1>4, <1>5, <1>6 DEF RInv

LEMMA MissStep ==
  ASSUME RInv, NEW dep \in Dep, R!CacheMiss(dep)
  PROVE  RInv'
<1>. DEFINE found == R!CanonicalKey(call.sources[dep])
<1>1. /\ R!TypeOK /\ R!At(dep) /\ dep \notin Skipped /\ dep \notin visited
      /\ R!HasSource(dep) /\ found \notin DOMAIN cache /\ lookup' = found
      /\ UNCHANGED <<links, files, edits, moved, call, path, visited, cache, tree, answer>>
  BY DEF RInv, R!CacheMiss, R!Reaches, R!disk
<1>2. R!TypeOK'
  <2>1. found \in Descriptor
    BY <1>1, Keys
  <2>. QED  BY <1>1, <2>1 DEF R!TypeOK
<1>3. /\ path # <<>> /\ R!Top.left # <<>> /\ dep = Head(R!Top.left)
  BY <1>1 DEF R!At
<1>4. R!Read(dep) # Gone => found = links[call.sources[dep]]
  BY DEF R!Read, R!CanonicalKey
<1>5. R!Top' = R!Top /\ R!HasSource(dep)' /\ R!Read(dep)' = R!Read(dep)
  BY <1>1 DEF R!Top, R!Last, R!HasSource, R!Read
<1>6. Looking'
  <2>1. /\ path' # <<>> /\ R!Top'.left # <<>> /\ dep = Head(R!Top'.left)
        /\ dep \notin Skipped \cup visited' /\ lookup' \notin DOMAIN cache'
        /\ ~ moved' /\ R!Read(dep)' # Gone => lookup' = links'[call'.sources[dep]]
    BY <1>1, <1>3, <1>4, <1>5
  <2>. HIDE DEF found
  <2>. QED  BY <1>5, <2>1 DEF Looking, R!HasSource, R!Read
<1>. QED  BY <1>1, <1>2, <1>6, SameResolution

LEMMA EditStep ==
  ASSUME RInv, R!Edit
  PROVE  RInv'
<1>1. /\ R!TypeOK /\ edits' = edits + 1 /\ edits < MaxEdits
      /\ UNCHANGED <<call, path, lookup, visited, cache, tree, answer>>
  BY DEF RInv, R!Edit
<1>2. /\ links' \in R!Links /\ files' \in [Descriptor -> R!Contents] /\ moved' \in BOOLEAN
      /\ moved => moved'
      /\ ~ moved' => /\ links' = links
                     /\ \A d \in Descriptor : files'[d] = Gone <=> files[d] = Gone
  <2>0. files \in [Descriptor -> R!Contents] /\ links \in R!Links /\ moved \in BOOLEAN
    BY <1>1 DEF R!TypeOK
  <2>1. CASE \E d \in Descriptor, content \in R!Contents :
               /\ files' = [files EXCEPT ![d] = content]
               /\ moved' = (moved \/ Gone \in {content, files[d]})
               /\ UNCHANGED links
    <3>1. PICK d \in Descriptor, content \in R!Contents :
               /\ files' = [files EXCEPT ![d] = content]
               /\ moved' = (moved \/ Gone \in {content, files[d]})
               /\ UNCHANGED links
      BY <2>1
    <3>2. files' \in [Descriptor -> R!Contents]
      BY <2>0, <3>1
    <3>3. \A e \in Descriptor : files'[e] = IF e = d THEN content ELSE files[e]
      BY <2>0, <3>1
    <3>4. /\ moved' \in BOOLEAN /\ (moved => moved')
          /\ ~ moved' => content # Gone /\ files[d] # Gone
      BY <3>1
    <3>. QED  BY <2>0, <3>1, <3>2, <3>3, <3>4
  <2>2. CASE links' \in R!Links \ {links} /\ moved' = TRUE /\ UNCHANGED files
    BY <2>0, <2>2
  <2>. QED  BY <2>1, <2>2 DEF R!Edit
<1>3. R!TypeOK'
  <2>1. edits' \in 0..MaxEdits
    BY <1>1, ResolverAssumption DEF R!TypeOK
  <2>. QED  BY <1>1, <1>2, <2>1 DEF R!TypeOK
<1>4. Looking'
  <2>. SUFFICES ASSUME lookup # NoKey PROVE Looking'
    BY <1>1 DEF Looking
  <2>. DEFINE dep == Head(R!Top.left)
  <2>1. /\ path # <<>> /\ R!Top.left # <<>> /\ dep \notin Skipped \cup visited
        /\ R!HasSource(dep) /\ lookup \notin DOMAIN cache
        /\ ~ moved /\ R!Read(dep) # Gone => lookup = links[call.sources[dep]]
    BY DEF RInv, Looking
  <2>2. R!Top' = R!Top /\ R!HasSource(dep)'
    BY <1>1, <2>1 DEF R!Top, R!Last, R!HasSource
  <2>3. links[call.sources[dep]] \in Descriptor
    BY <1>1, <2>1, Keys
  <2>4. ~ moved' /\ R!Read(dep)' # Gone => lookup' = links'[call'.sources[dep]]
    <3>. SUFFICES ASSUME ~ moved', R!Read(dep)' # Gone
                  PROVE  lookup' = links'[call'.sources[dep]]
      OBVIOUS
    <3>1. ~ moved /\ links' = links /\ call' = call /\ lookup' = lookup
      BY <1>1, <1>2
    <3>2. R!Read(dep)' = files'[links[call.sources[dep]]]
      BY <2>2, <3>1 DEF R!Read
    <3>3. R!Read(dep) # Gone
      BY <1>2, <2>3, <3>2 DEF R!Read
    <3>. QED  BY <2>1, <3>1, <3>3
  <2>5. R!Top'.left = R!Top.left /\ Head(R!Top.left)' = Head(R!Top.left)
    BY <2>2
  <2>. QED  BY <1>1, <2>1, <2>2, <2>4, <2>5 DEF Looking, R!HasSource, R!Read
<1>5. DOMAIN cache \subseteq Descriptor
  BY <1>1 DEF R!TypeOK
<1>. QED  BY <1>1, <1>2, <1>3, <1>4, <1>5, SameResolution

LEMMA LeaveStep ==
  ASSUME RInv, R!LeaveDependency
  PROVE  RInv'
<1>. DEFINE N == Len(path)
            w == Way(path, N)
            node == [walk |-> w, key |-> path[N].key, requires |-> path[N].requires]
<1>1. /\ R!TypeOK /\ OnPath /\ N > 1 /\ R!Top.left = <<>>
      /\ visited' = visited \ {R!Top.dep} /\ tree' = tree \cup {R!TopNode}
      /\ path' = SubSeq(path, 1, N - 1)
      /\ UNCHANGED <<links, files, edits, moved, call, lookup, cache, answer>>
  BY DEF RInv, R!LeaveDependency, R!Front, R!disk
<1>2. /\ path # <<>> /\ N \in Nat /\ N \in 2..N /\ N \in 1..N /\ N - 1 \in 1..(N - 1)
      /\ R!Top = path[N] /\ path \in Seq(R!Frame) /\ answer = "none"
  <2>1. N \in Nat /\ path \in Seq(R!Frame)
    BY <1>1, Frames
  <2>2. path # <<>>
    BY <1>1, <2>1, Lengths
  <2>3. N \in 2..N /\ N \in 1..N /\ N - 1 \in 1..(N - 1)
    <3>. HIDE DEF N
    <3>. QED  BY <1>1, <2>1
  <2>4. answer = "none"
    BY <2>2 DEF RInv, Answered
  <2>. QED  BY <1>1, <2>1, <2>2, <2>3, <2>4, Frames
<1>3. tree' = tree \cup {node} /\ visited' = visited \ {path[N].dep}
  <2>1. R!Walk = w
    BY DEF R!Walk, Way
  <2>. QED  BY <1>1, <1>2, <2>1 DEF R!TopNode
<1>4. /\ path' \in Seq(R!Frame) /\ Len(path') = N - 1 /\ N - 1 \in Nat
      /\ \A n \in 1..(N - 1) : path'[n] = path[n]
      /\ path' # <<>>
  <2>1. /\ path' \in Seq(R!Frame) /\ Len(path') = N - 1
        /\ \A n \in 1..(N - 1) : path'[n] = path[n]
    BY <1>1, <1>2, FrontOf
  <2>2. N - 1 \in Nat /\ N - 1 > 0
    <3>. HIDE DEF N
    <3>. QED  BY <1>2
  <2>. QED  BY <2>1, <2>2
<1>5. /\ path[1].dep = Root /\ path[1].requires = call.requires
      /\ \A n \in 2..N : path[n].dep \in R!Wanted(path[n - 1].requires)
      /\ \A m, n \in 2..N : m # n => path[m].dep # path[n].dep
      /\ visited = {path[n].dep : n \in 2..N}
  BY <1>1, <1>2 DEF OnPath
<1>6. w \in Seq(Dep \ Skipped) /\ ~ R!Repeats(w) /\ R!Last(w) = path[N].dep
  BY <1>1, <1>2, Ways
<1>7. /\ node.walk = w /\ node.key = path[N].key /\ node.requires = path[N].requires
  OBVIOUS
<1>8. /\ Agrees(path[N].dep, path[N].key, path[N].requires)
      /\ path[N].key \in Descriptor /\ path[N].requires \in Requires
  <2>1. Agrees(path[N].dep, path[N].key, path[N].requires)
    BY <1>2 DEF RInv, Reading
  <2>. QED  BY <1>1, <1>2, <2>1, Frames DEF Agrees, R!TypeOK
<1>9. node \in R!Node
  BY <1>6, <1>8 DEF R!Node
<1>10. R!Range(path[N].left) = {}
  <2>1. path[N].left = <<>>
    BY <1>1, <1>2
  <2>. QED  BY <2>1 DEF R!Range
<1>11. w = Append(Way(path, N - 1), path[N].dep)
  <2>1. \A i \in 2..N : path[i].dep \in Dep
    BY <1>1, <1>5 DEF R!TypeOK
  <2>. QED  BY <1>1, <1>2, <2>1, WayGrows
<1>. HIDE DEF node, w, N
<1>12. /\ 1 \in 1..(N - 1)
       /\ \A n \in 1..(N - 1) : n \in 1..N /\ n < N
       /\ \A n \in 2..(N - 1) : /\ n \in 2..N /\ n # N /\ n \in 1..(N - 1)
                                /\ n - 1 \in 1..(N - 1)
  BY <1>2
<1>13. R!TypeOK'
  BY <1>1, <1>3, <1>4, <1>9 DEF R!TypeOK
<1>14. OnPath'
  <2>1. /\ path'[1].dep = Root /\ path'[1].requires = call.requires
        /\ \A n \in 2..(N - 1) : path'[n].dep \in R!Wanted(path'[n - 1].requires)
        /\ \A m, n \in 2..(N - 1) : m # n => path'[m].dep # path'[n].dep
    BY <1>4, <1>5, <1>12
  <2>2. visited' = {path'[n].dep : n \in 2..(N - 1)}
    <3>1. 2..N = (2..(N - 1)) \cup {N}
      BY <1>2
    <3>2. visited = {path[n].dep : n \in 2..(N - 1)} \cup {path[N].dep}
      BY <1>5, <3>1
    <3>3. path[N].dep \notin {path[n].dep : n \in 2..(N - 1)}
      BY <1>2, <1>5, <1>12
    <3>4. \A n \in 2..(N - 1) : path'[n].dep = path[n].dep
      BY <1>4, <1>12
    <3>5. {path'[n].dep : n \in 2..(N - 1)} = {path[n].dep : n \in 2..(N - 1)}
      BY <3>4
    <3>. QED  BY <1>3, <3>2, <3>3, <3>5
  <2>3. Len(path') = N - 1 /\ call' = call
    BY <1>1, <1>4
  <2>. QED  BY <2>1, <2>2, <2>3 DEF OnPath, R!Wanted, R!Range
<1>15. \A n \in 1..N : Visits(n)
  BY DEF RInv, ToVisit, N
<1>16. ToVisit'
  <2>. SUFFICES ASSUME NEW n \in 1..(N - 1) PROVE Visits(n)'
    BY <1>4 DEF ToVisit
  <2>1. path'[n] = path[n] /\ Visits(n)
    BY <1>4, <1>12, <1>15
  <2>2. Way(path', n) = Way(path, n)
    <3>1. \A i \in 1..(n - 1) : i + 1 \in 1..(N - 1)
      BY <1>2
    <3>. QED  BY <1>4, <3>1 DEF Way
  <2>3. ASSUME NEW x \in R!Wanted(path[n].requires)
        PROVE  \/ x \in R!Range(path'[n].left)
               \/ n < Len(path') /\ x = path'[n + 1].dep
               \/ \E t \in tree' : t.walk = Append(Way(path', n), x)
    <3>1. \/ x \in R!Range(path[n].left)
          \/ n < N /\ x = path[n + 1].dep
          \/ HasNode(Append(Way(path, n), x))
      BY <2>1 DEF Visits, N
    <3>2. CASE x \in R!Range(path[n].left)
      BY <2>1, <3>2
    <3>3. CASE n < N /\ x = path[n + 1].dep
      <4>1. CASE n < N - 1
        <5>1. n + 1 \in 1..(N - 1)
          BY <1>2, <4>1
        <5>2. path'[n + 1] = path[n + 1]
          BY <1>4, <5>1
        <5>. QED  BY <1>4, <3>3, <4>1, <5>2
      <4>2. CASE n = N - 1
        <5>1. n + 1 = N
          BY <1>2, <4>2
        <5>2. Append(Way(path', n), x) = node.walk
          BY <1>7, <1>11, <2>2, <3>3, <4>2, <5>1
        <5>. QED  BY <1>3, <5>2
      <4>. QED  BY <1>2, <4>1, <4>2
    <3>4. CASE HasNode(Append(Way(path, n), x))
      BY <1>3, <2>2, <3>4 DEF HasNode
    <3>. QED  BY <3>1, <3>2, <3>3, <3>4
  <2>4. R!Range(path'[n].left) \subseteq R!Range(path[n].requires)
    BY <2>1 DEF Visits
  <2>. QED  BY <2>1, <2>3, <2>4, VisitsNext
<1>17. \A v : HasNode(v) => HasNode(v)'
  BY <1>3 DEF HasNode
<1>18. Grown'
  <2>. SUFFICES ASSUME NEW t \in tree \cup {node}
                PROVE  /\ ~ R!Repeats(t.walk)
                       /\ \A dep \in R!Wanted(t.requires) : HasNode(Append(t.walk, dep))'
    BY <1>3 DEF Grown, R!Repeats, R!Wanted, R!Range
  <2>1. CASE t \in tree
    <3>1. /\ ~ R!Repeats(t.walk)
          /\ \A dep \in R!Wanted(t.requires) : HasNode(Append(t.walk, dep))
      BY <2>1 DEF RInv, Grown
    <3>. QED  BY <1>17, <3>1
  <2>2. CASE t = node
    <3>1. \A dep \in R!Wanted(path[N].requires) : HasNode(Append(w, dep))
      <4>1. Visits(N) /\ ~ (N < Len(path))
        BY <1>2, <1>15 DEF N
      <4>. QED  BY <1>10, <4>1 DEF Visits, w
    <3>. QED  BY <1>6, <1>7, <1>17, <2>2, <3>1
  <2>. QED  BY <2>1, <2>2
<1>19. Rooted'
  <2>0. ASSUME NEW n \in 1..(N - 1)  PROVE Way(path', n) = Way(path, n)
    <3>1. \A i \in 1..(n - 1) : i + 1 \in 1..(N - 1)
      BY <1>2
    <3>. QED  BY <1>4, <3>1 DEF Way
  <2>1. ASSUME NEW t, NEW last, last = R!Last(t.walk),
               \/ t.walk = <<last>> /\ last \in R!Wanted(call.requires)
               \/ \E s \in tree \cup {node} : /\ t.walk = Append(s.walk, last)
                                              /\ last \in R!Wanted(s.requires)
               \/ \E n \in 2..(N - 1) : /\ t.walk = Append(Way(path', n), last)
                                        /\ last \in R!Wanted(path'[n].requires)
        PROVE  Below(t)'
    <3>0. R!Last(t.walk)' = last /\ call' = call /\ Len(path') = N - 1
      BY <1>1, <1>4, <2>1 DEF R!Last
    <3>1. CASE t.walk = <<last>> /\ last \in R!Wanted(call.requires)
      BY <3>0, <3>1 DEF Below, R!Wanted, R!Range
    <3>2. CASE \E s \in tree \cup {node} : /\ t.walk = Append(s.walk, last)
                                           /\ last \in R!Wanted(s.requires)
      BY <1>3, <3>0, <3>2 DEF Below, R!Wanted, R!Range
    <3>3. CASE \E n \in 2..(N - 1) : /\ t.walk = Append(Way(path', n), last)
                                     /\ last \in R!Wanted(path'[n].requires)
      BY <3>0, <3>3 DEF Below, R!Wanted, R!Range, Way
    <3>. QED  BY <2>1, <3>1, <3>2, <3>3
  <2>2. ASSUME NEW t \in tree  PROVE Below(t)'
    <3>. DEFINE last == R!Last(t.walk)
    <3>1. \/ t.walk = <<last>> /\ last \in R!Wanted(call.requires)
          \/ \E s \in tree : t.walk = Append(s.walk, last) /\ last \in R!Wanted(s.requires)
          \/ \E n \in 2..N : /\ t.walk = Append(Way(path, n), last)
                             /\ last \in R!Wanted(path[n].requires)
      BY <1>2 DEF RInv, Rooted, Below, N
    <3>. HIDE DEF last
    <3>2. ASSUME NEW n \in 2..N, t.walk = Append(Way(path, n), last),
                 last \in R!Wanted(path[n].requires)
          PROVE  \/ t.walk = Append(node.walk, last) /\ last \in R!Wanted(node.requires)
                 \/ /\ n \in 2..(N - 1)
                    /\ t.walk = Append(Way(path', n), last)
                    /\ last \in R!Wanted(path'[n].requires)
      <4>1. CASE n = N
        BY <1>7, <3>2, <4>1 DEF w
      <4>2. CASE n # N
        <5>1. n \in 2..(N - 1) /\ n \in 1..(N - 1)
          BY <1>2, <4>2
        <5>2. path'[n] = path[n] /\ Way(path', n) = Way(path, n)
          BY <1>4, <2>0, <5>1
        <5>. QED  BY <3>2, <5>1, <5>2
      <4>. QED  BY <4>1, <4>2
    <3>3. \/ t.walk = <<last>> /\ last \in R!Wanted(call.requires)
          \/ \E s \in tree \cup {node} : /\ t.walk = Append(s.walk, last)
                                         /\ last \in R!Wanted(s.requires)
          \/ \E n \in 2..(N - 1) : /\ t.walk = Append(Way(path', n), last)
                                   /\ last \in R!Wanted(path'[n].requires)
      BY <3>1, <3>2
    <3>. QED  BY <2>1, <3>3 DEF last
  <2>3. ASSUME NEW t, t = node  PROVE Below(t)'
    <3>. DEFINE last == path[N].dep
    <3>1. last = R!Last(t.walk) /\ t.walk = Append(Way(path, N - 1), last)
          /\ last \in R!Wanted(path[N - 1].requires)
      BY <1>2, <1>5, <1>6, <1>7, <1>11, <2>3
    <3>2. CASE N = 2
      <4>1. N - 1 = 1
        BY <3>2
      <4>2. t.walk = <<last>> /\ last \in R!Wanted(call.requires)
        BY <1>5, <3>1, <4>1, FirstWay
      <4>. QED  BY <2>1, <3>1, <4>2
    <3>3. CASE N # 2
      <4>1. N - 1 \in 2..(N - 1) /\ N - 1 \in 1..(N - 1)
        BY <1>2, <3>3
      <4>2. path'[N - 1] = path[N - 1] /\ Way(path', N - 1) = Way(path, N - 1)
        BY <1>4, <2>0, <4>1
      <4>3. /\ t.walk = Append(Way(path', N - 1), last)
            /\ last \in R!Wanted(path'[N - 1].requires)
        BY <3>1, <4>2
      <4>. HIDE DEF last
      <4>. QED  BY <2>1, <3>1, <4>1, <4>3
    <3>. QED  BY <3>2, <3>3
  <2>. QED  BY <1>3, <2>2, <2>3 DEF Rooted
<1>20. Reading'
  <2>1. ASSUME NEW n \in 2..(N - 1)
        PROVE  Agrees(path[n].dep, path[n].key, path[n].requires)'
    <3>1. Agrees(path[n].dep, path[n].key, path[n].requires) /\ path'[n] = path[n]
      BY <1>4, <1>12 DEF RInv, Reading, N
    <3>. QED  BY <1>1, <3>1 DEF Agrees
  <2>2. ASSUME NEW t \in tree \cup {node}
        PROVE  Agrees(R!Last(t.walk), t.key, t.requires)'
    <3>1. Agrees(R!Last(t.walk), t.key, t.requires)
      BY <1>6, <1>7, <1>8 DEF RInv, Reading
    <3>. QED  BY <1>1, <3>1 DEF Agrees, R!Last
  <2>3. ~ moved => \A d \in DOMAIN cache : files[d] # Gone /\ links[d] = d
    BY DEF RInv, Reading
  <2>. QED  BY <1>1, <1>3, <1>4, <2>1, <2>2, <2>3 DEF Reading
<1>21. Looking' /\ Answered' /\ NotAsked'
  <2>1. lookup' = NoKey
    BY <1>1 DEF RInv, Looking
  <2>. QED  BY <1>1, <1>2, <1>4, <2>1 DEF Looking, Answered, NotAsked
<1>. QED  BY <1>13, <1>14, <1>16, <1>18, <1>19, <1>20, <1>21 DEF RInv

LEMMA CallStep ==
  ASSUME RInv, R!ResolveDependencies
  PROVE  RInv'
<1>1. /\ R!TypeOK /\ path = <<>> /\ answer = "none" /\ lookup = NoKey
      /\ tree = {} /\ visited = {} /\ cache = <<>>
      /\ UNCHANGED <<links, files, edits, moved, lookup, visited, cache, tree>>
  BY DEF RInv, R!ResolveDependencies, NotAsked, Looking, R!disk
<1>2. CASE answer' = "error" /\ UNCHANGED <<call, path>>
  <2>1. R!TypeOK'
    BY <1>1, <1>2 DEF R!TypeOK, R!Answers
  <2>2. Answered' /\ NotAsked' /\ Looking'
    BY <1>1, <1>2 DEF Answered, NotAsked, Looking
  <2>3. OnPath' /\ ToVisit' /\ Grown' /\ Rooted' /\ Reading'
    BY <1>1, <1>2 DEF OnPath, ToVisit, Grown, Rooted, Reading
  <2>. QED  BY <2>1, <2>2, <2>3 DEF RInv
<1>3. CASE ~ (answer' = "error" /\ UNCHANGED <<call, path>>)
  <2>1. PICK requires \in Requires, normalized \in SourceMaps, config \in SourceMaps,
             spec0 \in SourceMaps :
          call' = [requires |-> requires, sources |-> R!Sources(normalized, config, spec0)]
    BY <1>3 DEF R!ResolveDependencies
  <2>2. /\ path' = <<[dep |-> Root, left |-> call'.requires, key |-> NoKey,
                      requires |-> call'.requires]>>
        /\ answer' = answer
    BY <1>3 DEF R!ResolveDependencies
  <2>. DEFINE f == [dep |-> Root, left |-> requires, key |-> NoKey, requires |-> requires]
              sources == R!Sources(normalized, config, spec0)
  <2>3. call'.requires = requires /\ call'.sources = sources /\ requires \in Seq(Dep)
    BY <2>1, ResolverAssumption
  <2>4. /\ f \in R!Frame /\ f.dep = Root /\ f.left = requires /\ f.requires = requires
        /\ path' = <<f>>
    BY <2>2, <2>3 DEF R!Frame
  <2>5. /\ DOMAIN sources \subseteq Dep
        /\ \A dep \in DOMAIN sources : sources[dep] \in Descriptor \cup {Unusable}
    BY SourcesAssumption DEF R!Sources
  <2>. HIDE DEF f, sources
  <2>6. path' \in Seq(R!Frame) /\ Len(path') = 1 /\ path'[1] = f /\ path' # <<>>
    BY <2>4
  <2>7. R!TypeOK'
    BY <1>1, <2>2, <2>3, <2>5, <2>6 DEF R!TypeOK
  <2>8. OnPath'
    BY <1>1, <2>3, <2>4, <2>6 DEF OnPath
  <2>9. ToVisit'
    <3>. SUFFICES ASSUME NEW n \in 1..1 PROVE Visits(n)'
      BY <2>6 DEF ToVisit
    <3>1. path'[n].left = requires /\ path'[n].requires = requires
      BY <2>4, <2>6
    <3>2. \A x \in R!Wanted(requires) : x \in R!Range(path'[n].left)
      BY <3>1 DEF R!Wanted
    <3>. QED  BY <3>1, <3>2, VisitsNext
  <2>10. Grown' /\ Rooted' /\ Reading' /\ Looking' /\ Answered' /\ NotAsked'
    BY <1>1, <2>2, <2>6 DEF Grown, Rooted, Reading, Looking, Answered, NotAsked
  <2>. QED  BY <2>7, <2>8, <2>9, <2>10 DEF RInv
<1>. QED  BY <1>2, <1>3

LEMMA ResolverInit == R!Init => RInv
<1>. SUFFICES ASSUME R!Init PROVE RInv
  OBVIOUS
<1>. USE DEF R!Init
<1>1. R!TypeOK
  <2>1. <<>> \in Seq(R!Frame) /\ DOMAIN (<<>>) = {} /\ 0 \in 0..MaxEdits
    BY EmptySeq, ResolverAssumption
  <2>2. /\ call.requires \in Requires /\ DOMAIN call.sources = {}
        /\ path \in Seq(R!Frame) /\ DOMAIN cache = {} /\ answer \in R!Answers
        /\ edits \in 0..MaxEdits
    BY <2>1, ResolverAssumption DEF R!Answers
  <2>. QED  BY <2>2 DEF R!TypeOK
<1>2. OnPath /\ Looking /\ Answered /\ NotAsked
  BY DEF OnPath, Looking, Answered, NotAsked
<1>3. ToVisit /\ Grown /\ Rooted /\ Reading
  BY DEF ToVisit, Grown, Rooted, Reading
<1>. QED  BY <1>1, <1>2, <1>3 DEF RInv

LEMMA ResolverStep == RInv /\ R!Next => RInv'
<1>. SUFFICES ASSUME RInv, R!Next PROVE RInv'
  OBVIOUS
<1>1. CASE R!ResolveDependencies
  BY <1>1, CallStep
<1>2. CASE R!Resolve
  <2>1. ASSUME NEW dep \in Dep, R!Cycle(dep) \/ R!NoSource(dep) \/ R!BadDescriptor(dep)
        PROVE  RInv'
    <3>1. R!Answer("cycle") \/ R!Answer("error")
      BY <2>1 DEF R!Cycle, R!NoSource, R!BadDescriptor
    <3>. QED  BY <3>1, AnswerStep
  <2>. QED  BY <1>2, <2>1, SkipStep, HitStep, MissStep, ReadStep, LeaveStep, FinishStep
            DEF R!Resolve
<1>3. CASE R!Edit
  BY <1>3, EditStep
<1>. QED  BY <1>1, <1>2, <1>3 DEF R!Next

-----------------------------------------------------------------------------
(* The resolution among the parts.                                         *)

ResolverPart == part = "resolver" => RInv

LEMMA ResolverAlways == PartsSpec => []ResolverPart
<1>1. PartsInit => ResolverPart
  BY ResolverInit DEF PartsInit, ResolverPart
<1>2. ResolverPart /\ [PartsNext]_partVars => ResolverPart'
  <2>. SUFFICES ASSUME ResolverPart, [PartsNext]_partVars, part' = "resolver"
                PROVE  RInv'
    BY DEF ResolverPart
  <2>1. CASE Resolver
    BY <2>1, ResolverStep DEF Resolver, ResolverPart
  <2>2. CASE Ended \/ UNCHANGED partVars
    <3>1. UNCHANGED partVars
      BY <2>2 DEF Ended
    <3>2. /\ RInv
          /\ UNCHANGED <<links, files, edits, moved, call, path, lookup, visited, cache,
                         tree, answer>>
      BY <3>1 DEF partVars, resolving, shared, ResolverPart
    <3>3. R!TypeOK'
      BY <3>2 DEF RInv, R!TypeOK
    <3>4. Looking'
      BY <3>2 DEF RInv, Looking, R!Top, R!Last, R!HasSource, R!Read
    <3>. QED  BY <3>2, <3>3, <3>4, SameResolution
  <2>3. CASE Streams \/ Queue \/ Logs \/ Scripts
    BY <2>3 DEF Streams, Queue, Logs, Scripts
  <2>. QED  BY <2>1, <2>2, <2>3 DEF PartsNext
<1>. QED  BY <1>1, <1>2, PTL DEF PartsSpec

(* resolve_dependency_node (src/tooling/resolver.rs): a cycle is reported  *)
(* only where descriptors, as they have been read, require each other in a *)
(* circle: nothing else repeats in `visited`, which is emptied on the way  *)
(* back.                                                                   *)
THEOREM ReportedCyclesExist == PartsSpec => CyclesAreReal
<1>1. ASSUME RInv, NEW dep \in Dep, R!Cycle(dep)  PROVE R!InCircle
  <2>1. R!TypeOK /\ R!At(dep) /\ dep \notin Skipped /\ dep \in visited
    BY <1>1 DEF RInv, R!Cycle, R!Reaches
  <2>2. /\ path # <<>> /\ Len(path) \in Nat /\ R!Top = path[Len(path)]
        /\ dep = Head(R!Top.left)
    BY <2>1, Frames DEF R!At
  <2>3. dep \in R!Wanted(R!Top.requires)
    BY <1>1, <2>1, <2>2, WantedNext DEF RInv
  <2>4. PICK n \in 2..Len(path) : path[n].dep = dep
    BY <1>1, <2>1, <2>2 DEF RInv, OnPath
  <2>5. ASSUME NEW i \in n..(Len(path) - 1)
        PROVE  path[i + 1].dep \in R!Wanted(path[i].requires)
    <3>1. i + 1 \in 2..Len(path) /\ (i + 1) - 1 = i
      BY <2>2, <2>4
    <3>2. path[i + 1].dep \in R!Wanted(path[(i + 1) - 1].requires)
      BY <1>1, <2>2, <3>1 DEF RInv, OnPath
    <3>. QED  BY <3>1, <3>2
  <2>. QED  BY <2>2, <2>3, <2>4, <2>5 DEF R!InCircle
<1>2. ResolverPart /\ [PartsNext]_partVars
        => [answer # "cycle" /\ answer' = "cycle" => R!InCircle]_(R!vars)
  <2>. SUFFICES ASSUME ResolverPart, [PartsNext]_partVars, ~ UNCHANGED R!vars,
                       answer # "cycle", answer' = "cycle"
                PROVE  R!InCircle
    OBVIOUS
  <2>1. CASE Resolver
    <3>1. RInv /\ R!Next
      BY <2>1 DEF Resolver, ResolverPart
    <3>2. \E dep \in Dep : R!Cycle(dep)
      BY <3>1 DEF R!Next, R!ResolveDependencies, R!Resolve, R!SkipDependency, R!Cycle,
         R!NoSource, R!CacheHit, R!CacheMiss, R!ReadDescriptor, R!BadDescriptor, R!Enter,
         R!LeaveDependency, R!Finish, R!Answer, R!Edit
    <3>. QED  BY <1>1, <3>1, <3>2
  <2>2. CASE Ended \/ UNCHANGED partVars
    BY <2>2 DEF Ended, partVars, shared
  <2>3. CASE Queue
    BY <2>3 DEF Queue, resolving, Q!Next, Q!CallQueueBfs, Q!EmptyQueue, Q!PopItem,
       Q!KeySlot, Q!ProcessSlot, Q!SlotCancelled, Q!Cancel, Q!Return
  <2>4. CASE Streams \/ Logs \/ Scripts
    BY <2>4 DEF Streams, Logs, Scripts, shared
  <2>. QED  BY <2>1, <2>2, <2>3, <2>4 DEF PartsNext
<1>. QED  BY <1>2, ResolverAlways, PTL DEF PartsSpec, CyclesAreReal, R!CyclesAreReal

(* resolve_dependencies_contract (src/tooling/resolver.rs): the tree of a  *)
(* success has a node for all that the root and its nodes want, for        *)
(* nothing else, and in no circle.  While files are only written to, nodes *)
(* of the same file are of one reading of it.                              *)
THEOREM ResolutionWhole == PartsSpec => []ResolvesWhole
<1>1. ResolverPart => ResolvesWhole
  <2>. SUFFICES ASSUME RInv, answer = "ok" PROVE R!ResolvesWhole
    BY DEF ResolverPart, ResolvesWhole, R!ResolvesWhole
  <2>1. R!FollowsAll
    BY DEF RInv, Grown, Answered, HasNode, R!FollowsAll
  <2>2. R!FollowsOnly
    <3>1. path = <<>> /\ 2..Len(path) = {}
      BY DEF RInv, Answered
    <3>2. ASSUME NEW t \in tree
          PROVE  /\ ~ R!Repeats(t.walk)
                 /\ \/ /\ t.walk = <<R!Last(t.walk)>>
                       /\ R!Last(t.walk) \in R!Wanted(call.requires)
                    \/ \E s \in tree : /\ t.walk = Append(s.walk, R!Last(t.walk))
                                       /\ R!Last(t.walk) \in R!Wanted(s.requires)
      <4>1. ~ R!Repeats(t.walk) /\ Below(t)
        BY DEF RInv, Grown, Rooted
      <4>. QED  BY <3>1, <4>1 DEF Below
    <3>. QED  BY <3>2 DEF R!FollowsOnly
  <2>3. ASSUME NEW s \in tree, NEW t \in tree,
               s.key = t.key \/ (~ moved /\ R!FileOf(s) = R!FileOf(t))
        PROVE  s.requires = t.requires
    <3>1. /\ Agrees(R!Last(s.walk), s.key, s.requires)
          /\ Agrees(R!Last(t.walk), t.key, t.requires)
      BY DEF RInv, Reading
    <3>2. s.key = t.key
      BY <2>3, <3>1 DEF Agrees, R!FileOf
    <3>. QED  BY <3>1, <3>2 DEF Agrees
  <2>. QED  BY <2>1, <2>2, <2>3 DEF R!ResolvesWhole
<1>. QED  BY <1>1, ResolverAlways, PTL
=============================================================================
