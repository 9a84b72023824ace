------------------------------ MODULE Resolver ------------------------------
(***************************************************************************)
(* The contract tooling/resolver/resolve_dependencies                      *)
(* (src/src/tooling/resolver.rs): the dependencies of a descriptor are     *)
(* followed depth first, each from its source to the descriptor there.     *)
(* `visited` holds the dependencies that are being resolved, `cache` the   *)
(* descriptors read so far, by the canonical path of their file.  The      *)
(* recursion is an explicit path.  Files may change, come and go, and      *)
(* links be turned, while it goes on.                                      *)
(***************************************************************************)
EXTENDS ToolingData, Functions, SequencesExt

VARIABLES links,    \* the canonical path of each path
          files,    \* what is at each canonical path
          edits,    \* how often either has changed
          moved,    \* history: a link was turned, or a file came or went
          call,     \* what the contract was called with
          path,     \* the descriptors being followed, the root first
          lookup,   \* the key of the descriptor about to be read
          visited,  \* the dependencies on the path
          cache,    \* the descriptors that have been read
          tree,     \* the nodes made so far
          answer    \* what the contract has answered

disk == <<links, files, edits, moved>>
vars == <<disk, call, path, lookup, visited, cache, tree, answer>>

Links == {l \in [Descriptor -> Descriptor] :
            \A d \in Descriptor : l[l[d]] = l[d]}

Contents == Requires \cup {Unreadable, Gone}

Call == [requires : Requires, sources : SourceMaps]

(* requires: what the descriptor says, found under key; left: the part of  *)
(* it that the loop has not reached yet.                                   *)
Frame == [dep : Dep \cup {Root}, left : Seq(Dep),
          key : Descriptor \cup {NoKey}, requires : Requires]

(* A node is at the end of a walk along dependencies from the root; key    *)
(* and requires are history.  Two may share a walk, when a dependency is   *)
(* listed twice.                                                           *)
Node == [walk : Seq(Dep \ Skipped), key : Descriptor, requires : Requires]

Answers == {"none", "ok", "cycle", "error"}

TypeOK ==
  /\ links \in Links
  /\ files \in [Descriptor -> Contents]
  /\ edits \in 0..MaxEdits
  /\ moved \in BOOLEAN
  /\ call.requires \in Requires
  /\ DOMAIN call.sources \subseteq Dep
  /\ \A dep \in DOMAIN call.sources :
       call.sources[dep] \in Descriptor \cup {Unusable}
  /\ path \in Seq(Frame)
  /\ lookup \in Descriptor \cup {NoKey}
  /\ visited \subseteq Dep \ Skipped
  /\ DOMAIN cache \subseteq Descriptor
  /\ \A d \in DOMAIN cache : cache[d] \in Requires
  /\ tree \subseteq Node
  /\ answer \in Answers

Init ==
  /\ links \in Links
  /\ files \in [Descriptor -> Contents]
  /\ edits = 0
  /\ moved = FALSE
  /\ call = [requires |-> <<>>, sources |-> <<>>]
  /\ path = <<>>
  /\ lookup = NoKey
  /\ visited = {}
  /\ cache = <<>>
  /\ tree = {}
  /\ answer = "none"

Top == Last(path)

(* The sources of normalizedConfig, or those of config if there are none,  *)
(* take precedence over specSources.                                       *)
Sources(normalized, config, spec) ==
  LET own == IF DOMAIN normalized # {} THEN normalized ELSE config
  IN  [dep \in DOMAIN own \cup DOMAIN spec |->
         IF dep \in DOMAIN own THEN own[dep] ELSE spec[dep]]

ResolveDependencies ==
  /\ path = <<>> /\ answer = "none"
  /\ \/ answer' = "error"                    \* no root descriptor is given
        /\ UNCHANGED <<call, path>>
     \/ /\ \E requires \in Requires, normalized, config, spec \in SourceMaps :
             call' = [requires |-> requires,
                      sources |-> Sources(normalized, config, spec)]
        /\ path' = <<[dep |-> Root, left |-> call'.requires, key |-> NoKey,
                       requires |-> call'.requires]>>
        /\ UNCHANGED answer
  /\ UNCHANGED <<disk, lookup, visited, cache, tree>>

(* The contract returns at once, with the first error that occurs.         *)
Answer(a) ==
  /\ answer' = a
  /\ path' = <<>>
  /\ lookup' = NoKey
  /\ UNCHANGED <<disk, call, visited, cache, tree>>

(* The loop over what the last descriptor requires stands at dep.          *)
At(dep) == path # <<>> /\ Top.left # <<>> /\ dep = Head(Top.left)

(* The path, past what its loop stands at.                                 *)
PassedBy == [path EXCEPT ![Len(path)].left = Tail(@)]

SkipDependency(dep) ==
  /\ At(dep) /\ dep \in Skipped
  /\ path' = PassedBy
  /\ UNCHANGED <<disk, call, lookup, visited, cache, tree, answer>>

(* Faulty variant: nothing is skipped.                                     *)
Reaches_Skipped(dep) == At(dep) /\ lookup = NoKey

Reaches(dep) == At(dep) /\ lookup = NoKey /\ dep \notin Skipped

Cycle(dep) == Reaches(dep) /\ dep \in visited /\ Answer("cycle")

HasSource(dep) ==
  dep \in DOMAIN call.sources /\ call.sources[dep] # Unusable

NoSource(dep) ==
  Reaches(dep) /\ dep \notin visited /\ ~ HasSource(dep) /\ Answer("error")

(* Faulty variant: the path is taken as it is.                             *)
CanonicalKey_Raw(d) == d

(* canonicalize, or the path as it is when there is no file.               *)
CanonicalKey(d) == IF files[links[d]] = Gone THEN d ELSE links[d]

(* Faulty variant: the dependency stays on the list of its descriptor.     *)
Enter_Stays(dep, found, requires) ==
  /\ visited' = visited \cup {dep}
  /\ path' = Append(path, [dep |-> dep, left |-> requires, key |-> found,
                           requires |-> requires])
  /\ UNCHANGED <<disk, call, tree, answer>>

Enter(dep, found, requires) ==
  /\ visited' = visited \cup {dep}
  /\ path' = Append(PassedBy, [dep |-> dep, left |-> requires, key |-> found,
                               requires |-> requires])
  /\ UNCHANGED <<disk, call, tree, answer>>

(* read_descriptor_for_spec.  A descriptor is looked up in the cache ...   *)
CacheHit(dep) ==
  LET found == CanonicalKey(call.sources[dep])
  IN /\ Reaches(dep) /\ dep \notin visited /\ HasSource(dep)
     /\ found \in DOMAIN cache
     /\ Enter(dep, found, cache[found])
     /\ UNCHANGED <<lookup, cache>>

CacheMiss(dep) ==
  LET found == CanonicalKey(call.sources[dep])
  IN /\ Reaches(dep) /\ dep \notin visited /\ HasSource(dep)
     /\ found \notin DOMAIN cache
     /\ lookup' = found
     /\ UNCHANGED <<disk, call, path, visited, cache, tree, answer>>

(* ... and else read, from where its path leads by now.                    *)
Read(dep) == files[links[call.sources[dep]]]

ReadDescriptor(dep) ==
  /\ At(dep) /\ lookup # NoKey
  /\ Read(dep) \notin {Unreadable, Gone}
  /\ cache' = [d \in DOMAIN cache \cup {lookup} |->
                 IF d = lookup THEN Read(dep) ELSE cache[d]]
  /\ lookup' = NoKey
  /\ Enter(dep, lookup, Read(dep))

BadDescriptor(dep) ==
  /\ At(dep) /\ lookup # NoKey
  /\ Read(dep) \in {Unreadable, Gone}
  /\ Answer("error")

(* The dependencies on the path, from the first below the root.            *)
Walk == [k \in 1..(Len(path) - 1) |-> path[k + 1].dep]

TopNode == [walk |-> Walk, key |-> Top.key, requires |-> Top.requires]

(* Faulty variant: the dependency stays among those visited.               *)
LeaveDependency_StaysVisited ==
  /\ Len(path) > 1 /\ Top.left = <<>>
  /\ tree' = tree \cup {TopNode}
  /\ path' = Front(path)
  /\ UNCHANGED <<disk, call, lookup, visited, cache, answer>>

LeaveDependency ==
  /\ Len(path) > 1 /\ Top.left = <<>>
  /\ visited' = visited \ {Top.dep}
  /\ tree' = tree \cup {TopNode}
  /\ path' = Front(path)
  /\ UNCHANGED <<disk, call, lookup, cache, answer>>

Finish == Len(path) = 1 /\ Top.left = <<>> /\ Answer("ok")

(* Somebody else writes, creates or removes a descriptor, or turns a link. *)
Edit ==
  /\ path # <<>> /\ edits < MaxEdits
  /\ \/ \E d \in Descriptor, content \in Contents :
          /\ content # files[d]
          /\ files' = [files EXCEPT ![d] = content]
          /\ moved' = (moved \/ Gone \in {content, files[d]})
          /\ UNCHANGED links
     \/ /\ links' \in Links \ {links}
        /\ moved' = TRUE
        /\ UNCHANGED files
  /\ edits' = edits + 1
  /\ UNCHANGED <<call, path, lookup, visited, cache, tree, answer>>

Resolve ==
  \/ \E dep \in Dep :
       \/ SkipDependency(dep) \/ Cycle(dep) \/ NoSource(dep)
       \/ CacheHit(dep) \/ CacheMiss(dep)
       \/ ReadDescriptor(dep) \/ BadDescriptor(dep)
  \/ LeaveDependency \/ Finish

Next == ResolveDependencies \/ Resolve \/ Edit

(* The thread that resolves is not starved.                                *)
FairSpec == Init /\ [][Next]_vars /\ WF_vars(Resolve)
-----------------------------------------------------------------------------
(* Properties.                                                             *)

Wanted(requires) == Range(requires) \ Skipped

Repeats(w) == \E j, k \in DOMAIN w : j < k /\ w[j] = w[k]

(* A node for each dependency that the root or a node wants, ...           *)
FollowsAll ==
  /\ \A dep \in Wanted(call.requires) : \E t \in tree : t.walk = <<dep>>
  /\ \A s \in tree : \A dep \in Wanted(s.requires) :
       \E t \in tree : t.walk = Append(s.walk, dep)

(* ... for no other, and in no circle.                                     *)
FollowsOnly ==
  \A t \in tree :
    /\ ~ Repeats(t.walk)
    /\ \/ t.walk = <<Last(t.walk)>> /\ Last(t.walk) \in Wanted(call.requires)
       \/ \E s \in tree : /\ t.walk = Append(s.walk, Last(t.walk))
                          /\ Last(t.walk) \in Wanted(s.requires)

(* The file that the source of a node leads to.                            *)
FileOf(t) == links[call.sources[Last(t.walk)]]

(* A resolution that succeeds has followed every dependency of every node  *)
(* and found no cycle.  Nodes whose descriptor came from the same place in *)
(* the cache agree about it.  If files were only written to meanwhile, so  *)
(* do all nodes whose source leads to the same file: each file was read    *)
(* once, though it has changed.  They may differ when a file came or went, *)
(* or a link was turned.                                                   *)
ResolvesWhole ==
  answer = "ok" =>
    /\ FollowsAll /\ FollowsOnly
    /\ \A s, t \in tree :
         s.key = t.key \/ (~ moved /\ FileOf(s) = FileOf(t))
           => s.requires = t.requires

(* What the loop stands at closes a circle of descriptors on the path.     *)
InCircle ==
  \E n \in 2..Len(path) :
    /\ path[n].dep = Head(Top.left)
    /\ path[n].dep \in Wanted(Top.requires)
    /\ \A k \in n..(Len(path) - 1) : path[k + 1].dep \in Wanted(path[k].requires)

(* A cycle that is reported is one of the descriptors being followed, as   *)
(* they have been read: a dependency that two of them share, or that is    *)
(* listed twice, is not taken for one.                                     *)
CyclesAreReal == [][answer # "cycle" /\ answer' = "cycle" => InCircle]_vars

(* Cyclic or not, every resolution ends.                                   *)
ResolutionEnds == path # <<>> ~> answer # "none"
=============================================================================
