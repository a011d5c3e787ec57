------------------------------- MODULE Retrieval --------------------------------
(***************************************************************************)
(* RetrievalService over the index of a snapshot: which files the rules     *)
(* match, which files import those, and the batches they are given to the   *)
(* Surgeon in.                                                              *)
(*                                                                          *)
(* Files are read, and importers looked up, all at once: the answers come   *)
(* in any order, and sets and maps keep the order they were filled in. The  *)
(* recursive query has no ORDER BY. Runs of the Indexer go on meanwhile.    *)
(***************************************************************************)
EXTENDS RepoIndex

CONSTANTS
  Rules,          \* the rules whose detector compiles, in their order
  PathOrder,      \* the paths as localeCompare sorts them
  MaxBatchSize,   \* files of a batch
  MaxAncestors    \* importers that are kept of a file

RuleIds == ToSet(Rules)

ASSUME RetrievalAssumption ==
  /\ Rules \in Seq(RuleIds)
  /\ PathOrder \in Seq(Paths) /\ ToSet(PathOrder) = Paths
  /\ Len(PathOrder) = Cardinality(Paths)
  /\ MaxBatchSize \in Nat \ {0} /\ MaxAncestors \in Nat
  /\ \A t \in Trees : \A p \in DOMAIN t : t[p].match \in [RuleIds -> Nat]

VARIABLES
  phase,          \* where the call of retrieve is
  before,         \* runs of the Indexer that were finished when it began
  candidates,     \* parseable files of the snapshot
  unread,         \* those not read yet
  missed,         \* those it could not read
  lastIndex,      \* where each rule's expression was left
  seeds,          \* of each rule: the files it matches, in the order found
  ruleIdsByFile,  \* the rules each file is attributed to
  ancestors,      \* of each file that was looked up: the importers kept
  batches         \* the answer

work == <<candidates, unread, missed, lastIndex, seeds, ruleIdsByFile, ancestors>>
vars == <<tree, faults, indexVars, phase, before, work, batches>>

Init ==
  /\ IndexInit
  /\ phase = "load" /\ before = {}
  /\ candidates = {} /\ unread = {} /\ missed = {}
  /\ lastIndex = [r \in RuleIds |-> 0]
  /\ seeds = [r \in RuleIds |-> <<>>]
  /\ ruleIdsByFile = [f \in Paths |-> {}]
  /\ ancestors = [f \in {} |-> <<>>]
  /\ batches = {}

--------------------------------------------------------------------------------
LoadFiles ==
  /\ phase = "load"
  /\ before' = {i \in Runs : at[i] = "done"}
  /\ candidates' = files \intersect Parseable
  /\ unread' = candidates'
  /\ phase' = IF candidates' = {} THEN "done" ELSE "read"
  /\ UNCHANGED <<tree, faults, indexVars, missed, lastIndex, seeds, ruleIdsByFile, ancestors,
                 batches>>

\* Mutant of From: the expression goes on where it was left in another file.
From_LastIndex(r) == lastIndex[r]

\* lastIndex is reset before each test.
From(r) == 0

\* Where the expression of a rule first matches a file, if it does.
Matches(r, f) == tree[f].match[r] > From(r)

\* A rule is tested on the contents of one file at a time; the expression is
\* global, and remembers the end of its match.
Detect(f) ==
  /\ lastIndex' = [r \in RuleIds |-> IF Matches(r, f) THEN tree[f].match[r] ELSE 0]
  /\ seeds' = [r \in RuleIds |-> IF Matches(r, f) THEN Append(seeds[r], f) ELSE seeds[r]]
  /\ ruleIdsByFile' = [ruleIdsByFile EXCEPT ![f] = {r \in RuleIds : Matches(r, f)}]
  /\ UNCHANGED <<missed, faults>>

\* A file that cannot be read counts as an empty one.
Miss(f) ==
  /\ missed' = missed \union {f}
  /\ UNCHANGED <<lastIndex, seeds, ruleIdsByFile>>

ReadFile(f) ==
  /\ phase = "read" /\ f \in unread
  /\ unread' = unread \ {f}
  /\ \/ OnDisk(f) /\ Detect(f)
     \/ OnDisk(f) /\ faults < MaxFaults /\ faults' = faults + 1 /\ Miss(f)
     \/ ~OnDisk(f) /\ Miss(f) /\ UNCHANGED faults
  /\ phase' = IF unread' = {} THEN "expand" ELSE "read"
  /\ UNCHANGED <<tree, indexVars, before, candidates, ancestors, batches>>

--------------------------------------------------------------------------------
Seeds == UNION {ToSet(seeds[r]) : r \in RuleIds}

\* The rows of a recursive query: the files that import a file, and those that import
\* one of them. On a cycle the file is one of its importers.
Importers(f, graph) ==
  LET closed == {S \in SUBSET Paths : \A e \in graph : e[2] \in S \union {f} => e[1] \in S}
  IN  {g \in Paths : \A S \in closed : g \in S}

AtMost(n, m) == IF n <= m THEN n ELSE m

\* The rows of the query come in any order, and the first are kept.
Lookup(f) ==
  /\ phase = "expand" /\ f \in Seeds \ DOMAIN ancestors
  /\ LET importers == Importers(f, imports)
     IN \E kept \in SUBSET importers :
          /\ Cardinality(kept) = AtMost(Cardinality(importers), MaxAncestors)
          /\ \E list \in SetToSeqs(kept) :
               ancestors' = [g \in DOMAIN ancestors \union {f} |-> IF g = f THEN list ELSE ancestors[g]]
  /\ UNCHANGED <<tree, faults, indexVars, phase, before, candidates, unread, missed,
                 lastIndex, seeds, ruleIdsByFile, batches>>

\* A query fails, and with it the call.
QueryFails ==
  /\ phase \in {"load", "expand"}
  /\ faults < MaxFaults /\ faults' = faults + 1
  /\ phase' = "failed"
  /\ UNCHANGED <<tree, indexVars, before, work, batches>>

--------------------------------------------------------------------------------
\* Pairs of a seed and an importer of it. One that was not loaded is dropped.
PairsOf(s) ==
  FlattenSeq([k \in DOMAIN ancestors[s] |->
    IF ancestors[s][k] \in candidates THEN <<<<s, ancestors[s][k]>>>> ELSE <<>>])

\* The pairs of all seeds, in the order of a Set the seeds are added to, rule by rule.
Adjacency ==
  LET added == FlattenSeq([n \in DOMAIN Rules |-> seeds[Rules[n]]])
      Again(n) == \E m \in 1..(n - 1) : added[m] = added[n]
  IN  FlattenSeq([n \in DOMAIN added |-> IF Again(n) THEN <<>> ELSE PairsOf(added[n])])

Impacted == Seeds \union {pair[2] : pair \in ToSet(Adjacency)}

\* A seed hands down all it is attributed to by then, also as an importer itself.
HandDown(of, pair) == [of EXCEPT ![pair[2]] = @ \union of[pair[1]]]

Attributed(list) ==
  LET of[n \in 0..Len(list)] ==
        IF n = 0 THEN ruleIdsByFile ELSE HandDown(of[n - 1], list[n])
  IN  of[Len(list)]

\* A file and what is above it in the forest; the root is the one at the top.
Above(parent, f) ==
  LET closed == {S \in SUBSET Paths : f \in S /\ \A g \in S : parent[g] \in S}
  IN  {g \in Paths : \A S \in closed : g \in S}

Root(parent, f) == CHOOSE g \in Above(parent, f) : parent[g] = g

\* Path compression: what is above a file hangs directly from the root.
Compress(parent, f) ==
  LET above == Above(parent, f)
      root == Root(parent, f)
  IN  [g \in Paths |-> IF g \in above THEN root ELSE parent[g]]

\* Mutant of Unite: the file is hung, and not its root.
Unite_File(parent, pair) ==
  LET compressed == Compress(Compress(parent, pair[1]), pair[2])
  IN  [compressed EXCEPT ![pair[1]] = Root(parent, pair[2])]

\* The root of one hangs from the root of the other.
Unite(parent, pair) ==
  LET compressed == Compress(Compress(parent, pair[1]), pair[2])
  IN  [compressed EXCEPT ![Root(parent, pair[1])] = Root(parent, pair[2])]

Forest(list) ==
  LET parent[n \in 0..Len(list)] ==
        IF n = 0 THEN [f \in Paths |-> f] ELSE Unite(parent[n - 1], list[n])
  IN  parent[Len(list)]

Components ==
  LET forest == Forest(Adjacency)
      impacted == Impacted
      root == [f \in impacted |-> Root(forest, f)]
  IN  {{g \in impacted : root[g] = root[f]} : f \in impacted}

\* Where a path is in the order, and where a file is in its component, once sorted.
Place(p) == CHOOSE n \in DOMAIN PathOrder : PathOrder[n] = p

Rank(f, C) == Cardinality({g \in C : Place(g) < Place(f)})

\* Slices of a sorted component, as long as there are files left.
Slice(C, n) ==
  {f \in C : n * MaxBatchSize <= Rank(f, C) /\ Rank(f, C) < (n + 1) * MaxBatchSize}

Chunks(C) == {Slice(C, n) : n \in 0..Cardinality(C)} \ {{}}

\* What follows the last answer has no await; the batches are sorted at the end,
\* and with their ids, which are random, they are a set.
MakeBatches ==
  /\ phase = "expand" /\ Seeds = DOMAIN ancestors
  /\ batches' =
       LET attributed == Attributed(Adjacency)
       IN  {[files |-> chunk, rules |-> UNION {attributed[f] : f \in chunk}] :
              chunk \in UNION {Chunks(C) : C \in Components}}
  /\ phase' = "done"
  /\ UNCHANGED <<tree, faults, indexVars, before, work>>

--------------------------------------------------------------------------------
LoseFiles == Lose /\ UNCHANGED <<indexVars, phase, before, work, batches>>

Index == \E i \in Runs : IndexStep(i) /\ UNCHANGED <<phase, before, work, batches>>

Retrieve ==
  \/ LoadFiles
  \/ \E f \in Paths : ReadFile(f) \/ Lookup(f)
  \/ MakeBatches
  \/ QueryFails

Next == Index \/ Retrieve \/ LoseFiles

Spec == Init /\ [][Next]_vars

--------------------------------------------------------------------------------
\* A seed and an importer that was kept for it.
Linked ==
  {pair \in candidates \X candidates :
     pair[1] \in DOMAIN ancestors /\ pair[2] \in ToSet(ancestors[pair[1]])}

\* The sets of files that no link leaves.
Undivided == {S \in SUBSET Paths : \A pair \in Linked : pair[1] \in S <=> pair[2] \in S}

\* All of a full batch sorts before all of the other.
Sliced(S, T) ==
  Cardinality(S) = MaxBatchSize /\ \A f \in S, g \in T : Place(f) < Place(g)

\* Whatever the order of the answers, which importers are kept, and how the
\* forest grows: each impacted file is in exactly one batch, none is too large,
\* the files of a batch hang together by seeds and their importers, files that do
\* fill batch after batch in the order of their paths, and no batch names a rule
\* that matches no file of its component.
BatchesAreCoherent ==
  LET undivided == Undivided
      Joined(f, g) == \A S \in undivided : f \in S <=> g \in S
      impacted == Seeds \union {pair[2] : pair \in Linked}
  IN  phase = "done" =>
        /\ \A f \in impacted : Cardinality({b \in batches : f \in b.files}) = 1
        /\ \A b \in batches :
             /\ b.files \subseteq impacted /\ Cardinality(b.files) <= MaxBatchSize
             /\ \A f, g \in b.files : Joined(f, g)
             /\ \A r \in b.rules : \E f \in ToSet(seeds[r]), g \in b.files : Joined(f, g)
             /\ \A c \in batches \ {b} :
                  (\E f \in b.files, g \in c.files : Joined(f, g)) =>
                    Sliced(b.files, c.files) \/ Sliced(c.files, b.files)

\* The first of the files a specifier may mean that a run has found.
Means(spec, f, known) ==
  \E n \in DOMAIN Tried[spec] :
    Tried[spec][n] = f /\ f \in known /\ \A m \in 1..(n - 1) : Tried[spec][m] \notin known

\* A run of the Indexer was finished when retrieve began, whatever other runs had
\* failed or were still at work, and none of its files was lost since. Then each
\* file it found that was read and contains a match of a rule is in a batch that
\* names the rule, and so are those that import it, as far as they were parsed,
\* through any chain of imports, up to MaxAncestors of them.
NothingAffectedIsMissed ==
  \A i \in before : (phase = "done" /\ \A f \in found[i] : OnDisk(f)) =>
    LET graph == {pair \in parsed[i] \X found[i] :
                    \E spec \in tree[pair[1]].imports : Means(spec, pair[2], found[i])}
        Batched(r) == UNION {b.files : b \in {c \in batches : r \in c.rules}}
    IN  \A f \in (found[i] \intersect Parseable) \ missed, r \in RuleIds :
          tree[f].match[r] > 0 =>
            LET importers == Importers(f, graph)
            IN  /\ f \in Batched(r)
                /\ Cardinality(importers \intersect Batched(r)) >=
                     AtMost(Cardinality(importers), MaxAncestors)

================================================================================
