----------------------------- MODULE RetrievalProofs -----------------------------
(***************************************************************************)
(* Theorems about RepoIndex and Retrieval: what is in the index when        *)
(* several runs write it, what retrieve finds in it, and the batches it     *)
(* answers with.                                                            *)
(***************************************************************************)
EXTENDS Retrieval, FiniteSetTheorems, TLAPS

--------------------------------------------------------------------------------
(* The index.                                                               *)

Labels == {"walk", "files", "parse", "imports", "symbols", "done", "failed"}

\* A run that has parsed; one whose imports rows are in.
HasParsed(i) == at[i] \in {"imports", "symbols", "done"}
HasImports(i) == at[i] \in {"symbols", "done"}

\* Files are lost, never changed: what is on disk is as in the tree cloned.
TreeInv ==
  \E t \in Trees : /\ DOMAIN tree \subseteq DOMAIN t
                   /\ \A p \in DOMAIN tree : tree[p] = t[p]

IndexTypeOK ==
  /\ TreeInv
  /\ at \in [Runs -> Labels]
  /\ found \in [Runs -> SUBSET Paths]
  /\ parsed \in [Runs -> SUBSET Paths]
  /\ edges \in [Runs -> SUBSET (Paths \X Paths)]
  /\ files \subseteq Paths
  /\ imports \subseteq Paths \X Paths
  /\ symbols \subseteq Paths

\* The edges of a run are those of the files it parsed, among the files it found.
EdgesOf(i) ==
  /\ parsed[i] \subseteq found[i] \intersect Parseable
  /\ edges[i] \subseteq parsed[i] \X found[i]
  /\ \A f \in parsed[i] : OnDisk(f) => ExtractEdges(f, found[i]) = {e \in edges[i] : e[1] = f}

\* What a run has written by now is there, beside the rows of the others.
RunInv(i) ==
  /\ HasFiles(i) => found[i] \subseteq files
  /\ HasParsed(i) => EdgesOf(i)
  /\ HasImports(i) => edges[i] \subseteq imports
  /\ at[i] = "done" => found[i] \intersect Parseable \subseteq symbols

\* An imports row joins two files rows of the snapshot, whatever run wrote them.
EdgesJoinIndexedFiles ==
  \A e \in imports : e[1] \in files \intersect Parseable /\ e[2] \in files

\* An imports row of a file that a run has written is a row of that run.
OwnImports(i) ==
  HasFiles(i) => \A e \in imports : e[2] \in found[i] => HasParsed(i) /\ e \in edges[i]

IndexInv ==
  /\ IndexTypeOK
  /\ \A i \in Runs : RunInv(i) /\ OwnImports(i)
  /\ EdgesJoinIndexedFiles
  /\ RunsDoNotMix

--------------------------------------------------------------------------------
(* The call of retrieve.                                                    *)

\* Files that were read, and were not missed.
Read == (candidates \ unread) \ missed

RetrieveTypeOK ==
  /\ phase \in {"load", "read", "expand", "done", "failed"}
  /\ candidates \subseteq files \intersect Parseable
  /\ unread \subseteq candidates /\ missed \subseteq candidates \ unread
  /\ seeds \in [RuleIds -> Seq(Read)]
  /\ ruleIdsByFile \in [Paths -> SUBSET RuleIds]

\* The call began when some runs were done, and has loaded the files of all of them.
LoadInv ==
  /\ \A i \in before : /\ i \in Runs /\ at[i] = "done" /\ phase # "load"
                       /\ phase # "failed" => found[i] \intersect Parseable \subseteq candidates
  /\ phase = "load" => candidates = {}
  /\ phase \in {"expand", "done"} => unread = {}

\* A file is a seed of the rules it is attributed to, once of each.
SeedsInv ==
  \A r \in RuleIds :
    /\ \A f \in Paths : f \in ToSet(seeds[r]) <=> r \in ruleIdsByFile[f]
    /\ IsInjective(seeds[r])

\* A file that was read is attributed to the rules that match it, and no others.
MatchInv ==
  \A f \in Read, r \in RuleIds : OnDisk(f) => (r \in ruleIdsByFile[f] <=> tree[f].match[r] > 0)

\* Of each file looked up: importers, once each, no more than are kept.
AncestorsInv ==
  /\ \A f \in DOMAIN ancestors :
       /\ ancestors[f] \in Seq(Paths) /\ IsInjective(ancestors[f])
       /\ Len(ancestors[f]) <= MaxAncestors
  /\ phase = "load" => DOMAIN ancestors = {}

\* Those of a file that a run finished before had found are importers by its edges, and
\* are as many as are kept of them.
ImportersInv ==
  \A i \in before : \A f \in DOMAIN ancestors \intersect found[i] :
    LET importers == Importers(f, edges[i])
    IN  /\ ToSet(ancestors[f]) \subseteq importers
        /\ Len(ancestors[f]) = AtMost(Cardinality(importers), MaxAncestors)

\* Files that no set tells apart that the links leave whole.
Joined(f, g) == \A S \in Undivided : f \in S <=> g \in S

\* What BatchesAreCoherent says of the batches.
Coherent(B) ==
  /\ \A f \in Seeds \union {pair[2] : pair \in Linked} : Cardinality({b \in B : f \in b.files}) = 1
  /\ \A b \in B :
       /\ b.files \subseteq Seeds \union {pair[2] : pair \in Linked}
       /\ Cardinality(b.files) <= MaxBatchSize
       /\ \A f, g \in b.files : Joined(f, g)
       /\ \A r \in b.rules : \E f \in ToSet(seeds[r]), g \in b.files : Joined(f, g)
       /\ \A c \in B \ {b} : (\E f \in b.files, g \in c.files : Joined(f, g)) =>
            Sliced(b.files, c.files) \/ Sliced(c.files, b.files)

\* A seed of a rule and all it is linked to are in batches that name the rule.
Named(B, r) == UNION {b.files : b \in {c \in B : r \in c.rules}}

Complete(B) ==
  \A r \in RuleIds : \A f \in ToSet(seeds[r]) :
    f \in Named(B, r) /\ \A g \in Paths : <<f, g>> \in Linked => g \in Named(B, r)

\* The answer, once it is made of all that was looked up.
AnswerInv ==
  /\ phase # "done" => batches = {}
  /\ phase = "done" => Seeds = DOMAIN ancestors /\ Coherent(batches) /\ Complete(batches)

RetrieveInv == RetrieveTypeOK /\ LoadInv /\ SeedsInv /\ MatchInv /\ AncestorsInv

IInv == IndexInv /\ RetrieveInv /\ ImportersInv /\ AnswerInv

\* What a finished run found is in the index: its files, the symbols of those that can
\* be parsed, and an edge for each specifier of a file it parsed that means one of its
\* files, whatever other runs did to the same tables and wherever they failed.
IndexOfFinishedRuns ==
  \A i \in Runs : at[i] = "done" =>
    /\ found[i] \subseteq files /\ found[i] \intersect Parseable \subseteq symbols
    /\ \A f \in parsed[i] : OnDisk(f) =>
         \A spec \in tree[f].imports, g \in Paths : Means(spec, g, found[i]) => <<f, g>> \in imports

\* Retrieve reads the files in any order, while the Indexer goes on. Once they are
\* read, each that a run finished before had found, that was not missed and is on
\* disk, is a seed of exactly the rules that match it.
SeedsAreTheMatches ==
  phase \in {"expand", "done"} =>
    \A i \in before : \A f \in (found[i] \intersect Parseable) \ missed :
      OnDisk(f) => \A r \in RuleIds : f \in ToSet(seeds[r]) <=> tree[f].match[r] > 0

--------------------------------------------------------------------------------
(* Proofs: the index.                                                       *)

\* What a step leaves of the tree is as it was.
Shrinks == \A p \in DOMAIN tree' : OnDisk(p) /\ tree'[p] = tree[p]

\* A step of the Indexer is one of a run; what is not the Indexer's leaves its
\* variables alone, but for the tree, which shrinks.
LEMMA StepCases ==
  ASSUME [Next]_vars
  PROVE  \/ \E i \in Runs : /\ \/ Walk(i) \/ InsertFiles(i) \/ Parse(i)
                               \/ InsertImports(i) \/ InsertSymbols(i) \/ InsertFails(i)
                            /\ UNCHANGED <<tree, phase, before, work, batches>>
         \/ /\ UNCHANGED <<indexVars, tree>>
            /\ \/ LoadFiles \/ MakeBatches \/ QueryFails \/ UNCHANGED vars
               \/ \E f \in Paths : ReadFile(f) \/ Lookup(f)
         \/ LoseFiles
<1>1. CASE Index
  BY <1>1 DEF Index, IndexStep, Walk, InsertFiles, Parse, InsertImports, InsertSymbols, InsertFails
<1>2. CASE Retrieve
  BY <1>2 DEF Retrieve, LoadFiles, ReadFile, Lookup, MakeBatches, QueryFails
<1>3. CASE LoseFiles
  BY <1>3
<1>4. CASE UNCHANGED vars
  BY <1>4 DEF vars
<1> QED
  BY <1>1, <1>2, <1>3, <1>4 DEF Next

\* The tree of any step.
LEMMA TreeStep ==
  ASSUME [Next]_vars, TreeInv
  PROVE  Shrinks /\ TreeInv'
<1>1. Shrinks
  <2>1. CASE LoseFiles
    <3>1. PICK left \in {{}} \union {DOMAIN tree \ {p} : p \in DOMAIN tree} :
            tree' = [p \in left |-> tree[p]]
      BY <2>1 DEF LoseFiles, Lose
    <3>2. left \subseteq DOMAIN tree
      OBVIOUS
    <3> QED
      BY <3>1, <3>2 DEF Shrinks, OnDisk
  <2>2. CASE UNCHANGED tree
    BY <2>2 DEF Shrinks, OnDisk
  <2> QED
    BY <2>1, <2>2, StepCases
<1>2. PICK t \in Trees : DOMAIN tree \subseteq DOMAIN t /\ \A p \in DOMAIN tree : tree[p] = t[p]
  BY DEF TreeInv
<1>3. DOMAIN tree' \subseteq DOMAIN t /\ \A p \in DOMAIN tree' : tree'[p] = t[p]
  BY <1>1, <1>2 DEF Shrinks, OnDisk
<1> QED
  BY <1>1, <1>3 DEF TreeInv

\* An edge goes from the file it was extracted from to a file that is known.
LEMMA EdgeEnds ==
  ASSUME NEW f, NEW known
  PROVE  ExtractEdges(f, known) \subseteq {f} \X known
<1>1. \A spec : Resolve(spec, known) \subseteq known
  BY DEF Resolve
<1> QED
  BY <1>1 DEF ExtractEdges

\* What a step of run i does to its memory and to the rows, and that it does
\* nothing to the memory of the others.
LEMMA RunMoves ==
  ASSUME IndexTypeOK, NEW i \in Runs,
         \/ Walk(i) \/ InsertFiles(i) \/ Parse(i) \/ InsertImports(i) \/ InsertSymbols(i)
         \/ InsertFails(i)
  PROVE  /\ at'[i] \in Labels
         /\ \A j \in Runs \ {i} : /\ at'[j] = at[j] /\ found'[j] = found[j]
                                  /\ parsed'[j] = parsed[j] /\ edges'[j] = edges[j]
         /\ at' \in [Runs -> Labels] /\ found' \in [Runs -> SUBSET Paths]
         /\ parsed' \in [Runs -> SUBSET Paths] /\ edges' \in [Runs -> SUBSET (Paths \X Paths)]
         /\ \/ /\ at[i] = "walk" /\ at'[i] \in {"files", "failed"}
               /\ UNCHANGED <<parsed, edges, rows>>
            \/ /\ at[i] = "files" /\ at'[i] \in {"parse", "failed"}
               /\ found[i] \intersect files = {} /\ files' = files \union found[i]
               /\ UNCHANGED <<memory, imports, symbols>>
            \/ /\ at[i] = "parse" /\ at'[i] = "imports"
               /\ parsed'[i] \subseteq found[i] \intersect Parseable
               /\ edges'[i] = UNION {ExtractEdges(f, found[i]) : f \in parsed'[i]}
               /\ UNCHANGED <<found, rows>>
            \/ /\ at[i] = "imports" /\ at'[i] \in {"symbols", "failed"}
               /\ imports' = imports \union edges[i]
               /\ UNCHANGED <<memory, files, symbols>>
            \/ /\ at[i] = "symbols" /\ at'[i] \in {"done", "failed"}
               /\ symbols' = symbols \union (found[i] \intersect Parseable)
               /\ UNCHANGED <<memory, files, imports>>
            \/ /\ at'[i] = "failed" /\ UNCHANGED <<memory, rows>>
<1> USE DEF IndexTypeOK, Labels, memory, rows
<1>1. CASE Walk(i)
  <2>1. CASE DOMAIN tree = {}
    BY <1>1, <2>1 DEF Walk
  <2>2. CASE DOMAIN tree # {}
    <3>1. PICK bad : /\ found' = [found EXCEPT ![i] = {p \in Paths : Discoverable(p)} \ bad]
                     /\ at' = [at EXCEPT ![i] = "files"] /\ UNCHANGED <<parsed, edges>>
      BY <1>1, <2>2 DEF Walk
    <3>2. {p \in Paths : Discoverable(p)} \ bad \in SUBSET Paths
      OBVIOUS
    <3> QED
      BY <1>1, <3>1, <3>2 DEF Walk
  <2> QED
    BY <2>1, <2>2
<1>2. CASE InsertFiles(i)
  <2>1. CASE found[i] \intersect files = {}
    BY <1>2, <2>1 DEF InsertFiles, Answered
  <2>2. CASE found[i] \intersect files # {}
    BY <1>2, <2>2 DEF InsertFiles
  <2> QED
    BY <2>1, <2>2
<1>3. CASE Parse(i)
  <2> DEFINE sources == found[i] \intersect Parseable
  <2>1. CASE \E f \in sources : ~OnDisk(f)
    BY <1>3, <2>1 DEF Parse
  <2>2. CASE ~ \E f \in sources : ~OnDisk(f)
    <3>1. PICK bad :
            /\ parsed' = [parsed EXCEPT ![i] = sources \ bad]
            /\ edges' = [edges EXCEPT ![i] = UNION {ExtractEdges(f, found[i]) : f \in sources \ bad}]
            /\ at' = [at EXCEPT ![i] = "imports"] /\ UNCHANGED found
      BY <1>3, <2>2 DEF Parse
    <3>2. sources \ bad \in SUBSET Paths /\ found[i] \in SUBSET Paths
      OBVIOUS
    <3>3. UNION {ExtractEdges(f, found[i]) : f \in sources \ bad} \in SUBSET (Paths \X Paths)
      <4>1. \A f \in sources \ bad : ExtractEdges(f, found[i]) \subseteq Paths \X Paths
        BY <3>2, EdgeEnds
      <4> QED
        BY <4>1
    <3>4. at[i] = "parse" /\ UNCHANGED rows
      BY <1>3 DEF Parse
    <3>5. /\ parsed'[i] = sources \ bad
          /\ edges'[i] = UNION {ExtractEdges(f, found[i]) : f \in parsed'[i]}
      BY <3>1
    <3>6. /\ parsed' \in [Runs -> SUBSET Paths] /\ edges' \in [Runs -> SUBSET (Paths \X Paths)]
          /\ at' \in [Runs -> Labels] /\ at'[i] = "imports"
          /\ \A j \in Runs \ {i} : /\ at'[j] = at[j] /\ parsed'[j] = parsed[j]
                                   /\ edges'[j] = edges[j]
      BY <3>1, <3>2, <3>3
    <3> QED
      BY <3>1, <3>4, <3>5, <3>6
  <2> QED
    BY <2>1, <2>2
<1>4. CASE InsertImports(i)
  BY <1>4 DEF InsertImports, Answered
<1>5. CASE InsertSymbols(i)
  BY <1>5 DEF InsertSymbols, Answered
<1>6. CASE InsertFails(i)
  BY <1>6 DEF InsertFails
<1> QED
  BY <1>1, <1>2, <1>3, <1>4, <1>5, <1>6

\* Rows are only added.
LEMMA RowsGrow ==
  ASSUME IndexTypeOK, [Next]_vars
  PROVE  files \subseteq files' /\ imports \subseteq imports' /\ symbols \subseteq symbols'
<1>1. CASE \E i \in Runs : \/ Walk(i) \/ InsertFiles(i) \/ Parse(i)
                           \/ InsertImports(i) \/ InsertSymbols(i) \/ InsertFails(i)
  <2>1. PICK i \in Runs : \/ Walk(i) \/ InsertFiles(i) \/ Parse(i)
                          \/ InsertImports(i) \/ InsertSymbols(i) \/ InsertFails(i)
    BY <1>1
  <2> QED
    BY <2>1, RunMoves DEF rows
<1>2. CASE UNCHANGED indexVars
  BY <1>2 DEF indexVars, rows
<1> QED
  BY <1>1, <1>2, StepCases DEF LoseFiles

LEMMA IndexTypes ==
  ASSUME IndexTypeOK, [Next]_vars
  PROVE  IndexTypeOK'
<1> USE DEF IndexTypeOK
<1>1. TreeInv'
  BY TreeStep
<1>2. ASSUME NEW i \in Runs,
             \/ Walk(i) \/ InsertFiles(i) \/ Parse(i)
             \/ InsertImports(i) \/ InsertSymbols(i) \/ InsertFails(i)
      PROVE  IndexTypeOK'
  <2>1. files' \subseteq Paths /\ imports' \subseteq Paths \X Paths /\ symbols' \subseteq Paths
    BY <1>2, RunMoves DEF rows, memory
  <2> QED
    BY <1>1, <1>2, <2>1, RunMoves
<1>3. CASE UNCHANGED indexVars
  BY <1>1, <1>3 DEF indexVars, memory, rows
<1> QED
  BY <1>2, <1>3, StepCases DEF LoseFiles

\* What holds of a run goes on to hold while it makes no step.
LEMMA RunRests ==
  ASSUME NEW j, RunInv(j), Shrinks,
         at'[j] = at[j], found'[j] = found[j], parsed'[j] = parsed[j], edges'[j] = edges[j],
         files \subseteq files', imports \subseteq imports', symbols \subseteq symbols'
  PROVE  RunInv(j)'
<1>1. EdgesOf(j) => EdgesOf(j)'
  <2>1. ASSUME EdgesOf(j), NEW f \in parsed'[j], OnDisk(f)'
        PROVE  ExtractEdges(f, found[j])' = {e \in edges'[j] : e[1] = f}
    <3>1. OnDisk(f) /\ tree'[f] = tree[f]
      BY <2>1 DEF Shrinks, OnDisk
    <3>2. ExtractEdges(f, found[j])' = ExtractEdges(f, found[j])
      BY <3>1 DEF ExtractEdges, Resolve
    <3> QED
      BY <2>1, <3>1, <3>2 DEF EdgesOf
  <2>2. SUFFICES ASSUME EdgesOf(j) PROVE EdgesOf(j)'
    OBVIOUS
  <2>3. parsed'[j] \subseteq found'[j] \intersect Parseable /\ edges'[j] \subseteq parsed'[j] \X found'[j]
    BY <2>2 DEF EdgesOf
  <2> QED
    BY <2>1, <2>2, <2>3 DEF EdgesOf
<1> QED
  BY <1>1 DEF RunInv, HasFiles, HasParsed, HasImports

\* What a run has written is there after its own step too.
LEMMA RunGoesOn ==
  ASSUME IndexTypeOK, Shrinks, UNCHANGED tree, NEW i \in Runs, RunInv(i),
         \/ Walk(i) \/ InsertFiles(i) \/ Parse(i) \/ InsertImports(i) \/ InsertSymbols(i)
         \/ InsertFails(i),
         files \subseteq files', imports \subseteq imports', symbols \subseteq symbols'
  PROVE  RunInv(i)'
<1> USE DEF HasFiles, HasParsed, HasImports, memory, rows
<1>1. CASE at[i] = "parse" /\ at'[i] = "imports"
  <2>1. /\ parsed'[i] \subseteq found[i] \intersect Parseable
        /\ edges'[i] = UNION {ExtractEdges(f, found[i]) : f \in parsed'[i]}
        /\ UNCHANGED <<found, rows>>
    BY <1>1, RunMoves
  <2>2. edges'[i] \subseteq parsed'[i] \X found'[i]
    BY <2>1, EdgeEnds
  <2>3. \A f \in parsed'[i] : ExtractEdges(f, found[i])' = ExtractEdges(f, found[i])
    BY <2>1 DEF ExtractEdges, Resolve
  <2>4. ASSUME NEW f \in parsed'[i]
        PROVE  ExtractEdges(f, found[i])' = {e \in edges'[i] : e[1] = f}
    <3>1. \A g : \A e \in ExtractEdges(g, found[i]) : e[1] = g
      BY EdgeEnds
    <3>2. ExtractEdges(f, found[i]) = {e \in edges'[i] : e[1] = f}
      BY <2>1, <3>1
    <3> QED
      BY <2>3, <3>2
  <2>5. EdgesOf(i)'
    BY <2>1, <2>2, <2>4 DEF EdgesOf
  <2> QED
    BY <1>1, <2>1, <2>5 DEF RunInv
<1>2. CASE at'[i] # "failed" /\ at[i] # "parse"
  <2>1. /\ HasParsed(i)' => HasParsed(i) /\ parsed'[i] = parsed[i] /\ edges'[i] = edges[i]
                            /\ found'[i] = found[i]
        /\ HasFiles(i)' => found'[i] \subseteq files'
        /\ HasImports(i)' => edges'[i] \subseteq imports'
        /\ at'[i] = "done" => found'[i] \intersect Parseable \subseteq symbols'
    BY <1>2, RunMoves DEF RunInv
  <2>2. HasParsed(i)' => EdgesOf(i)'
    <3>1. SUFFICES ASSUME HasParsed(i)' PROVE EdgesOf(i)'
      OBVIOUS
    <3>2. EdgesOf(i) /\ parsed'[i] = parsed[i] /\ edges'[i] = edges[i] /\ found'[i] = found[i]
      BY <2>1, <3>1 DEF RunInv
    <3>3. \A f : ExtractEdges(f, found[i])' = ExtractEdges(f, found[i])
      BY <3>2 DEF ExtractEdges, Resolve
    <3> QED
      BY <3>2, <3>3 DEF EdgesOf, OnDisk
  <2> QED
    BY <2>1, <2>2 DEF RunInv
<1>3. CASE at'[i] = "failed"
  BY <1>3 DEF RunInv
<1> QED
  BY <1>1, <1>2, <1>3, RunMoves

\* The edges of a run stay its own: no other run writes one to a file of it.
LEMMA OwnImportsStep ==
  ASSUME IndexInv, NEW i \in Runs, NEW j \in Runs,
         \/ Walk(i) \/ InsertFiles(i) \/ Parse(i) \/ InsertImports(i) \/ InsertSymbols(i)
         \/ InsertFails(i)
  PROVE  OwnImports(j)'
<1> SUFFICES ASSUME HasFiles(j)', NEW e \in imports', e[2] \in found'[j]
             PROVE  HasParsed(j)' /\ e \in edges'[j]
  BY DEF OwnImports
<1> USE DEF memory, rows
<1>1. IndexTypeOK /\ OwnImports(j)
  BY DEF IndexInv
<1>2. CASE j # i
  <2>1. /\ at'[j] = at[j] /\ found'[j] = found[j] /\ edges'[j] = edges[j]
        /\ imports' = imports \/ (at[i] = "imports" /\ imports' = imports \union edges[i])
    BY <1>1, <1>2, RunMoves
  <2>2. HasFiles(j)
    BY <2>1 DEF HasFiles
  <2>3. ASSUME at[i] = "imports", e \in edges[i] PROVE FALSE
    <3>1. HasFiles(i) /\ edges[i] \subseteq parsed[i] \X found[i]
      BY <2>3 DEF IndexInv, RunInv, HasParsed, HasFiles, EdgesOf
    <3>2. e[2] \in found[i] /\ e[2] \in found[j]
      BY <2>1, <2>3, <3>1
    <3> QED
      BY <1>2, <2>2, <3>1, <3>2 DEF IndexInv, RunsDoNotMix
  <2>4. e \in imports
    BY <2>1, <2>3
  <2> QED
    BY <1>1, <2>1, <2>2, <2>4 DEF OwnImports, HasParsed
<1>3. CASE j = i
  <2>1. CASE /\ at[i] = "files" /\ found[i] \intersect files = {}
             /\ UNCHANGED <<memory, imports, symbols>>
    <3>1. e[2] \in files /\ e[2] \in found[i]
      BY <1>3, <2>1 DEF IndexInv, EdgesJoinIndexedFiles
    <3> QED
      BY <2>1, <3>1
  <2>2. CASE at[i] = "parse" /\ at'[i] = "imports" /\ UNCHANGED <<found, rows>>
    BY <1>1, <1>3, <2>2 DEF OwnImports, HasFiles, HasParsed
  <2>3. CASE /\ at[i] = "imports" /\ at'[i] \in {"symbols", "failed"}
             /\ imports' = imports \union edges[i] /\ UNCHANGED memory
    BY <1>1, <1>3, <2>3 DEF OwnImports, HasFiles, HasParsed
  <2>4. CASE at[i] = "symbols" /\ at'[i] \in {"done", "failed"} /\ UNCHANGED <<memory, imports>>
    BY <1>1, <1>3, <2>4 DEF OwnImports, HasFiles, HasParsed
  <2>5. CASE at'[i] \in {"files", "failed"}
    BY <1>3, <2>5 DEF HasFiles
  <2> QED
    BY <1>1, <2>1, <2>2, <2>3, <2>4, <2>5, RunMoves
<1> QED
  BY <1>2, <1>3

LEMMA IndexStepInv ==
  ASSUME IndexInv, [Next]_vars
  PROVE  IndexInv'
<1>1. IndexTypeOK'
  BY IndexTypes DEF IndexInv
<1>2. Shrinks
  BY TreeStep DEF IndexInv, IndexTypeOK
<1>3. files \subseteq files' /\ imports \subseteq imports' /\ symbols \subseteq symbols'
  BY RowsGrow DEF IndexInv
<1>4. ASSUME NEW i \in Runs,
             \/ Walk(i) \/ InsertFiles(i) \/ Parse(i)
             \/ InsertImports(i) \/ InsertSymbols(i) \/ InsertFails(i),
             UNCHANGED tree
      PROVE  IndexInv'
  <2>1. ASSUME NEW j \in Runs PROVE RunInv(j)'
    <3>1. CASE j = i
      BY <1>2, <1>3, <1>4, <3>1, RunGoesOn DEF IndexInv
    <3>2. CASE j # i
      BY <1>2, <1>3, <1>4, <3>2, RunMoves, RunRests DEF IndexInv
    <3> QED
      BY <3>1, <3>2
  <2>2. EdgesJoinIndexedFiles'
    <3>1. CASE imports' = imports
      BY <1>3, <3>1 DEF IndexInv, EdgesJoinIndexedFiles
    <3>2. CASE at[i] = "imports" /\ imports' = imports \union edges[i]
      <4>1. EdgesOf(i) /\ found[i] \subseteq files
        BY <3>2 DEF IndexInv, RunInv, HasParsed, HasFiles
      <4>2. \A e \in edges[i] : e[1] \in files \intersect Parseable /\ e[2] \in files
        BY <4>1 DEF EdgesOf
      <4> QED
        BY <1>3, <3>2, <4>2 DEF IndexInv, EdgesJoinIndexedFiles
    <3> QED
      BY <1>4, <3>1, <3>2, RunMoves DEF IndexInv, rows
  <2>3. RunsDoNotMix'
    <3>1. ASSUME NEW j \in Runs, j # i, HasFiles(i)', HasFiles(j)'
          PROVE  found'[i] \intersect found'[j] = {}
      <4>1. found'[j] = found[j] /\ HasFiles(j) /\ found[j] \subseteq files
        BY <1>4, <3>1, RunMoves DEF IndexInv, RunInv, HasFiles
      <4>2. \/ HasFiles(i) /\ found'[i] = found[i]
            \/ found[i] \intersect files = {} /\ found'[i] = found[i]
        BY <1>4, <3>1, RunMoves DEF IndexInv, HasFiles, memory
      <4> QED
        BY <3>1, <4>1, <4>2 DEF IndexInv, RunsDoNotMix
    <3>2. ASSUME NEW j \in Runs, NEW k \in Runs, j # i, k # i, j # k, HasFiles(j)', HasFiles(k)'
          PROVE  found'[j] \intersect found'[k] = {}
      BY <1>4, <3>2, RunMoves DEF IndexInv, RunsDoNotMix, HasFiles
    <3> QED
      BY <3>1, <3>2 DEF RunsDoNotMix
  <2>4. \A j \in Runs : OwnImports(j)'
    BY <1>4, OwnImportsStep
  <2> QED
    BY <1>1, <2>1, <2>2, <2>3, <2>4 DEF IndexInv
<1>5. CASE UNCHANGED indexVars
  <2>1. \A j \in Runs : RunInv(j)'
    BY <1>2, <1>5, RunRests DEF IndexInv, indexVars, memory, rows
  <2> QED
    BY <1>1, <1>5, <2>1 DEF IndexInv, OwnImports, EdgesJoinIndexedFiles, RunsDoNotMix, HasFiles,
                            HasParsed, indexVars, memory, rows
<1> QED
  BY <1>4, <1>5, StepCases DEF LoseFiles

--------------------------------------------------------------------------------
(* Proofs: the call of retrieve.                                            *)

LEMMA Appended ==
  ASSUME NEW S, NEW s \in Seq(S), IsInjective(s), NEW e, e \notin ToSet(s)
  PROVE  /\ Append(s, e) \in Seq(S \union {e})
         /\ ToSet(Append(s, e)) = ToSet(s) \union {e}
         /\ IsInjective(Append(s, e))
<1>1. s \in Seq(S \union {e})
  OBVIOUS
<1>2. Append(s, e) \in Seq(S \union {e})
  BY <1>1
<1>3. /\ DOMAIN Append(s, e) = DOMAIN s \union {Len(s) + 1}
      /\ \A n \in DOMAIN s : Append(s, e)[n] = s[n]
      /\ Append(s, e)[Len(s) + 1] = e
  OBVIOUS
<1>4. ToSet(Append(s, e)) = ToSet(s) \union {e}
  BY <1>3 DEF ToSet
<1>5. IsInjective(Append(s, e))
  BY <1>3 DEF IsInjective, ToSet
<1> QED
  BY <1>2, <1>4, <1>5

\* A step of others leaves the call as it was; the index it looks at grows.
LEMMA CallRests ==
  ASSUME IndexTypeOK, RetrieveInv, Shrinks, UNCHANGED <<phase, before, work>>,
         files \subseteq files',
         \A i \in Runs : at[i] = "done" => at'[i] = "done" /\ found'[i] = found[i]
  PROVE  RetrieveInv'
<1> USE DEF RetrieveInv, work
<1>1. Read' = Read
  BY DEF Read
<1>2. RetrieveTypeOK'
  BY <1>1 DEF RetrieveTypeOK
<1>3. LoadInv'
  BY DEF LoadInv
<1>4. SeedsInv'
  BY DEF SeedsInv
<1>5. MatchInv'
  <2>1. ASSUME NEW f \in Read', NEW r \in RuleIds, OnDisk(f)'
        PROVE  r \in ruleIdsByFile'[f] <=> tree'[f].match[r] > 0
    <3>1. OnDisk(f) /\ tree'[f] = tree[f]
      BY <2>1 DEF Shrinks, OnDisk
    <3> QED
      BY <1>1, <2>1, <3>1 DEF MatchInv
  <2> QED
    BY <2>1 DEF MatchInv
<1>6. AncestorsInv'
  BY DEF AncestorsInv
<1> QED
  BY <1>2, <1>3, <1>4, <1>5, <1>6

\* A file is read: it is matched, or missed.
LEMMA ReadStep ==
  ASSUME IndexTypeOK, RetrieveInv, NEW f \in Paths, ReadFile(f), UNCHANGED <<indexVars, tree>>
  PROVE  RetrieveInv'
<1> USE DEF RetrieveInv, indexVars, memory, rows
<1>1. /\ phase = "read" /\ f \in unread /\ unread' = unread \ {f}
      /\ phase' = IF unread' = {} THEN "expand" ELSE "read"
      /\ UNCHANGED <<before, candidates, ancestors, batches>>
  BY DEF ReadFile
<1>2. LoadInv' /\ AncestorsInv'
  BY <1>1 DEF LoadInv, AncestorsInv
<1>3. f \in candidates /\ f \notin Read
  BY <1>1 DEF Read, RetrieveTypeOK
<1>4. CASE Miss(f)
  <2>1. missed' = missed \union {f} /\ UNCHANGED <<lastIndex, seeds, ruleIdsByFile>>
    BY <1>4 DEF Miss
  <2>2. Read' = Read
    BY <1>1, <1>3, <2>1 DEF Read
  <2>3. RetrieveTypeOK'
    BY <1>1, <1>3, <2>1, <2>2 DEF RetrieveTypeOK
  <2>4. SeedsInv'
    BY <2>1 DEF SeedsInv
  <2>5. MatchInv'
    BY <2>1, <2>2 DEF MatchInv, OnDisk
  <2> QED
    BY <1>2, <2>3, <2>4, <2>5
<1>5. CASE OnDisk(f) /\ Detect(f)
  <2>1. /\ seeds' = [r \in RuleIds |-> IF Matches(r, f) THEN Append(seeds[r], f) ELSE seeds[r]]
        /\ ruleIdsByFile' = [ruleIdsByFile EXCEPT ![f] = {r \in RuleIds : Matches(r, f)}]
        /\ missed' = missed
    BY <1>5 DEF Detect
  <2>2. Read' = Read \union {f}
    BY <1>1, <1>3, <2>1 DEF Read, RetrieveTypeOK
  <2>3. ASSUME NEW r \in RuleIds
        PROVE  /\ seeds'[r] \in Seq(Read')
               /\ IsInjective(seeds'[r])
               /\ ToSet(seeds'[r]) = IF Matches(r, f) THEN ToSet(seeds[r]) \union {f} ELSE ToSet(seeds[r])
               /\ f \notin ToSet(seeds[r])
    <3>1. seeds[r] \in Seq(Read) /\ IsInjective(seeds[r])
      BY DEF RetrieveTypeOK, SeedsInv
    <3>2. f \notin ToSet(seeds[r])
      BY <1>3, <3>1 DEF ToSet
    <3>3. seeds[r] \in Seq(Read \union {f})
      BY <3>1
    <3> QED
      BY <2>1, <2>2, <3>1, <3>2, <3>3, Appended
  <2>4. RetrieveTypeOK'
    <3>1. seeds' \in [RuleIds -> Seq(Read')]
      BY <2>1, <2>3
    <3>2. ruleIdsByFile' \in [Paths -> SUBSET RuleIds]
      BY <2>1 DEF RetrieveTypeOK
    <3> QED
      BY <1>1, <2>1, <3>1, <3>2 DEF RetrieveTypeOK
  <2>5. SeedsInv'
    <3>1. ASSUME NEW r \in RuleIds, NEW g \in Paths
          PROVE  g \in ToSet(seeds'[r]) <=> r \in ruleIdsByFile'[g]
      <4>1. CASE g = f
        BY <2>1, <2>3, <4>1 DEF RetrieveTypeOK
      <4>2. CASE g # f
        BY <2>1, <2>3, <4>2 DEF RetrieveTypeOK, SeedsInv
      <4> QED
        BY <4>1, <4>2
    <3> QED
      BY <2>3, <3>1 DEF SeedsInv
  <2>6. MatchInv'
    <3>1. ASSUME NEW g \in Read', NEW r \in RuleIds, OnDisk(g)
          PROVE  r \in ruleIdsByFile'[g] <=> tree[g].match[r] > 0
      <4>1. CASE g = f
        BY <2>1, <4>1 DEF RetrieveTypeOK, Matches, From
      <4>2. CASE g # f
        BY <2>1, <2>2, <3>1, <4>2 DEF RetrieveTypeOK, MatchInv, Read, IndexTypeOK
      <4> QED
        BY <4>1, <4>2
    <3> QED
      BY <3>1 DEF MatchInv, OnDisk
  <2> QED
    BY <1>2, <2>4, <2>5, <2>6
<1> QED
  BY <1>4, <1>5 DEF ReadFile

LEMMA PathsAreFinite == IsFiniteSet(Paths)
<1>1. PathOrder \in Seq(Paths) /\ Paths = {PathOrder[n] : n \in 1..Len(PathOrder)}
  BY RetrievalAssumption DEF ToSet
<1>2. PathOrder \in Surjection(1..Len(PathOrder), Paths)
  BY <1>1 DEF Surjection
<1>3. IsFiniteSet(1..Len(PathOrder))
  <2>1. Len(PathOrder) \in Int /\ 1 \in Int
    BY <1>1
  <2> QED
    BY ONLY <2>1, FS_Interval
<1> QED
  BY <1>2, <1>3, FS_Surjection

LEMMA ImportersArePaths ==
  ASSUME NEW f, NEW graph
  PROVE  Importers(f, graph) \subseteq Paths
BY Zenon DEF Importers

\* The importers of a file are looked up.
LEMMA LookupStep ==
  ASSUME IndexTypeOK, RetrieveInv, NEW f \in Paths, Lookup(f), UNCHANGED indexVars
  PROVE  RetrieveInv'
<1> USE DEF RetrieveInv
<1> DEFINE importers == Importers(f, imports)
<1>1. /\ UNCHANGED <<tree, phase, before, candidates, unread, missed, lastIndex, seeds, ruleIdsByFile>>
      /\ UNCHANGED indexVars
  BY DEF Lookup
<1>0. PICK kept \in SUBSET importers :
        /\ Cardinality(kept) = AtMost(Cardinality(importers), MaxAncestors)
        /\ \E list \in SetToSeqs(kept) :
             ancestors' = [g \in DOMAIN ancestors \union {f} |-> IF g = f THEN list ELSE ancestors[g]]
  BY DEF Lookup
<1>2. PICK list \in SetToSeqs(kept) :
        ancestors' = [g \in DOMAIN ancestors \union {f} |-> IF g = f THEN list ELSE ancestors[g]]
  BY <1>0
<1>3. kept \subseteq Paths
  BY <1>0, ImportersArePaths
<1>4. Cardinality(kept) \in Nat
  BY <1>3, PathsAreFinite, FS_Subset, FS_CardinalityType
<1>5. Cardinality(importers) \in Nat
  BY ImportersArePaths, PathsAreFinite, FS_Subset, FS_CardinalityType
<1>6. Cardinality(kept) <= MaxAncestors
  BY <1>0, <1>5, RetrievalAssumption DEF AtMost
<1>7. /\ list \in [1..Cardinality(kept) -> kept]
      /\ \A m, n \in 1..Cardinality(kept) : m # n => list[m] # list[n]
  BY <1>2 DEF SetToSeqs
<1>8. list \in Seq(Paths) /\ IsInjective(list) /\ Len(list) <= MaxAncestors
  <2>1. list \in [1..Cardinality(kept) -> Paths]
    BY <1>3, <1>7
  <2> QED
    BY <1>4, <1>6, <1>7, <2>1 DEF IsInjective
<1>9. AncestorsInv'
  <2>1. /\ DOMAIN ancestors' = DOMAIN ancestors \union {f}
        /\ \A g \in DOMAIN ancestors \ {f} : ancestors'[g] = ancestors[g]
        /\ ancestors'[f] = list
    BY <1>2
  <2>2. phase' # "load"
    BY DEF Lookup
  <2> QED
    BY <1>8, <2>1, <2>2 DEF AncestorsInv
<1>10. Read' = Read
  BY <1>1 DEF Read
<1> QED
  BY <1>1, <1>9, <1>10 DEF RetrieveTypeOK, LoadInv, SeedsInv, MatchInv, OnDisk, indexVars,
                           memory, rows

LEMMA RetrieveStep ==
  ASSUME IndexInv, RetrieveInv, [Next]_vars
  PROVE  RetrieveInv'
<1> USE DEF IndexInv
<1>1. Shrinks
  BY TreeStep DEF IndexTypeOK
<1>2. files \subseteq files'
  BY RowsGrow
<1>3. ASSUME NEW i \in Runs,
             \/ Walk(i) \/ InsertFiles(i) \/ Parse(i)
             \/ InsertImports(i) \/ InsertSymbols(i) \/ InsertFails(i),
             UNCHANGED <<tree, phase, before, work, batches>>
      PROVE  RetrieveInv'
  <2>1. at[i] # "done"
    BY <1>3 DEF Walk, InsertFiles, Parse, InsertImports, InsertSymbols, InsertFails
  <2>2. \A j \in Runs : at[j] = "done" => at'[j] = "done" /\ found'[j] = found[j]
    BY <1>3, <2>1, RunMoves
  <2> QED
    BY <1>1, <1>2, <1>3, <2>2, CallRests
<1>4. CASE LoadFiles /\ UNCHANGED <<indexVars, tree>>
  <2>1. /\ phase = "load" /\ before' = {i \in Runs : at[i] = "done"}
        /\ candidates' = files \intersect Parseable /\ unread' = candidates'
        /\ phase' = IF candidates' = {} THEN "done" ELSE "read"
        /\ UNCHANGED <<tree, at, found, files, missed, lastIndex, seeds, ruleIdsByFile, ancestors>>
    BY <1>4 DEF LoadFiles, indexVars, memory, rows
  <2>2. candidates = {} /\ missed = {} /\ Read = {} /\ Read' = {}
    BY <2>1 DEF RetrieveInv, LoadInv, RetrieveTypeOK, Read
  <2>3. RetrieveTypeOK'
    BY <2>1, <2>2 DEF RetrieveInv, RetrieveTypeOK
  <2>4. LoadInv'
    <3>1. ASSUME NEW i \in before'
          PROVE  /\ i \in Runs /\ at'[i] = "done" /\ phase' # "load"
                 /\ found'[i] \intersect Parseable \subseteq candidates'
      BY <2>1, <3>1 DEF RunInv, HasFiles
    <3> QED
      BY <2>1, <3>1 DEF LoadInv
  <2>5. SeedsInv' /\ MatchInv' /\ AncestorsInv'
    BY <2>1, <2>2 DEF RetrieveInv, SeedsInv, MatchInv, AncestorsInv
  <2> QED
    BY <2>3, <2>4, <2>5 DEF RetrieveInv
<1>5. ASSUME NEW f \in Paths, ReadFile(f) \/ Lookup(f), UNCHANGED <<indexVars, tree>>
      PROVE  RetrieveInv'
  BY <1>5, ReadStep, LookupStep
<1>6. CASE (MakeBatches \/ QueryFails) /\ UNCHANGED <<indexVars, tree>>
  <2>1. /\ UNCHANGED <<before, work, at, found, files, tree>>
        /\ phase \in {"load", "expand"} /\ phase' \in {"done", "failed"}
        /\ phase = "load" => phase' = "failed"
    BY <1>6 DEF MakeBatches, QueryFails, indexVars, memory, rows
  <2>2. Read' = Read
    BY <2>1 DEF Read, work
  <2> QED
    BY <2>1, <2>2 DEF RetrieveInv, RetrieveTypeOK, LoadInv, SeedsInv, MatchInv, AncestorsInv,
                      OnDisk, work
<1>7. CASE LoseFiles \/ UNCHANGED vars
  BY <1>1, <1>2, <1>7, CallRests DEF LoseFiles, vars, indexVars, memory
<1> QED
  BY <1>3, <1>4, <1>5, <1>6, <1>7, StepCases

--------------------------------------------------------------------------------
(* Lemmas: recursion over numbers, and sequences.                           *)

\* Induction up to a bound, over the set of the numbers for which something holds.
LEMMA Induction ==
  ASSUME NEW N \in Nat, NEW S, 0 \in S, \A n \in 0..(N - 1) : n \in S => n + 1 \in S
  PROVE  0..N \subseteq S
<1> DEFINE T == (0..N) \ S
<1>1. SUFFICES ASSUME T # {} PROVE FALSE
  OBVIOUS
<1>2. T \subseteq Nat
  OBVIOUS
<1>3. PICK n \in T : \A m \in T : <<m, n>> \notin OpToRel(<, Nat)
  BY <1>1, <1>2, WFMin, NatLessThanWellFounded
<1>4. \A m \in T : ~(m < n)
  BY <1>2, <1>3 DEF OpToRel
<1>5. n \in 1..N /\ n - 1 \notin T
  BY <1>4
<1>6. n - 1 \in S /\ n - 1 \in 0..(N - 1) /\ (n - 1) + 1 = n
  BY <1>5
<1> QED
  BY <1>5, <1>6

\* A function defined by recursion over a finite interval of numbers is there: from
\* base in V, by steps that lead from V into V.
LEMMA Recursion ==
  ASSUME NEW V, NEW base \in V, NEW N \in Nat, NEW Step \in [1..N -> [V -> V]]
  PROVE  \E f \in [0..N -> V] :
           f[0] = base /\ \A n \in 1..N : f[n] = Step[n][f[n - 1]]
<1> DEFINE Upto(f, m) == f[0] = base /\ \A n \in 1..m : f[n] = Step[n][f[n - 1]]
           S == {m \in 0..N : \E f \in [0..m -> V] : Upto(f, m)}
<1>1. 0 \in S
  <2> DEFINE f == [n \in 0..0 |-> base]
  <2>1. f \in [0..0 -> V] /\ f[0] = base
    OBVIOUS
  <2>2. Upto(f, 0)
    BY <2>1
  <2> HIDE DEF f
  <2>3. \E x \in [0..0 -> V] : Upto(x, 0)
    BY <2>1, <2>2
  <2>4. 0 \in 0..N
    OBVIOUS
  <2> HIDE DEF Upto
  <2> QED
    BY <2>3, <2>4
<1>2. ASSUME NEW m \in 0..(N - 1), m \in S
      PROVE  m + 1 \in S
  <2>1. PICK f \in [0..m -> V] : Upto(f, m)
    BY <1>2
  <2> DEFINE g == [n \in 0..(m + 1) |-> IF n = m + 1 THEN Step[m + 1][f[m]] ELSE f[n]]
  <2>2. Step[m + 1][f[m]] \in V
    OBVIOUS
  <2>3. g \in [0..(m + 1) -> V]
    BY <2>2
  <2>4. g[0] = base
    BY <2>1
  <2>5. ASSUME NEW n \in 1..(m + 1) PROVE g[n] = Step[n][g[n - 1]]
    <3>1. CASE n = m + 1
      BY <3>1
    <3>2. CASE n # m + 1
      BY <2>1, <3>2
    <3> QED
      BY <3>1, <3>2
  <2> HIDE DEF g
  <2>6. Upto(g, m + 1)
    BY <2>4, <2>5
  <2>7. m + 1 \in 0..N
    OBVIOUS
  <2> HIDE DEF Upto
  <2> QED
    BY <2>3, <2>6, <2>7
<1> HIDE DEF S, Upto
<1>3. N \in S
  <2>1. \A m \in 0..(N - 1) : m \in S => m + 1 \in S
    BY <1>2
  <2>2. 0..N \subseteq S
    BY <1>1, <2>1, Induction
  <2> QED
    BY <2>2
<1>4. PICK f \in [0..N -> V] : Upto(f, N)
  BY <1>3 DEF S
<1>5. \A n \in 0..N : f[n] = IF n = 0 THEN base ELSE Step[n][f[n - 1]]
  BY <1>4 DEF Upto
<1> QED
  BY <1>5

\* What is in two sequences one after the other.
LEMMA Concatenated ==
  ASSUME NEW T, NEW s \in Seq(T), NEW t \in Seq(T)
  PROVE  s \o t \in Seq(T) /\ ToSet(s \o t) = ToSet(s) \union ToSet(t)
<1>1. s \o t \in Seq(T) /\ Len(s \o t) = Len(s) + Len(t)
  OBVIOUS
<1>2. \A n \in 1..(Len(s) + Len(t)) : (s \o t)[n] = IF n <= Len(s) THEN s[n] ELSE t[n - Len(s)]
  OBVIOUS
<1>3. \A n \in DOMAIN t : n + Len(s) \in DOMAIN (s \o t) /\ (s \o t)[n + Len(s)] = t[n]
  BY <1>1, <1>2
<1>4. \A n \in DOMAIN s : n \in DOMAIN (s \o t) /\ (s \o t)[n] = s[n]
  BY <1>1, <1>2
<1>5. ToSet(s \o t) \subseteq ToSet(s) \union ToSet(t)
  BY <1>1, <1>2 DEF ToSet
<1>6. ToSet(s) \subseteq ToSet(s \o t)
  BY <1>4 DEF ToSet
<1>7. ToSet(t) \subseteq ToSet(s \o t)
  BY <1>3 DEF ToSet
<1> QED
  BY <1>1, <1>5, <1>6, <1>7

\* What is in a sequence of sequences, flattened.
LEMMA Flattened ==
  ASSUME NEW T, NEW ss, ss \in Seq(Seq(T))
  PROVE  /\ FlattenSeq(ss) \in Seq(T)
         /\ ToSet(FlattenSeq(ss)) = UNION {ToSet(ss[n]) : n \in DOMAIN ss}
<1> DEFINE N == Len(ss)
<1>0. N \in Nat /\ ss \in [1..N -> Seq(T)]
  OBVIOUS
<1>1. CASE N = 0
  BY <1>1 DEF FlattenSeq, ToSet
<1>2. CASE N # 0
  <2> DEFINE F == CHOOSE f : f = [n \in 1..N |-> IF n = 1 THEN ss[n] ELSE f[n - 1] \o ss[n]]
  <2>1. FlattenSeq(ss) = F[N]
    BY <1>2 DEF FlattenSeq
  <2>2. F = [n \in 1..N |-> IF n = 1 THEN ss[n] ELSE F[n - 1] \o ss[n]]
    <3> HIDE DEF N, F
    <3>10. N \in Nat
      BY <1>0
    <3>0. N \in Nat \ {0} /\ N \in Nat /\ ss \in [1..N -> Seq(T)]
      BY <1>0, <1>2
    <3>1. PICK V, empty : V = Seq(T) /\ empty = <<>>
      OBVIOUS
    <3>2. PICK Step : Step = [n \in 1..N |-> [s \in V |-> s \o ss[n]]]
      OBVIOUS
    <3>11. \A n \in 1..N, s \in V : Step[n][s] = s \o ss[n]
      BY <3>0, <3>1, <3>2
    <3>3. Step \in [1..N -> [V -> V]] /\ empty \in V
      BY <3>0, <3>1, <3>2
    <3>4. empty \o ss[1] = ss[1]
      BY <3>0, <3>1
    <3>5. PICK g \in [0..N -> V] : g[0] = empty /\ \A n \in 1..N : g[n] = Step[n][g[n - 1]]
      BY ONLY <3>10, <3>3, Recursion
    <3>6. g[0] = empty
      BY <3>5
    <3>7. ASSUME NEW n \in 1..N PROVE g[n] = g[n - 1] \o ss[n]
      <4>1. g[n] = Step[n][g[n - 1]]
        BY <3>5
      <4>2. g[n - 1] \in V
        BY <3>0, <3>5
      <4> QED
        BY <3>11, <4>1, <4>2
    <3> DEFINE f == [n \in 1..N |-> g[n]]
    <3>8. ASSUME NEW n \in 1..N PROVE f[n] = IF n = 1 THEN ss[n] ELSE f[n - 1] \o ss[n]
      <4>0. g[n] = g[n - 1] \o ss[n] /\ f[n] = g[n]
        BY <3>7
      <4>1. CASE n = 1
        <5>1. g[n - 1] = empty
          BY <3>6, <4>1
        <5> QED
          BY <3>4, <4>0, <4>1, <5>1
      <4>2. CASE n # 1
        <5>1. f[n - 1] = g[n - 1]
          BY <3>0, <4>2
        <5> QED
          BY <4>0, <4>2, <5>1
      <4> QED
        BY <4>1, <4>2
    <3>9. f = [n \in 1..N |-> IF n = 1 THEN ss[n] ELSE f[n - 1] \o ss[n]]
      BY <3>8
    <3> QED
      BY <3>9, Zenon DEF F
  <2> HIDE DEF F, N
  <2>3. \A n \in 1..N : F[n] = IF n = 1 THEN ss[n] ELSE F[n - 1] \o ss[n]
    BY <2>2, Zenon
  <2> DEFINE In(n) == F[n] \in Seq(T) /\ ToSet(F[n]) = UNION {ToSet(ss[m]) : m \in 1..n}
             S == {n \in 0..N : n > 0 => In(n)}
  <2>4. 0 \in S
    BY <1>0
  <2>5. ASSUME NEW n \in 0..(N - 1), n \in S PROVE n + 1 \in S
    <3>0. n \in Int /\ n + 1 \in 1..N /\ ss[n + 1] \in Seq(T)
      BY <1>0
    <3>1. CASE n = 0
      <4>1. F[1] = ss[1] /\ ss[1] \in Seq(T)
        BY <2>3, <3>0, <3>1
      <4>2. UNION {ToSet(ss[m]) : m \in 1..1} = ToSet(ss[1])
        OBVIOUS
      <4>3. In(1)
        BY <4>1, <4>2
      <4> HIDE DEF In
      <4> QED
        BY <3>0, <3>1, <4>3
    <3>2. CASE n # 0
      <4>1. n + 1 # 1 /\ (n + 1) - 1 = n
        BY <3>0, <3>2
      <4>2. F[n + 1] = F[n] \o ss[n + 1]
        BY <2>3, <3>0, <4>1
      <4>3. In(n)
        <5> HIDE DEF In
        <5> QED
          BY <1>0, <2>5, <3>2
      <4>4. F[n + 1] \in Seq(T) /\ ToSet(F[n + 1]) = ToSet(F[n]) \union ToSet(ss[n + 1])
        BY <3>0, <4>2, <4>3, Concatenated
      <4>5. 1..(n + 1) = (1..n) \union {n + 1}
        BY <3>0
      <4>6. UNION {ToSet(ss[m]) : m \in 1..(n + 1)}
              = (UNION {ToSet(ss[m]) : m \in 1..n}) \union ToSet(ss[n + 1])
        <5> HIDE DEF In
        <5> QED
          BY <4>5
      <4>7. In(n + 1)
        BY <4>3, <4>4, <4>6
      <4> HIDE DEF In
      <4> QED
        BY <3>0, <4>7
    <3> QED
      BY <3>1, <3>2
  <2> HIDE DEF S
  <2>6. N \in S
    <3>1. \A n \in 0..(N - 1) : n \in S => n + 1 \in S
      BY <2>5
    <3>2. 0..N \subseteq S
      BY <1>0, <2>4, <3>1, Induction
    <3> QED
      BY <1>0, <3>2
  <2>7. In(N)
    <3> HIDE DEF In
    <3> QED
      BY <1>0, <1>2, <2>6 DEF S
  <2>8. DOMAIN ss = 1..N
    BY <1>0
  <2> QED
    BY <2>1, <2>7, <2>8
<1> QED
  BY <1>1, <1>2

--------------------------------------------------------------------------------
(* Proofs: union-find.                                                      *)

\* What is above a file is the file, what is above its parent, and nothing else.
LEMMA AboveIsLeast ==
  ASSUME NEW parent \in [Paths -> Paths], NEW f \in Paths
  PROVE  /\ Above(parent, f) \subseteq Paths
         /\ f \in Above(parent, f)
         /\ \A S \in SUBSET Paths : f \in S /\ (\A g \in S : parent[g] \in S) => Above(parent, f) \subseteq S
         /\ \A g \in Paths :
              (\A S \in SUBSET Paths : f \in S /\ (\A h \in S : parent[h] \in S) => g \in S)
                => g \in Above(parent, f)
BY DEF Above

\* A forest, and the root of each of its files.
Rooted(parent, root) ==
  /\ parent \in [Paths -> Paths] /\ root \in [Paths -> Paths]
  /\ \A f \in Paths :
       /\ root[parent[f]] = root[f] /\ parent[root[f]] = root[f]
       /\ parent[f] = f => root[f] = f
       /\ root[f] \in Above(parent, f)

\* What is above a file has its root.
LEMMA SameRootAbove ==
  ASSUME NEW parent, NEW root, Rooted(parent, root), NEW f \in Paths, NEW g \in Above(parent, f)
  PROVE  g \in Paths /\ root[g] = root[f]
<1> DEFINE S == {h \in Paths : root[h] = root[f]}
<1>1. S \in SUBSET Paths /\ f \in S
  OBVIOUS
<1>2. \A h \in S : parent[h] \in S
  BY DEF Rooted
<1>3. parent \in [Paths -> Paths]
  BY DEF Rooted
<1> HIDE DEF S
<1>4. Above(parent, f) \subseteq S
  BY <1>1, <1>2, <1>3, AboveIsLeast
<1> QED
  BY <1>4 DEF S

\* The climb ends at the root, and nowhere else.
LEMMA RootIsFound ==
  ASSUME NEW parent, NEW root, Rooted(parent, root), NEW f \in Paths
  PROVE  Root(parent, f) = root[f]
<1>1. root[f] \in Above(parent, f) /\ parent[root[f]] = root[f]
  BY DEF Rooted
<1>2. \A g \in Above(parent, f) : parent[g] = g => g = root[f]
  BY SameRootAbove DEF Rooted
<1> HIDE DEF Rooted
<1> QED
  BY <1>1, <1>2 DEF Root

\* Files may be hung from their root instead of their parent.
LEMMA Shortened ==
  ASSUME NEW parent, NEW root, Rooted(parent, root), NEW p \in [Paths -> Paths],
         \A f \in Paths : p[f] = parent[f] \/ p[f] = root[f]
  PROVE  Rooted(p, root)
<1>1. /\ parent \in [Paths -> Paths] /\ root \in [Paths -> Paths]
      /\ \A f \in Paths : /\ root[parent[f]] = root[f] /\ parent[root[f]] = root[f]
                          /\ parent[f] = f => root[f] = f
                          /\ root[f] \in Above(parent, f)
  BY DEF Rooted
<1>2. \A f \in Paths : root[root[f]] = root[f]
  BY <1>1
<1>3. \A f \in Paths : root[p[f]] = root[f] /\ p[root[f]] = root[f] /\ (p[f] = f => root[f] = f)
  BY <1>1, <1>2
<1>4. ASSUME NEW f \in Paths PROVE root[f] \in Above(p, f)
  <2>1. SUFFICES ASSUME NEW S \in SUBSET Paths, f \in S, \A g \in S : p[g] \in S
                 PROVE  root[f] \in S
    BY <1>1, AboveIsLeast
  <2> DEFINE T == S \union {g \in Paths : root[g] \in S}
  <2>2. ASSUME NEW g \in T PROVE parent[g] \in T
    <3>1. g \in Paths
      OBVIOUS
    <3>2. CASE root[g] \in S
      BY <1>1, <3>1, <3>2
    <3>3. CASE g \in S
      BY <1>1, <2>1, <3>1, <3>3
    <3> QED
      BY <3>2, <3>3
  <2>3. T \in SUBSET Paths /\ f \in T
    BY <2>1
  <2> HIDE DEF T
  <2>4. root[f] \in T
    BY <1>1, <2>2, <2>3, AboveIsLeast
  <2> QED
    BY <1>1, <1>2, <2>4 DEF T
<1> QED
  BY <1>1, <1>3, <1>4 DEF Rooted

LEMMA Compressed ==
  ASSUME NEW parent, NEW root, Rooted(parent, root), NEW f \in Paths
  PROVE  Rooted(Compress(parent, f), root)
<1> DEFINE p == Compress(parent, f)
<1>1. p = [g \in Paths |-> IF g \in Above(parent, f) THEN root[f] ELSE parent[g]]
  BY RootIsFound DEF Compress
<1>2. \A g \in Above(parent, f) : root[g] = root[f]
  BY SameRootAbove
<1>3. \A g \in Paths : p[g] = parent[g] \/ p[g] = root[g]
  BY <1>1, <1>2
<1>4. p \in [Paths -> Paths]
  BY <1>1 DEF Rooted
<1> HIDE DEF p
<1>5. Rooted(p, root)
  BY <1>3, <1>4, Shortened
<1> QED
  BY <1>5 DEF p

\* The roots once the root of a hangs from that of b.
Over(root, a, b) == [f \in Paths |-> IF root[f] = root[a] THEN root[b] ELSE root[f]]

LEMMA Hung ==
  ASSUME NEW parent, NEW root, Rooted(parent, root), NEW a \in Paths, NEW b \in Paths
  PROVE  Rooted([parent EXCEPT ![root[a]] = root[b]], Over(root, a, b))
<1>1. PICK p : p = [parent EXCEPT ![root[a]] = root[b]]
  OBVIOUS
<1>2. PICK over : over = Over(root, a, b)
  OBVIOUS
<1>3. /\ parent \in [Paths -> Paths] /\ root \in [Paths -> Paths]
      /\ \A f \in Paths : /\ root[parent[f]] = root[f] /\ parent[root[f]] = root[f]
                          /\ parent[f] = f => root[f] = f
                          /\ root[f] \in Above(parent, f)
  BY DEF Rooted
<1>4. \A f \in Paths : root[root[f]] = root[f]
  BY <1>3
<1>5. p \in [Paths -> Paths] /\ \A f \in Paths : p[f] = IF f = root[a] THEN root[b] ELSE parent[f]
  BY <1>1, <1>3
<1>6. over \in [Paths -> Paths]
      /\ \A f \in Paths : over[f] = IF root[f] = root[a] THEN root[b] ELSE root[f]
  BY <1>2, <1>3 DEF Over
<1>7. ASSUME NEW f \in Paths
      PROVE  over[p[f]] = over[f] /\ p[over[f]] = over[f] /\ (p[f] = f => over[f] = f)
  <2>1. over[p[f]] = over[f]
    <3>1. CASE f = root[a]
      BY <1>3, <1>4, <1>5, <1>6, <3>1
    <3>2. CASE f # root[a]
      BY <1>3, <1>5, <1>6, <3>2
    <3> QED
      BY <3>1, <3>2
  <2>2. p[over[f]] = over[f]
    BY <1>3, <1>4, <1>5, <1>6
  <2>3. p[f] = f => over[f] = f
    BY <1>3, <1>4, <1>5, <1>6
  <2> QED
    BY <2>1, <2>2, <2>3
<1>8. ASSUME NEW f \in Paths PROVE over[f] \in Above(p, f)
  <2>1. SUFFICES ASSUME NEW S \in SUBSET Paths, f \in S, \A g \in S : p[g] \in S
                 PROVE  over[f] \in S
    BY <1>5, <1>6, AboveIsLeast
  <2> DEFINE T == S \union {g \in Paths : root[g] \in S}
  <2>2. ASSUME NEW g \in T PROVE parent[g] \in T
    <3>1. CASE root[g] \in S
      BY <1>3, <3>1
    <3>2. CASE g \in S /\ g # root[a]
      BY <1>3, <1>5, <2>1, <3>2
    <3>3. CASE g = root[a]
      BY <1>3, <3>3
    <3> QED
      BY <3>1, <3>2, <3>3
  <2>3. T \in SUBSET Paths /\ f \in T
    BY <2>1
  <2> HIDE DEF T
  <2>4. root[f] \in T
    BY <1>3, <2>2, <2>3, AboveIsLeast
  <2>5. root[f] \in S
    BY <1>3, <1>4, <2>4 DEF T
  <2> QED
    BY <1>3, <1>5, <1>6, <2>1, <2>5
<1>9. Rooted(p, over)
  BY <1>5, <1>6, <1>7, <1>8 DEF Rooted
<1> QED
  BY <1>1, <1>2, <1>9

\* What Unite makes of a forest is one, and its files have the roots they should.
LEMMA United ==
  ASSUME NEW parent, NEW root, Rooted(parent, root), NEW pair \in Paths \X Paths
  PROVE  Rooted(Unite(parent, pair), Over(root, pair[1], pair[2]))
<1> DEFINE one == Compress(parent, pair[1])
           both == Compress(one, pair[2])
<1>0. pair[1] \in Paths /\ pair[2] \in Paths
  OBVIOUS
<1>1. Rooted(one, root)
  BY <1>0, Compressed
<1> HIDE DEF one
<1>2. Rooted(both, root)
  BY <1>0, <1>1, Compressed
<1> HIDE DEF both
<1>3. Root(parent, pair[1]) = root[pair[1]] /\ Root(parent, pair[2]) = root[pair[2]]
  BY <1>0, RootIsFound
<1>4. Rooted([both EXCEPT ![root[pair[1]]] = root[pair[2]]], Over(root, pair[1], pair[2]))
  BY <1>0, <1>2, Hung
<1> QED
  BY <1>3, <1>4 DEF Unite, one, both

\* At first each file is a root.
LEMMA Singles == Rooted([f \in Paths |-> f], [f \in Paths |-> f])
<1> DEFINE p == [f \in Paths |-> f]
<1>1. p \in [Paths -> Paths] /\ \A f \in Paths : p[f] = f
  OBVIOUS
<1> HIDE DEF p
<1>2. \A f \in Paths : p[f] \in Above(p, f)
  BY <1>1, AboveIsLeast
<1>3. Rooted(p, p)
  BY <1>1, <1>2 DEF Rooted
<1> QED
  BY <1>3 DEF p

\* The forest after each pair of a list.
LEMMA Forests ==
  ASSUME NEW list, NEW N \in Nat, N = Len(list), \A n \in 1..N : list[n] \in Paths \X Paths
  PROVE  \E f : /\ Forest(list) = f[N] /\ f[0] = [g \in Paths |-> g]
                /\ \A n \in 1..N : f[n] = Unite(f[n - 1], list[n])
<1> DEFINE F == CHOOSE f : f = [n \in 0..N |->
                  IF n = 0 THEN [g \in Paths |-> g] ELSE Unite(f[n - 1], list[n])]
<1>1. PICK V : V = {p \in [Paths -> Paths] : \E root : Rooted(p, root)}
  OBVIOUS
<1>2. PICK base : base = [g \in Paths |-> g]
  OBVIOUS
<1>3. base \in V
  BY <1>1, <1>2, Singles
<1>4. ASSUME NEW n \in 1..N, NEW p \in V PROVE Unite(p, list[n]) \in V
  <2>1. PICK root : Rooted(p, root)
    BY <1>1
  <2>2. \E x : Rooted(Unite(p, list[n]), x)
    BY <2>1, United
  <2>3. Unite(p, list[n]) \in [Paths -> Paths]
    BY <2>2 DEF Rooted
  <2> QED
    BY <1>1, <2>2, <2>3
<1>5. PICK Step : Step = [n \in 1..N |-> [p \in V |-> Unite(p, list[n])]]
  OBVIOUS
<1>6. Step \in [1..N -> [V -> V]]
  BY <1>4, <1>5
<1>7. PICK f \in [0..N -> V] : f[0] = base /\ \A n \in 1..N : f[n] = Step[n][f[n - 1]]
  BY ONLY <1>3, <1>6, Recursion
<1>8. ASSUME NEW n \in 1..N PROVE f[n] = Unite(f[n - 1], list[n])
  <2>1. f[n - 1] \in V
    <3>1. n - 1 \in 0..N
      OBVIOUS
    <3> QED
      BY ONLY <3>1, f \in [0..N -> V]
  <2>2. Step[n][f[n - 1]] = Unite(f[n - 1], list[n])
    BY ONLY <1>5, <2>1, n \in 1..N
  <2>3. f[n] = Step[n][f[n - 1]]
    BY ONLY <1>7, n \in 1..N
  <2> QED
    BY ONLY <2>2, <2>3
<1>9. f = [n \in 0..N |-> IF n = 0 THEN [g \in Paths |-> g] ELSE Unite(f[n - 1], list[n])]
  BY <1>2, <1>7, <1>8
<1>10. F = [n \in 0..N |-> IF n = 0 THEN [g \in Paths |-> g] ELSE Unite(F[n - 1], list[n])]
  BY <1>9, Zenon
<1>11. Forest(list) = F[N]
  BY Zenon DEF Forest
<1> HIDE DEF F
<1>12. \A n \in 0..N : F[n] = IF n = 0 THEN [g \in Paths |-> g] ELSE Unite(F[n - 1], list[n])
  BY <1>10, Zenon
<1>13. F[0] = [g \in Paths |-> g] /\ \A n \in 1..N : F[n] = Unite(F[n - 1], list[n])
  BY <1>12
<1> QED
  BY <1>11, <1>13

\* Union-find over a list of pairs: the files of each pair have the same root, and a set
\* of files that no pair leaves has a file exactly if it has its root.
THEOREM ForestIsRight ==
  ASSUME NEW list, NEW N \in Nat, N = Len(list), \A n \in 1..N : list[n] \in Paths \X Paths
  PROVE  \E root \in [Paths -> Paths] :
           /\ \A f \in Paths : Root(Forest(list), f) = root[f]
           /\ \A n \in 1..N : root[list[n][1]] = root[list[n][2]]
           /\ \A S \in SUBSET Paths : (\A n \in 1..N : list[n][1] \in S <=> list[n][2] \in S)
                => \A f \in Paths : f \in S <=> root[f] \in S
<1>1. PICK F : /\ Forest(list) = F[N] /\ F[0] = [g \in Paths |-> g]
               /\ \A n \in 1..N : F[n] = Unite(F[n - 1], list[n])
  BY Forests
<1> DEFINE Meets(root, n) == \A m \in 1..n : root[list[m][1]] = root[list[m][2]]
           Whole(S, n) == \A m \in 1..n : list[m][1] \in S <=> list[m][2] \in S
           Splits(root, n) == \A S \in SUBSET Paths : Whole(S, n) => \A f \in Paths : f \in S <=> root[f] \in S
           Good(n) == \E root : Rooted(F[n], root) /\ Meets(root, n) /\ Splits(root, n)
           G == {n \in 0..N : Good(n)}
<1>2. 0 \in G
  <2> DEFINE id == [g \in Paths |-> g]
  <2>1. Rooted(F[0], id)
    BY <1>1, Singles
  <2>2. Meets(id, 0) /\ Splits(id, 0)
    OBVIOUS
  <2> HIDE DEF id, Meets, Splits
  <2> QED
    BY <2>1, <2>2
<1>3. ASSUME NEW n \in 0..(N - 1), n \in G PROVE n + 1 \in G
  <2>0. n + 1 \in 1..N /\ (n + 1) - 1 = n /\ 1..(n + 1) = (1..n) \union {n + 1} /\ 1..n \subseteq 1..N
    OBVIOUS
  <2>1. PICK root : Rooted(F[n], root) /\ Meets(root, n) /\ Splits(root, n)
    BY <1>3
  <2>2. PICK pair : pair = list[n + 1]
    OBVIOUS
  <2>3. pair \in Paths \X Paths /\ F[n + 1] = Unite(F[n], pair)
    BY <1>1, <2>0, <2>2
  <2>4. PICK over : over = Over(root, pair[1], pair[2])
    OBVIOUS
  <2>5. Rooted(F[n + 1], over)
    BY <2>1, <2>3, <2>4, United
  <2>6. /\ root \in [Paths -> Paths]
        /\ \A f \in Paths : over[f] = IF root[f] = root[pair[1]] THEN root[pair[2]] ELSE root[f]
    BY <2>1, <2>4 DEF Over, Rooted
  <2>7. Meets(over, n + 1)
    <3>1. over[pair[1]] = over[pair[2]]
      BY <2>3, <2>6
    <3>2. \A m \in 1..n : over[list[m][1]] = over[list[m][2]]
      <4>1. ASSUME NEW m \in 1..n PROVE over[list[m][1]] = over[list[m][2]]
        <5>1. list[m][1] \in Paths /\ list[m][2] \in Paths
          BY <2>0
        <5>2. root[list[m][1]] = root[list[m][2]]
          BY <2>1
        <5> QED
          BY <2>6, <5>1, <5>2
      <4> QED
        BY <4>1
    <3> QED
      BY <2>0, <2>2, <3>1, <3>2
  <2>8. Splits(over, n + 1)
    <3>1. SUFFICES ASSUME NEW S \in SUBSET Paths, Whole(S, n + 1), NEW f \in Paths
                   PROVE  f \in S <=> over[f] \in S
      OBVIOUS
    <3>2. Whole(S, n) /\ (pair[1] \in S <=> pair[2] \in S)
      BY <2>0, <2>2, <3>1
    <3>3. \A g \in Paths : g \in S <=> root[g] \in S
      BY <2>1, <3>2
    <3> HIDE DEF Whole
    <3> QED
      BY <2>3, <2>6, <3>2, <3>3
  <2> HIDE DEF Meets, Splits
  <2> QED
    BY <2>0, <2>5, <2>7, <2>8
<1> HIDE DEF G
<1>4. N \in G
  <2>1. \A n \in 0..(N - 1) : n \in G => n + 1 \in G
    BY <1>3
  <2>2. 0..N \subseteq G
    BY <1>2, <2>1, Induction
  <2> QED
    BY <2>2
<1>5. PICK root : Rooted(F[N], root) /\ Meets(root, N) /\ Splits(root, N)
  BY <1>4 DEF G
<1>6. root \in [Paths -> Paths]
  BY <1>5 DEF Rooted
<1>7. \A f \in Paths : Root(Forest(list), f) = root[f]
  BY <1>1, <1>5, RootIsFound
<1> QED
  BY <1>5, <1>6, <1>7

--------------------------------------------------------------------------------
(* Proofs: the rules that files are attributed to.                          *)

\* What the files are attributed to after each pair of a list.
LEMMA Attributions ==
  ASSUME ruleIdsByFile \in [Paths -> SUBSET RuleIds],
         NEW list, NEW N \in Nat, N = Len(list), \A n \in 1..N : list[n] \in Paths \X Paths
  PROVE  \E f \in [0..N -> [Paths -> SUBSET RuleIds]] :
           /\ Attributed(list) = f[N] /\ f[0] = ruleIdsByFile
           /\ \A n \in 1..N : f[n] = HandDown(f[n - 1], list[n])
<1> DEFINE F == CHOOSE f : f = [n \in 0..N |->
                  IF n = 0 THEN ruleIdsByFile ELSE HandDown(f[n - 1], list[n])]
<1>1. PICK V : V = [Paths -> SUBSET RuleIds]
  OBVIOUS
<1>2. PICK base : base = ruleIdsByFile
  OBVIOUS
<1>3. base \in V
  BY <1>1, <1>2
<1>4. ASSUME NEW n \in 1..N, NEW of \in V PROVE HandDown(of, list[n]) \in V
  <2>1. list[n][1] \in Paths /\ list[n][2] \in Paths
    OBVIOUS
  <2> QED
    BY <1>1, <2>1 DEF HandDown
<1>5. PICK Step : Step = [n \in 1..N |-> [of \in V |-> HandDown(of, list[n])]]
  OBVIOUS
<1>6. Step \in [1..N -> [V -> V]]
  BY <1>4, <1>5
<1>7. PICK f \in [0..N -> V] : f[0] = base /\ \A n \in 1..N : f[n] = Step[n][f[n - 1]]
  BY ONLY <1>3, <1>6, Recursion
<1>8. ASSUME NEW n \in 1..N PROVE f[n] = HandDown(f[n - 1], list[n])
  <2>1. f[n - 1] \in V
    <3>1. n - 1 \in 0..N
      OBVIOUS
    <3> QED
      BY ONLY <3>1, f \in [0..N -> V]
  <2>2. Step[n][f[n - 1]] = HandDown(f[n - 1], list[n])
    BY ONLY <1>5, <2>1, n \in 1..N
  <2>3. f[n] = Step[n][f[n - 1]]
    BY ONLY <1>7, n \in 1..N
  <2> QED
    BY ONLY <2>2, <2>3
<1>9. f = [n \in 0..N |-> IF n = 0 THEN ruleIdsByFile ELSE HandDown(f[n - 1], list[n])]
  BY <1>2, <1>7, <1>8
<1>10. F = [n \in 0..N |-> IF n = 0 THEN ruleIdsByFile ELSE HandDown(F[n - 1], list[n])]
  BY <1>9, Zenon
<1>11. Attributed(list) = F[N]
  BY Zenon DEF Attributed
<1> HIDE DEF F
<1>12. \A n \in 0..N : F[n] = IF n = 0 THEN ruleIdsByFile ELSE HandDown(F[n - 1], list[n])
  BY <1>10, Zenon
<1>13. F[0] = ruleIdsByFile /\ \A n \in 1..N : F[n] = HandDown(F[n - 1], list[n])
  BY <1>12
<1> DEFINE G == {n \in 0..N : F[n] \in V}
<1>14. 0 \in G
  BY <1>2, <1>3, <1>13
<1>15. \A n \in 0..(N - 1) : n \in G => n + 1 \in G
  <2>1. ASSUME NEW n \in 0..(N - 1), n \in G PROVE n + 1 \in G
    <3>1. n + 1 \in 1..N /\ (n + 1) - 1 = n
      OBVIOUS
    <3>2. F[n + 1] = HandDown(F[n], list[n + 1])
      BY <1>13, <3>1
    <3> QED
      BY <1>4, <2>1, <3>1, <3>2
  <2> QED
    BY <2>1
<1> HIDE DEF G
<1>16. 0..N \subseteq G
  BY <1>14, <1>15, Induction
<1>17. F \in [0..N -> V]
  BY <1>10, <1>16 DEF G
<1> QED
  BY <1>1, <1>11, <1>13, <1>17

\* What is handed down along a list of pairs: a file keeps its rules, the second of a
\* pair has those the first began with, and each rule comes from a file that no set
\* that no pair leaves parts from it.
LEMMA HandedDown ==
  ASSUME ruleIdsByFile \in [Paths -> SUBSET RuleIds],
         NEW list, NEW N \in Nat, N = Len(list), \A n \in 1..N : list[n] \in Paths \X Paths
  PROVE  /\ Attributed(list) \in [Paths -> SUBSET RuleIds]
         /\ \A f \in Paths : ruleIdsByFile[f] \subseteq Attributed(list)[f]
         /\ \A n \in 1..N : ruleIdsByFile[list[n][1]] \subseteq Attributed(list)[list[n][2]]
         /\ \A f \in Paths, r \in RuleIds : r \in Attributed(list)[f] =>
              \E g \in Paths :
                /\ r \in ruleIdsByFile[g]
                /\ \A S \in SUBSET Paths :
                     (\A n \in 1..N : list[n][1] \in S <=> list[n][2] \in S) => (f \in S <=> g \in S)
<1>1. PICK F \in [0..N -> [Paths -> SUBSET RuleIds]] :
        /\ Attributed(list) = F[N] /\ F[0] = ruleIdsByFile
        /\ \A n \in 1..N : F[n] = HandDown(F[n - 1], list[n])
  BY Attributions
<1> DEFINE Whole(S) == \A n \in 1..N : list[n][1] \in S <=> list[n][2] \in S
           Tied(f, g) == \A S \in SUBSET Paths : Whole(S) => (f \in S <=> g \in S)
           Kept(n) == \A f \in Paths : ruleIdsByFile[f] \subseteq F[n][f]
           Passed(n) == \A m \in 1..n : ruleIdsByFile[list[m][1]] \subseteq F[n][list[m][2]]
           From0(n) == \A f \in Paths, r \in RuleIds : r \in F[n][f] =>
                         \E g \in Paths : r \in ruleIdsByFile[g] /\ Tied(f, g)
           G == {n \in 0..N : Kept(n) /\ Passed(n) /\ From0(n)}
<1>2. 0 \in G
  <2>1. \A f \in Paths : Tied(f, f)
    OBVIOUS
  <2> HIDE DEF Tied
  <2> QED
    BY <1>1, <2>1
<1>3. ASSUME NEW n \in 0..(N - 1), n \in G PROVE n + 1 \in G
  <2>0. n + 1 \in 1..N /\ (n + 1) - 1 = n /\ 1..(n + 1) = (1..n) \union {n + 1} /\ 1..n \subseteq 1..N
        /\ n \in 0..N
    OBVIOUS
  <2>1. PICK a, b : list[n + 1] = <<a, b>> /\ a \in Paths /\ b \in Paths
    BY <2>0
  <2>2. F[n + 1] = [F[n] EXCEPT ![b] = @ \union F[n][a]]
    <3>1. F[n + 1] = HandDown(F[n], list[n + 1])
      BY <1>1, <2>0
    <3>2. list[n + 1][1] = a /\ list[n + 1][2] = b
      BY <2>1
    <3> QED
      BY <3>1, <3>2 DEF HandDown
  <2>3. F[n] \in [Paths -> SUBSET RuleIds]
    BY <2>0
  <2>4. \A f \in Paths : F[n + 1][f] = IF f = b THEN F[n][b] \union F[n][a] ELSE F[n][f]
    BY <2>1, <2>2, <2>3
  <2>5. Kept(n + 1)
    BY <1>3, <2>4
  <2>6. Passed(n + 1)
    <3>1. ASSUME NEW m \in 1..n PROVE ruleIdsByFile[list[m][1]] \subseteq F[n + 1][list[m][2]]
      <4>1. list[m][2] \in Paths
        BY <2>0
      <4>2. ruleIdsByFile[list[m][1]] \subseteq F[n][list[m][2]]
        BY <1>3
      <4> QED
        BY <2>4, <4>1, <4>2
    <3>2. ruleIdsByFile[list[n + 1][1]] \subseteq F[n + 1][list[n + 1][2]]
      BY <1>3, <2>1, <2>4
    <3> QED
      BY <2>0, <3>1, <3>2
  <2>7. From0(n + 1)
    <3>1. Tied(b, a)
      BY <2>0, <2>1
    <3>2. \A f, g, h : Tied(f, g) /\ Tied(g, h) => Tied(f, h)
      OBVIOUS
    <3> HIDE DEF Tied
    <3>3. ASSUME NEW f \in Paths, NEW r \in RuleIds, r \in F[n + 1][f]
          PROVE  \E g \in Paths : r \in ruleIdsByFile[g] /\ Tied(f, g)
      <4>1. r \in F[n][f] \/ (f = b /\ r \in F[n][a])
        BY <2>4, <3>3
      <4> QED
        BY <1>3, <2>1, <3>1, <3>2, <4>1
    <3> QED
      BY <3>3
  <2> HIDE DEF Kept, Passed, From0
  <2> QED
    BY <2>0, <2>5, <2>6, <2>7
<1> HIDE DEF G
<1>4. N \in G
  <2>1. \A n \in 0..(N - 1) : n \in G => n + 1 \in G
    BY <1>3
  <2>2. 0..N \subseteq G
    BY <1>2, <2>1, Induction
  <2> QED
    BY <2>2
<1>5. Kept(N) /\ Passed(N) /\ From0(N)
  BY <1>4 DEF G
<1>6. F[N] \in [Paths -> SUBSET RuleIds]
  OBVIOUS
<1> QED
  BY <1>1, <1>5, <1>6

--------------------------------------------------------------------------------
(* Proofs: the slices of a component.                                       *)

\* Each path has a place of its own in the order.
LEMMA Places ==
  /\ \A f \in Paths : Place(f) \in Nat
  /\ \A f, g \in Paths : Place(f) = Place(g) => f = g
<1>1. PathOrder \in Seq(Paths) /\ \A f \in Paths : \E n \in DOMAIN PathOrder : PathOrder[n] = f
  BY RetrievalAssumption DEF ToSet
<1>2. \A f \in Paths : Place(f) \in DOMAIN PathOrder /\ PathOrder[Place(f)] = f
  BY <1>1 DEF Place
<1>3. DOMAIN PathOrder \subseteq Nat
  BY <1>1
<1> QED
  BY <1>2, <1>3

\* The files of a component, sorted, are numbered from 0 without a gap.
LEMMA Ranks ==
  ASSUME NEW C, C \subseteq Paths
  PROVE  /\ IsFiniteSet(C) /\ Cardinality(C) \in Nat
         /\ \A f \in C : Rank(f, C) \in Nat /\ Rank(f, C) < Cardinality(C)
         /\ \A f, g \in C : Place(f) < Place(g) <=> Rank(f, C) < Rank(g, C)
         /\ \A f, g \in C : Rank(f, C) = Rank(g, C) => f = g
         /\ \A n \in Nat : n < Cardinality(C) => \E f \in C : Rank(f, C) = n
<1> DEFINE Below(f) == {g \in C : Place(g) < Place(f)}
<1>1. IsFiniteSet(C) /\ Cardinality(C) \in Nat
  BY PathsAreFinite, FS_Subset, FS_CardinalityType
<1>2. ASSUME NEW f \in C
      PROVE  IsFiniteSet(Below(f)) /\ Rank(f, C) = Cardinality(Below(f)) /\ Rank(f, C) \in Nat
  BY <1>1, FS_Subset, FS_CardinalityType DEF Rank
<1>3. ASSUME NEW f \in C PROVE Rank(f, C) < Cardinality(C)
  <2>1. f \notin Below(f) /\ Below(f) \in SUBSET C
    BY Places
  <2>2. Cardinality(Below(f)) <= Cardinality(C) /\ Cardinality(C) # Cardinality(Below(f))
    BY <1>1, <2>1, FS_Subset
  <2> QED
    BY <1>1, <1>2, <2>2
<1>4. ASSUME NEW f \in C, NEW g \in C, Place(f) < Place(g)
      PROVE  Rank(f, C) < Rank(g, C)
  <2>1. Below(f) \in SUBSET Below(g) /\ f \in Below(g) /\ f \notin Below(f)
    BY <1>4, Places
  <2>2. /\ Cardinality(Below(f)) <= Cardinality(Below(g))
        /\ Cardinality(Below(g)) # Cardinality(Below(f))
    BY <1>2, <2>1, FS_Subset
  <2>3. Cardinality(Below(f)) = Rank(f, C) /\ Cardinality(Below(g)) = Rank(g, C)
        /\ Rank(f, C) \in Nat /\ Rank(g, C) \in Nat
    BY <1>2
  <2> QED
    BY ONLY <2>2, <2>3
<1>5. \A f, g \in C : Place(f) < Place(g) \/ Place(g) < Place(f) \/ f = g
  BY Places
<1>6. ASSUME NEW f \in C, NEW g \in C
      PROVE  /\ Rank(f, C) = Rank(g, C) => f = g
             /\ Place(f) < Place(g) <=> Rank(f, C) < Rank(g, C)
  <2>1. Place(f) \in Nat /\ Place(g) \in Nat /\ Rank(f, C) \in Nat /\ Rank(g, C) \in Nat
    BY <1>2, Places
  <2>2. CASE Place(f) < Place(g)
    BY <1>4, <2>1, <2>2
  <2>3. CASE Place(g) < Place(f)
    BY <1>4, <2>1, <2>3
  <2>4. CASE f = g
    BY <2>1, <2>4
  <2> QED
    BY <1>5, <2>2, <2>3, <2>4
<1>8. ASSUME NEW n \in Nat, n < Cardinality(C)
      PROVE  \E f \in C : Rank(f, C) = n
  <2>1. PICK rank : rank = [f \in C |-> Rank(f, C)]
    OBVIOUS
  <2>2. PICK T : T = 0..(Cardinality(C) - 1)
    OBVIOUS
  <2>3. IsFiniteSet(T) /\ Cardinality(T) = Cardinality(C)
    <3>1. 0 \in Int /\ Cardinality(C) - 1 \in Int /\ ~(0 > Cardinality(C) - 1)
      BY <1>1, <1>8
    <3> QED
      BY <1>1, <2>2, <3>1, FS_Interval
  <2>4. rank \in [C -> T]
    <3>1. ASSUME NEW f \in C PROVE Rank(f, C) \in T
      <4>1. Rank(f, C) \in Nat /\ Rank(f, C) < Cardinality(C) /\ Cardinality(C) \in Nat
        BY <1>1, <1>2, <1>3
      <4> QED
        BY ONLY <2>2, <4>1
    <3> QED
      BY <2>1, <3>1
  <2>5. rank \in Injection(C, T)
    BY <1>6, <2>1, <2>4 DEF Injection, IsInjective
  <2>6. rank \in Surjection(C, T)
    BY <2>3, <2>5, FS_Injection
  <2>7. n \in T
    BY <1>1, <1>8, <2>2
  <2> QED
    BY <2>1, <2>6, <2>7 DEF Surjection
<1> QED
  BY <1>1, <1>2, <1>3, <1>6, <1>8

\* What Slice means by its bounds.
LEMMA Bounds ==
  ASSUME NEW m \in Nat, NEW n \in Nat, m < n
  PROVE  (m + 1) * MaxBatchSize <= n * MaxBatchSize
<1>1. MaxBatchSize \in Nat
  BY RetrievalAssumption
<1>2. PICK k \in Nat : n = (m + 1) + k
  <2>1. n - (m + 1) \in Nat /\ n = (m + 1) + (n - (m + 1))
    OBVIOUS
  <2> QED
    BY <2>1
<1>3. n * MaxBatchSize = (m + 1) * MaxBatchSize + k * MaxBatchSize
  BY <1>1, <1>2
<1>4. k * MaxBatchSize \in Nat /\ (m + 1) * MaxBatchSize \in Nat
  BY <1>1
<1> QED
  BY <1>3, <1>4

\* Each number is between two multiples of the size of a batch.
LEMMA Between ==
  ASSUME NEW k \in Nat
  PROVE  \E n \in 0..k : n * MaxBatchSize <= k /\ k < (n + 1) * MaxBatchSize
<1>0. MaxBatchSize \in Nat /\ MaxBatchSize > 0
  BY RetrievalAssumption
<1> DEFINE S == {m \in 0..k : \E n \in 0..m : n * MaxBatchSize <= m /\ m < (n + 1) * MaxBatchSize}
<1>1. 0 \in S
  <2>1. 0 * MaxBatchSize <= 0 /\ 0 < (0 + 1) * MaxBatchSize /\ 0 \in 0..0
    BY <1>0
  <2> QED
    BY <2>1
<1>2. ASSUME NEW m \in 0..(k - 1), m \in S PROVE m + 1 \in S
  <2>1. PICK n \in 0..m : n * MaxBatchSize <= m /\ m < (n + 1) * MaxBatchSize
    BY <1>2
  <2>2. n * MaxBatchSize \in Nat /\ (n + 1) * MaxBatchSize \in Nat
        /\ (n + 2) * MaxBatchSize = (n + 1) * MaxBatchSize + MaxBatchSize
    BY <1>0
  <2>3. n \in 0..(m + 1) /\ n + 1 \in 0..(m + 1) /\ m + 1 \in 0..k /\ (n + 1) + 1 = n + 2
    OBVIOUS
  <2>4. CASE m + 1 < (n + 1) * MaxBatchSize
    <3>1. n * MaxBatchSize <= m + 1
      BY <2>1, <2>2
    <3> QED
      BY <2>3, <2>4, <3>1
  <2>5. CASE m + 1 >= (n + 1) * MaxBatchSize
    <3>1. (n + 1) * MaxBatchSize <= m + 1 /\ m + 1 < (n + 2) * MaxBatchSize
      BY <1>0, <2>1, <2>2, <2>5
    <3> QED
      BY <2>3, <3>1
  <2> QED
    BY <2>2, <2>4, <2>5
<1> HIDE DEF S
<1>3. k \in S
  <2>1. \A m \in 0..(k - 1) : m \in S => m + 1 \in S
    BY <1>2
  <2>2. 0..k \subseteq S
    BY <1>1, <2>1, Induction
  <2> QED
    BY <2>2
<1> QED
  BY <1>3 DEF S

\* A slice of a sorted component, as the numbers of its files.
LEMMA Multiples ==
  ASSUME NEW n \in Nat
  PROVE  /\ n * MaxBatchSize \in Nat /\ (n + 1) * MaxBatchSize \in Nat
         /\ (n + 1) * MaxBatchSize = n * MaxBatchSize + MaxBatchSize
         /\ MaxBatchSize \in Nat /\ MaxBatchSize > 0
  BY RetrievalAssumption

\* A slice is no larger than a batch.
LEMMA SliceIsSmall ==
  ASSUME NEW C, C \subseteq Paths, NEW n \in Nat
  PROVE  IsFiniteSet(Slice(C, n)) /\ Cardinality(Slice(C, n)) \in Nat
         /\ Cardinality(Slice(C, n)) <= MaxBatchSize
<1>1. IsFiniteSet(Slice(C, n)) /\ Cardinality(Slice(C, n)) \in Nat
  BY Ranks, FS_Subset, FS_CardinalityType DEF Slice
<1>2. PICK low : low = n * MaxBatchSize
  OBVIOUS
<1>3. PICK T : T = low..(low + MaxBatchSize - 1)
  OBVIOUS
<1>4. low \in Nat /\ (n + 1) * MaxBatchSize = low + MaxBatchSize
      /\ MaxBatchSize \in Nat /\ MaxBatchSize > 0
  BY ONLY <1>2, Multiples, n \in Nat
<1>5. IsFiniteSet(T) /\ Cardinality(T) = MaxBatchSize
  <2>1. low \in Int /\ low + MaxBatchSize - 1 \in Int /\ ~(low > low + MaxBatchSize - 1)
        /\ (low + MaxBatchSize - 1) - low + 1 = MaxBatchSize
    BY ONLY <1>4
  <2> QED
    BY ONLY <1>3, <2>1, FS_Interval
<1>6. PICK rank : rank = [f \in Slice(C, n) |-> Rank(f, C)]
  OBVIOUS
<1>7. ASSUME NEW f \in Slice(C, n) PROVE f \in C /\ Rank(f, C) \in T
  <2>1. /\ f \in C /\ Rank(f, C) \in Nat
        /\ low <= Rank(f, C) /\ Rank(f, C) < low + MaxBatchSize
    BY <1>2, <1>4, Ranks DEF Slice
  <2> QED
    BY ONLY <1>3, <1>4, <2>1
<1>8. rank \in [Slice(C, n) -> T]
  BY <1>6, <1>7
<1>9. \A f, g \in Slice(C, n) : rank[f] = rank[g] => f = g
  BY <1>6, <1>7, Ranks
<1>10. rank \in Injection(Slice(C, n), T)
  BY <1>8, <1>9 DEF Injection, IsInjective
<1> QED
  BY <1>1, <1>5, <1>10, FS_Injection

\* One that another follows is as large as a batch, and sorts before it.
LEMMA SliceIsFull ==
  ASSUME NEW C, C \subseteq Paths, NEW m \in Nat, NEW n \in Nat, m < n, Slice(C, n) # {}
  PROVE  Sliced(Slice(C, m), Slice(C, n))
<1>1. PICK low : low = m * MaxBatchSize
  OBVIOUS
<1>2. low \in Nat /\ (m + 1) * MaxBatchSize = low + MaxBatchSize
      /\ MaxBatchSize \in Nat /\ MaxBatchSize > 0
  BY ONLY <1>1, Multiples, m \in Nat
<1>3. low + MaxBatchSize <= n * MaxBatchSize /\ n * MaxBatchSize \in Nat
  BY <1>2, Bounds, Multiples
<1>4. ASSUME NEW f \in Slice(C, m)
      PROVE  f \in C /\ Rank(f, C) \in Nat /\ low <= Rank(f, C) /\ Rank(f, C) < low + MaxBatchSize
  BY <1>1, <1>2, Ranks DEF Slice
<1>5. ASSUME NEW g \in Slice(C, n)
      PROVE  g \in C /\ Rank(g, C) \in Nat /\ low + MaxBatchSize <= Rank(g, C)
             /\ Rank(g, C) < Cardinality(C)
  <2>1. g \in C /\ Rank(g, C) \in Nat /\ n * MaxBatchSize <= Rank(g, C)
        /\ Rank(g, C) < Cardinality(C)
    BY Ranks DEF Slice
  <2> QED
    BY ONLY <1>2, <1>3, <2>1
<1>6. \A f \in Slice(C, m), g \in Slice(C, n) : Place(f) < Place(g)
  <2> SUFFICES ASSUME NEW f \in Slice(C, m), NEW g \in Slice(C, n) PROVE Place(f) < Place(g)
    OBVIOUS
  <2>1. Rank(f, C) < Rank(g, C)
    BY ONLY <1>2, <1>4, <1>5
  <2> QED
    BY <1>4, <1>5, <2>1, Ranks
<1>7. Cardinality(Slice(C, m)) = MaxBatchSize
  <2>1. PICK T : T = low..(low + MaxBatchSize - 1)
    OBVIOUS
  <2>2. IsFiniteSet(T) /\ Cardinality(T) = MaxBatchSize
    <3>1. low \in Int /\ low + MaxBatchSize - 1 \in Int /\ ~(low > low + MaxBatchSize - 1)
          /\ (low + MaxBatchSize - 1) - low + 1 = MaxBatchSize
      BY ONLY <1>2
    <3> QED
      BY ONLY <2>1, <3>1, FS_Interval
  <2>3. PICK g \in Slice(C, n) : TRUE
    OBVIOUS
  <2>4. ASSUME NEW k \in T PROVE \E f \in Slice(C, m) : Rank(f, C) = k
    <3>1. k \in Nat /\ low <= k /\ k < low + MaxBatchSize
      BY ONLY <1>2, <2>1
    <3>2. k < Cardinality(C)
      <4>1. Cardinality(C) \in Nat
        BY Ranks
      <4> QED
        BY ONLY <1>2, <1>5, <3>1, <4>1
    <3>3. PICK f \in C : Rank(f, C) = k
      BY <3>1, <3>2, Ranks
    <3> QED
      BY <1>1, <1>2, <3>1, <3>3 DEF Slice
  <2>5. PICK fileAt : fileAt = [k \in T |-> CHOOSE f \in Slice(C, m) : Rank(f, C) = k]
    OBVIOUS
  <2>6. \A k \in T : fileAt[k] \in Slice(C, m) /\ Rank(fileAt[k], C) = k
    BY <2>4, <2>5
  <2>7. fileAt \in [T -> Slice(C, m)]
    BY <2>5, <2>6
  <2>8. fileAt \in Injection(T, Slice(C, m))
    BY <2>6, <2>7 DEF Injection, IsInjective
  <2>9. IsFiniteSet(Slice(C, m)) /\ Cardinality(Slice(C, m)) <= MaxBatchSize
        /\ Cardinality(Slice(C, m)) \in Nat
    BY SliceIsSmall
  <2>10. MaxBatchSize <= Cardinality(Slice(C, m))
    BY <2>2, <2>8, <2>9, FS_Injection
  <2> QED
    BY ONLY <1>2, <2>9, <2>10
<1> QED
  BY <1>6, <1>7 DEF Sliced

\* Each file of a component is in one chunk; the chunks are slices of it.
THEOREM ChunksOfComponent ==
  ASSUME NEW C, C \subseteq Paths
  PROVE  /\ \A f \in C : \E K \in Chunks(C) : f \in K
         /\ \A K \in Chunks(C) : K \subseteq C /\ K # {} /\ Cardinality(K) <= MaxBatchSize
         /\ \A K, L \in Chunks(C) : K # L => Sliced(K, L) \/ Sliced(L, K)
         /\ \A K, L \in Chunks(C) : K # L => K \intersect L = {}
<1>1. ASSUME NEW f \in C PROVE \E K \in Chunks(C) : f \in K
  <2>1. Rank(f, C) \in Nat /\ Rank(f, C) < Cardinality(C) /\ Cardinality(C) \in Nat
    BY Ranks
  <2>2. PICK n \in 0..Rank(f, C) :
           n * MaxBatchSize <= Rank(f, C) /\ Rank(f, C) < (n + 1) * MaxBatchSize
    BY <2>1, Between
  <2>3. n \in 0..Cardinality(C)
    BY ONLY <2>1, <2>2
  <2>4. f \in Slice(C, n)
    BY <2>2 DEF Slice
  <2> QED
    BY <2>3, <2>4 DEF Chunks
<1>2. ASSUME NEW K \in Chunks(C)
      PROVE  \E n \in Nat : K = Slice(C, n) /\ K # {}
  <2>1. Cardinality(C) \in Nat
    BY Ranks
  <2>2. PICK n \in 0..Cardinality(C) : K = Slice(C, n) /\ K # {}
    BY DEF Chunks
  <2>3. n \in Nat
    BY ONLY <2>1, <2>2
  <2> QED
    BY <2>2, <2>3
<1>3. ASSUME NEW K \in Chunks(C)
      PROVE  K \subseteq C /\ K # {} /\ Cardinality(K) <= MaxBatchSize
  <2>1. PICK n \in Nat : K = Slice(C, n) /\ K # {}
    BY <1>2
  <2>2. Slice(C, n) \subseteq C
    BY DEF Slice
  <2> QED
    BY <2>1, <2>2, SliceIsSmall
<1>4. ASSUME NEW K \in Chunks(C), NEW L \in Chunks(C), K # L
      PROVE  (Sliced(K, L) \/ Sliced(L, K)) /\ K \intersect L = {}
  <2>1. PICK m \in Nat, n \in Nat : K = Slice(C, m) /\ L = Slice(C, n) /\ K # {} /\ L # {}
    BY <1>2
  <2>2. m < n \/ n < m
    <3>1. m # n
      BY <1>4, <2>1
    <3> QED
      BY ONLY <3>1, m \in Nat, n \in Nat
  <2>3. Sliced(K, L) \/ Sliced(L, K)
    BY <2>1, <2>2, SliceIsFull
  <2>4. ASSUME NEW f \in K, f \in L PROVE FALSE
    <3>1. Place(f) < Place(f)
      BY <2>3, <2>4 DEF Sliced
    <3>2. f \in Paths
      BY <1>3
    <3> QED
      BY <3>1, <3>2, Places
  <2> QED
    BY <2>3, <2>4
<1> QED
  BY <1>1, <1>3, <1>4

--------------------------------------------------------------------------------
(* Proofs: the pairs, the components and the batches.                       *)

\* Where something is for the first time in a sequence.
LEMMA FirstPlace ==
  ASSUME NEW list, NEW N \in Nat, NEW k \in 1..N
  PROVE  \E n \in 1..N : list[n] = list[k] /\ \A m \in 1..(n - 1) : list[m] # list[n]
<1> DEFINE G == {n \in 0..N : (\E m \in 1..n : list[m] = list[k]) =>
                   \E m \in 1..n : list[m] = list[k] /\ \A l \in 1..(m - 1) : list[l] # list[m]}
<1>1. 0 \in G
  OBVIOUS
<1>2. ASSUME NEW n \in 0..(N - 1), n \in G PROVE n + 1 \in G
  <2> SUFFICES ASSUME \E m \in 1..(n + 1) : list[m] = list[k]
               PROVE  \E m \in 1..(n + 1) : list[m] = list[k] /\ \A l \in 1..(m - 1) : list[l] # list[m]
    OBVIOUS
  <2>1. CASE \E m \in 1..n : list[m] = list[k]
    <3>1. PICK m \in 1..n : list[m] = list[k] /\ \A l \in 1..(m - 1) : list[l] # list[m]
      BY <1>2, <2>1
    <3>2. m \in 1..(n + 1)
      OBVIOUS
    <3> QED
      BY <3>1, <3>2
  <2>2. CASE ~ \E m \in 1..n : list[m] = list[k]
    <3>1. list[n + 1] = list[k] /\ n + 1 \in 1..(n + 1) /\ (n + 1) - 1 = n
      BY <2>2
    <3> QED
      BY <2>2, <3>1
  <2> QED
    BY <2>1, <2>2
<1>3. \A n \in 0..(N - 1) : n \in G => n + 1 \in G
  BY <1>2
<1> HIDE DEF G
<1>4. 0..N \subseteq G
  BY <1>1, <1>3, Induction
<1>5. N \in G
  BY <1>4
<1> QED
  BY <1>5 DEF G

\* The pairs of a seed: it and each importer kept of it that was loaded.
LEMMA Pairs ==
  ASSUME NEW s \in candidates, ancestors[s] \in Seq(Paths)
  PROVE  /\ PairsOf(s) \in Seq(candidates \X candidates)
         /\ ToSet(PairsOf(s)) = {<<s, g>> : g \in ToSet(ancestors[s]) \intersect candidates}
<1>1. PICK T : T = candidates \X candidates
  OBVIOUS
<1>2. PICK list : list = ancestors[s]
  OBVIOUS
<1>3. PICK ss : ss = [k \in DOMAIN list |-> IF list[k] \in candidates THEN <<<<s, list[k]>>>> ELSE <<>>]
  OBVIOUS
<1>4. Len(list) \in Nat /\ DOMAIN list = 1..Len(list)
  BY <1>2
<1>5. ASSUME NEW k \in DOMAIN list
      PROVE  /\ ss[k] \in Seq(T)
             /\ ToSet(ss[k]) = IF list[k] \in candidates THEN {<<s, list[k]>>} ELSE {}
  <2>1. CASE list[k] \in candidates
    <3>1. ss[k] = <<<<s, list[k]>>>> /\ <<s, list[k]>> \in T
      BY <1>1, <1>3, <2>1
    <3>2. ASSUME NEW x PROVE <<x>> \in Seq({x}) /\ ToSet(<<x>>) = {x}
      BY DEF ToSet
    <3> QED
      BY <2>1, <3>1, <3>2
  <2>2. CASE list[k] \notin candidates
    <3>1. ss[k] = <<>>
      BY <1>3, <2>2
    <3>2. <<>> \in Seq(T) /\ ToSet(<<>>) = {}
      BY DEF ToSet
    <3> QED
      BY <2>2, <3>1, <3>2
  <2> QED
    BY <2>1, <2>2
<1>6. ss \in Seq(Seq(T)) /\ DOMAIN ss = DOMAIN list
  <2>1. ss \in [1..Len(list) -> Seq(T)]
    BY <1>3, <1>4, <1>5
  <2> QED
    BY <1>4, <2>1
<1>7. PairsOf(s) = FlattenSeq(ss)
  BY <1>2, <1>3 DEF PairsOf
<1>8. ToSet(FlattenSeq(ss)) = UNION {ToSet(ss[k]) : k \in DOMAIN ss} /\ FlattenSeq(ss) \in Seq(T)
  BY <1>6, Flattened
<1>9. UNION {ToSet(ss[k]) : k \in DOMAIN ss} = {<<s, g>> : g \in ToSet(list) \intersect candidates}
  <2>1. ToSet(list) = {list[k] : k \in DOMAIN list}
    BY DEF ToSet
  <2>2. ASSUME NEW pair PROVE /\ (\E k \in DOMAIN ss : pair \in ToSet(ss[k]))
                                 => \E k \in DOMAIN list : list[k] \in candidates /\ pair = <<s, list[k]>>
                              /\ (\E k \in DOMAIN list : list[k] \in candidates /\ pair = <<s, list[k]>>)
                                 => \E k \in DOMAIN ss : pair \in ToSet(ss[k])
    BY ONLY <1>5, <1>6
  <2> QED
    BY ONLY <2>1, <2>2
<1> QED
  BY <1>1, <1>2, <1>7, <1>8, <1>9

\* All seeds, each as often as rules match it.
LEMMA Added ==
  ASSUME RetrieveTypeOK, NEW added, added = FlattenSeq([n \in DOMAIN Rules |-> seeds[Rules[n]]])
  PROVE  added \in Seq(candidates) /\ ToSet(added) = Seeds
<1>1. Rules \in Seq(RuleIds)
  BY RetrievalAssumption
<1>2. PICK ss : ss = [n \in DOMAIN Rules |-> seeds[Rules[n]]]
  OBVIOUS
<1>3. DOMAIN Rules = 1..Len(Rules) /\ Len(Rules) \in Nat /\ \A n \in DOMAIN Rules : Rules[n] \in RuleIds
  BY <1>1
<1>4. \A n \in DOMAIN Rules : ss[n] = seeds[Rules[n]] /\ seeds[Rules[n]] \in Seq(candidates)
  <2>1. Read \subseteq candidates
    BY DEF Read
  <2>2. ASSUME NEW list, list \in Seq(Read) PROVE list \in Seq(candidates)
    BY <2>1, <2>2
  <2>3. \A r \in RuleIds : seeds[r] \in Seq(Read)
    BY DEF RetrieveTypeOK
  <2> QED
    BY <1>2, <1>3, <2>2, <2>3
<1>5. ss \in Seq(Seq(candidates)) /\ DOMAIN ss = DOMAIN Rules
  <2>1. ss \in [1..Len(Rules) -> Seq(candidates)]
    BY <1>2, <1>3, <1>4
  <2> QED
    BY <1>3, <2>1
<1>6. added = FlattenSeq(ss)
  BY <1>2
<1>7. added \in Seq(candidates) /\ ToSet(added) = UNION {ToSet(ss[n]) : n \in DOMAIN ss}
  BY <1>5, <1>6, Flattened
<1>8. UNION {ToSet(ss[n]) : n \in DOMAIN ss} = UNION {ToSet(seeds[r]) : r \in RuleIds}
  <2>1. RuleIds = {Rules[n] : n \in DOMAIN Rules}
    BY DEF RuleIds, ToSet
  <2>2. \A n \in DOMAIN Rules : ToSet(ss[n]) = ToSet(seeds[Rules[n]])
    BY <1>4
  <2> QED
    BY ONLY <1>5, <2>1, <2>2
<1> QED
  BY <1>7, <1>8 DEF Seeds

\* Once all seeds were looked up, the pairs are the links.
LEMMA AdjacencyIsLinks ==
  ASSUME RetrieveTypeOK, AncestorsInv, Seeds = DOMAIN ancestors
  PROVE  Adjacency \in Seq(Paths \X Paths) /\ ToSet(Adjacency) = Linked
<1>1. PICK T : T = candidates \X candidates
  OBVIOUS
<1>2. PICK added : added = FlattenSeq([n \in DOMAIN Rules |-> seeds[Rules[n]]])
  OBVIOUS
<1>3. added \in Seq(candidates) /\ ToSet(added) = Seeds
  BY <1>2, Added
<1>4. Len(added) \in Nat /\ DOMAIN added = 1..Len(added) /\ \A n \in DOMAIN added : added[n] \in candidates
  BY <1>3
<1> DEFINE Again(n) == \E m \in 1..(n - 1) : added[m] = added[n]
<1>5. PICK ss : ss = [n \in DOMAIN added |-> IF Again(n) THEN <<>> ELSE PairsOf(added[n])]
  OBVIOUS
<1>6. Adjacency = FlattenSeq(ss)
  BY <1>2, <1>5 DEF Adjacency
<1>7. ASSUME NEW n \in DOMAIN added
      PROVE  /\ added[n] \in candidates /\ added[n] \in DOMAIN ancestors
             /\ PairsOf(added[n]) \in Seq(T)
             /\ ToSet(PairsOf(added[n]))
                  = {<<added[n], g>> : g \in ToSet(ancestors[added[n]]) \intersect candidates}
  <2>1. added[n] \in candidates /\ added[n] \in DOMAIN ancestors
    BY <1>3, <1>4 DEF ToSet
  <2>2. ancestors[added[n]] \in Seq(Paths)
    BY <2>1 DEF AncestorsInv
  <2> QED
    BY <1>1, <2>1, <2>2, Pairs
<1>8. ASSUME NEW n \in DOMAIN added
      PROVE  ss[n] \in Seq(T) /\ ToSet(ss[n]) = IF Again(n) THEN {} ELSE ToSet(PairsOf(added[n]))
  <2>1. <<>> \in Seq(T) /\ ToSet(<<>>) = {}
    BY DEF ToSet
  <2>2. ss[n] = IF Again(n) THEN <<>> ELSE PairsOf(added[n])
    BY <1>5
  <2> QED
    BY <1>7, <2>1, <2>2
<1>9. ss \in Seq(Seq(T)) /\ DOMAIN ss = DOMAIN added
  <2>1. ss \in [1..Len(added) -> Seq(T)]
    BY <1>4, <1>5, <1>8
  <2> QED
    BY <1>4, <2>1
<1>10. Adjacency \in Seq(T) /\ ToSet(Adjacency) = UNION {ToSet(ss[n]) : n \in DOMAIN ss}
  BY <1>6, <1>9, Flattened
<1>11. ASSUME NEW pair PROVE pair \in ToSet(Adjacency) <=> pair \in Linked
  <2>1. ASSUME pair \in ToSet(Adjacency) PROVE pair \in Linked
    <3>1. PICK n \in DOMAIN added : pair \in ToSet(PairsOf(added[n]))
      <4>1. PICK n \in DOMAIN added : pair \in ToSet(ss[n])
        BY ONLY <1>9, <1>10, <2>1
      <4> QED
        BY <1>8, <4>1
    <3> QED
      BY <1>7, <3>1 DEF Linked
  <2>2. ASSUME pair \in Linked PROVE pair \in ToSet(Adjacency)
    <3>1. PICK s, g : /\ pair = <<s, g>> /\ s \in candidates /\ g \in candidates
                      /\ s \in DOMAIN ancestors /\ g \in ToSet(ancestors[s])
      BY <2>2 DEF Linked
    <3>2. PICK k \in DOMAIN added : added[k] = s
      BY <1>3, <3>1 DEF ToSet
    <3>3. PICK n \in DOMAIN added : added[n] = added[k] /\ \A m \in 1..(n - 1) : added[m] # added[n]
      <4>1. PICK N \in Nat : N = Len(added)
        BY <1>4
      <4>2. DOMAIN added = 1..N
        BY ONLY <1>4, <4>1
      <4>3. PICK l \in 1..N : l = k
        BY ONLY <4>2, k \in DOMAIN added
      <4>4. \E n \in 1..N : added[n] = added[l] /\ \A m \in 1..(n - 1) : added[m] # added[n]
        BY ONLY FirstPlace
      <4> QED
        BY ONLY <4>2, <4>3, <4>4
    <3>4. ~Again(n) /\ pair \in ToSet(PairsOf(added[n]))
      BY <1>7, <3>1, <3>2, <3>3
    <3> QED
      BY <1>8, <1>9, <1>10, <3>4
  <2> QED
    BY <2>1, <2>2
<1>12. Adjacency \in Seq(Paths \X Paths)
  <2>1. T \subseteq Paths \X Paths
    BY <1>1, IndexAssumption DEF RetrieveTypeOK
  <2>2. ASSUME NEW list, list \in Seq(T) PROVE list \in Seq(Paths \X Paths)
    BY <2>1, <2>2
  <2> QED
    BY <1>10, <2>2
<1> QED
  BY <1>11, <1>12

\* The answer, of the chunks and what the files are attributed to.
Batch(of, chunk) == [files |-> chunk, rules |-> UNION {of[f] : f \in chunk}]

\* The links, as the list that the forest and the attribution go through.
LEMMA LinksAreListed ==
  ASSUME RetrieveTypeOK, AncestorsInv, Seeds = DOMAIN ancestors
  PROVE  \E N \in Nat : /\ N = Len(Adjacency) /\ \A n \in 1..N : Adjacency[n] \in Paths \X Paths
                        /\ Linked = {Adjacency[n] : n \in 1..N}
<1>1. Adjacency \in Seq(Paths \X Paths) /\ ToSet(Adjacency) = Linked
  BY AdjacencyIsLinks
<1>2. PICK list : list = Adjacency
  OBVIOUS
<1>3. Len(list) \in Nat /\ DOMAIN list = 1..Len(list) /\ \A n \in 1..Len(list) : list[n] \in Paths \X Paths
  BY <1>1, <1>2
<1>4. ToSet(list) = {list[n] : n \in 1..Len(list)}
  BY <1>3 DEF ToSet
<1>5. PICK N \in Nat : N = Len(list)
  BY <1>3
<1>6. \A n \in 1..N : list[n] \in Paths \X Paths
  BY ONLY <1>3, <1>5
<1>7. Linked = {list[n] : n \in 1..N}
  BY ONLY <1>1, <1>2, <1>4, <1>5
<1> QED
  BY ONLY <1>2, <1>5, <1>6, <1>7

\* Two files have the same root if no set that the links leave whole tells them apart.
LEMMA RootsAreJoined ==
  ASSUME RetrieveTypeOK, AncestorsInv, Seeds = DOMAIN ancestors
  PROVE  \E root \in [Paths -> Paths] :
           /\ \A f \in Paths : Root(Forest(Adjacency), f) = root[f]
           /\ \A f, g \in Paths : root[f] = root[g] <=> Joined(f, g)
<1>1. PICK N \in Nat : /\ N = Len(Adjacency) /\ \A n \in 1..N : Adjacency[n] \in Paths \X Paths
                       /\ Linked = {Adjacency[n] : n \in 1..N}
  BY LinksAreListed
<1>2. PICK list : list = Adjacency
  OBVIOUS
<1>3. /\ N = Len(list) /\ \A n \in 1..N : list[n] \in Paths \X Paths
      /\ Linked = {list[n] : n \in 1..N}
  BY ONLY <1>1, <1>2
<1>4. PICK root \in [Paths -> Paths] :
        /\ \A f \in Paths : Root(Forest(list), f) = root[f]
        /\ \A n \in 1..N : root[list[n][1]] = root[list[n][2]]
        /\ \A S \in SUBSET Paths : (\A n \in 1..N : list[n][1] \in S <=> list[n][2] \in S)
             => \A f \in Paths : f \in S <=> root[f] \in S
  BY ONLY <1>3, N \in Nat, ForestIsRight
<1>5. \A S \in Undivided : S \in SUBSET Paths /\ \A f \in Paths : f \in S <=> root[f] \in S
  <2>1. \A S \in Undivided : S \in SUBSET Paths /\ \A n \in 1..N : list[n][1] \in S <=> list[n][2] \in S
    BY <1>3 DEF Undivided
  <2> QED
    BY <1>4, <2>1
<1>6. ASSUME NEW f \in Paths, NEW g \in Paths, root[f] = root[g] PROVE Joined(f, g)
  BY <1>5, <1>6 DEF Joined
<1>7. ASSUME NEW f \in Paths, NEW g \in Paths, Joined(f, g) PROVE root[f] = root[g]
  <2> DEFINE S == {h \in Paths : root[h] = root[f]}
  <2>1. ASSUME NEW pair \in Linked PROVE pair[1] \in S <=> pair[2] \in S
    <3>1. PICK n \in 1..N : pair = list[n]
      BY <1>3
    <3>2. pair[1] \in Paths /\ pair[2] \in Paths
      BY <1>3, <3>1
    <3> QED
      BY <1>4, <3>1, <3>2
  <2>2. S \in Undivided
    BY <2>1 DEF Undivided
  <2>3. f \in S
    OBVIOUS
  <2> HIDE DEF S
  <2>4. g \in S
    BY <1>7, <2>2, <2>3 DEF Joined
  <2> QED
    BY <2>4 DEF S
<1> QED
  BY <1>2, <1>4, <1>6, <1>7

\* The files that are seeds or linked to one.
LEMMA ImpactedFiles ==
  ASSUME RetrieveTypeOK, AncestorsInv, Seeds = DOMAIN ancestors
  PROVE  /\ Impacted = Seeds \union {pair[2] : pair \in Linked}
         /\ Impacted \subseteq Paths
<1>1. Impacted = Seeds \union {pair[2] : pair \in Linked}
  BY AdjacencyIsLinks DEF Impacted
<1>2. candidates \subseteq Paths
  BY IndexAssumption DEF RetrieveTypeOK
<1>3. Seeds \subseteq candidates
  <2>1. ASSUME NEW r \in RuleIds PROVE ToSet(seeds[r]) \subseteq candidates
    <3>1. seeds[r] \in Seq(Read) /\ Read \subseteq candidates
      BY DEF RetrieveTypeOK, Read
    <3> QED
      BY <3>1 DEF ToSet
  <2> QED
    BY <2>1 DEF Seeds
<1>4. \A pair \in Linked : pair[2] \in candidates
  BY DEF Linked
<1> QED
  BY <1>1, <1>2, <1>3, <1>4

\* The components are the classes of files that are joined.
LEMMA ComponentsAreClasses ==
  ASSUME RetrieveTypeOK, AncestorsInv, Seeds = DOMAIN ancestors
  PROVE  /\ \A C \in Components : C \subseteq Impacted /\ \A f, g \in C : Joined(f, g)
         /\ \A f \in Impacted : \E C \in Components : f \in C
         /\ \A C, D \in Components : (\E f \in C, g \in D : Joined(f, g)) => C = D
<1>1. PICK root \in [Paths -> Paths] :
        /\ \A f \in Paths : Root(Forest(Adjacency), f) = root[f]
        /\ \A f, g \in Paths : root[f] = root[g] <=> Joined(f, g)
  BY RootsAreJoined
<1>2. Impacted \subseteq Paths
  BY ImpactedFiles
<1>3. PICK impacted : impacted = Impacted
  OBVIOUS
<1>4. PICK of : of = [f \in impacted |-> Root(Forest(Adjacency), f)]
  OBVIOUS
<1>5. \A f \in impacted : of[f] = root[f]
  BY <1>1, <1>2, <1>3, <1>4
<1>6. Components = {{g \in impacted : of[g] = of[f]} : f \in impacted}
  BY <1>3, <1>4 DEF Components
<1>7. ASSUME NEW C \in Components
      PROVE  \E f \in impacted : C = {g \in impacted : root[g] = root[f]}
  BY ONLY <1>5, <1>6, C \in Components
<1>8. ASSUME NEW C \in Components PROVE C \subseteq Impacted /\ \A f, g \in C : Joined(f, g)
  <2>1. PICK f \in impacted : C = {g \in impacted : root[g] = root[f]}
    BY <1>7
  <2> QED
    BY <1>1, <1>2, <1>3, <2>1
<1>9. ASSUME NEW f \in Impacted PROVE \E C \in Components : f \in C
  <2>1. {g \in impacted : of[g] = of[f]} \in Components /\ f \in {g \in impacted : of[g] = of[f]}
    BY ONLY <1>3, <1>6, f \in Impacted
  <2> QED
    BY ONLY <2>1
<1>10. ASSUME NEW C \in Components, NEW D \in Components, NEW f \in C, NEW g \in D, Joined(f, g)
       PROVE  C = D
  <2>1. PICK c \in impacted : C = {h \in impacted : root[h] = root[c]}
    BY <1>7
  <2>2. PICK d \in impacted : D = {h \in impacted : root[h] = root[d]}
    BY <1>7
  <2>3. root[f] = root[g]
    BY <1>1, <1>2, <1>3, <1>8, <1>10
  <2>4. root[c] = root[d]
    BY ONLY <2>1, <2>2, <2>3, f \in C, g \in D
  <2> QED
    BY ONLY <2>1, <2>2, <2>4
<1> QED
  BY <1>8, <1>9, <1>10

\* The batches that are made are coherent.
LEMMA MadeBatches ==
  ASSUME RetrieveTypeOK, SeedsInv, AncestorsInv, Seeds = DOMAIN ancestors, NEW B,
         B = {Batch(Attributed(Adjacency), chunk) : chunk \in UNION {Chunks(C) : C \in Components}}
  PROVE  Coherent(B)
<1>1. PICK of : of = Attributed(Adjacency)
  OBVIOUS
<1>2. PICK Cs : Cs = Components
  OBVIOUS
<1>3. /\ \A C \in Cs : C \subseteq Impacted /\ C \subseteq Paths /\ \A f, g \in C : Joined(f, g)
      /\ \A f \in Impacted : \E C \in Cs : f \in C
      /\ \A C, D \in Cs : (\E f \in C, g \in D : Joined(f, g)) => C = D
  BY <1>2, ComponentsAreClasses, ImpactedFiles
<1>4. \A b \in B : /\ b.rules = UNION {of[f] : f \in b.files}
                   /\ \E C \in Cs : b.files \in Chunks(C)
  BY <1>1, <1>2 DEF Batch
<1>5. ASSUME NEW C \in Cs, NEW K \in Chunks(C) PROVE Batch(of, K) \in B /\ Batch(of, K).files = K
  BY <1>1, <1>2 DEF Batch
<1>6. \A b, c \in B : b.files = c.files => b = c
  <2>1. \A b \in B : \E K : b = Batch(of, K)
    BY <1>1
  <2>2. \A K : Batch(of, K).files = K
    BY DEF Batch
  <2> QED
    BY ONLY <2>1, <2>2
<1>7. ASSUME NEW b \in B, NEW c \in B, b # c, NEW f \in b.files, NEW g \in c.files, Joined(f, g)
      PROVE  (Sliced(b.files, c.files) \/ Sliced(c.files, b.files)) /\ b.files \intersect c.files = {}
  <2>1. PICK C \in Cs : b.files \in Chunks(C)
    BY <1>4
  <2>2. PICK D \in Cs : c.files \in Chunks(D)
    BY <1>4
  <2>3. f \in C /\ g \in D
    BY <1>3, <2>1, <2>2, ChunksOfComponent
  <2>4. C = D
    BY <1>3, <1>7, <2>3
  <2>5. b.files # c.files
    BY <1>6, <1>7
  <2> QED
    BY <1>3, <2>1, <2>2, <2>4, <2>5, ChunksOfComponent
<1>8. ASSUME NEW f \in Impacted PROVE Cardinality({b \in B : f \in b.files}) = 1
  <2>1. PICK C \in Cs : f \in C
    BY <1>3
  <2>2. PICK K \in Chunks(C) : f \in K
    BY <1>3, <2>1, ChunksOfComponent
  <2>3. Batch(of, K) \in B /\ f \in Batch(of, K).files
    BY <1>5, <2>2
  <2>4. Joined(f, f)
    BY DEF Joined
  <2>5. {b \in B : f \in b.files} = {Batch(of, K)}
    BY <1>7, <2>3, <2>4
  <2> QED
    BY <2>5, FS_Singleton
<1>9. ASSUME NEW b \in B
      PROVE  /\ b.files \subseteq Impacted /\ Cardinality(b.files) <= MaxBatchSize
             /\ \A f, g \in b.files : Joined(f, g)
  <2>1. PICK C \in Cs : b.files \in Chunks(C)
    BY <1>4
  <2>2. b.files \subseteq C /\ Cardinality(b.files) <= MaxBatchSize
    BY <1>3, <2>1, ChunksOfComponent
  <2> QED
    BY <1>3, <2>2
<1>10. ASSUME NEW b \in B, NEW r \in b.rules
       PROVE  \E f \in ToSet(seeds[r]), g \in b.files : Joined(f, g)
  <2>1. PICK N \in Nat : /\ N = Len(Adjacency) /\ \A n \in 1..N : Adjacency[n] \in Paths \X Paths
                         /\ Linked = {Adjacency[n] : n \in 1..N}
    BY LinksAreListed
  <2>2. PICK h \in b.files : r \in of[h]
    BY <1>4
  <2>3. h \in Paths
    BY <1>9, ImpactedFiles
  <2>4. ruleIdsByFile \in [Paths -> SUBSET RuleIds]
    BY DEF RetrieveTypeOK
  <2>5. /\ of \in [Paths -> SUBSET RuleIds]
        /\ \A f \in Paths, s \in RuleIds : s \in of[f] =>
             \E g \in Paths :
               /\ s \in ruleIdsByFile[g]
               /\ \A S \in SUBSET Paths :
                    (\A n \in 1..N : Adjacency[n][1] \in S <=> Adjacency[n][2] \in S)
                      => (f \in S <=> g \in S)
    BY ONLY <1>1, <2>1, <2>4, N \in Nat, HandedDown
  <2>6. r \in RuleIds
    BY <2>2, <2>3, <2>5
  <2>7. PICK g \in Paths :
          /\ r \in ruleIdsByFile[g]
          /\ \A S \in SUBSET Paths :
               (\A n \in 1..N : Adjacency[n][1] \in S <=> Adjacency[n][2] \in S) => (h \in S <=> g \in S)
    BY <2>2, <2>3, <2>5, <2>6
  <2>8. g \in ToSet(seeds[r])
    BY <2>6, <2>7 DEF SeedsInv
  <2>9. Joined(g, h)
    <3>1. ASSUME NEW S \in Undivided PROVE g \in S <=> h \in S
      <4>1. S \in SUBSET Paths /\ \A n \in 1..N : Adjacency[n][1] \in S <=> Adjacency[n][2] \in S
        BY <2>1 DEF Undivided
      <4> QED
        BY <2>7, <4>1
    <3> QED
      BY <3>1 DEF Joined
  <2> QED
    BY <2>8, <2>9
<1> QED
  BY <1>7, <1>8, <1>9, <1>10, ImpactedFiles DEF Coherent

\* So that a seed of a rule, and what it is linked to, is in one that names the rule.
LEMMA CompleteBatches ==
  ASSUME RetrieveTypeOK, SeedsInv, AncestorsInv, Seeds = DOMAIN ancestors, NEW B,
         B = {Batch(Attributed(Adjacency), chunk) : chunk \in UNION {Chunks(C) : C \in Components}}
  PROVE  Complete(B)
<1>1. PICK of : of = Attributed(Adjacency)
  OBVIOUS
<1>2. PICK N \in Nat : /\ N = Len(Adjacency) /\ \A n \in 1..N : Adjacency[n] \in Paths \X Paths
                       /\ Linked = {Adjacency[n] : n \in 1..N}
  BY LinksAreListed
<1>3. /\ \A f \in Paths : ruleIdsByFile[f] \subseteq of[f]
      /\ \A n \in 1..N : ruleIdsByFile[Adjacency[n][1]] \subseteq of[Adjacency[n][2]]
  <2>1. ruleIdsByFile \in [Paths -> SUBSET RuleIds]
    BY DEF RetrieveTypeOK
  <2> QED
    BY ONLY <1>1, <1>2, <2>1, N \in Nat, HandedDown
<1>4. ASSUME NEW f \in Impacted, NEW r \in of[f] PROVE f \in Named(B, r)
  <2>1. PICK C \in Components : f \in C /\ C \subseteq Paths
    BY ComponentsAreClasses, ImpactedFiles
  <2>2. PICK K \in Chunks(C) : f \in K
    BY <2>1, ChunksOfComponent
  <2>3. Batch(of, K) \in B
    BY <1>1, <2>2
  <2>4. f \in Batch(of, K).files /\ r \in Batch(of, K).rules
    BY <2>2 DEF Batch
  <2> QED
    BY ONLY <2>3, <2>4 DEF Named
<1> SUFFICES ASSUME NEW r \in RuleIds, NEW f \in ToSet(seeds[r])
             PROVE  /\ f \in Named(B, r)
                    /\ \A g \in Paths : <<f, g>> \in Linked => g \in Named(B, r)
  BY DEF Complete
<1>5. f \in Impacted /\ f \in Paths /\ r \in ruleIdsByFile[f]
  <2>1. f \in Impacted
    BY ImpactedFiles DEF Seeds
  <2>2. f \in Paths
    BY <2>1, ImpactedFiles
  <2> QED
    BY <2>1, <2>2 DEF SeedsInv
<1>6. ASSUME NEW g \in Paths, <<f, g>> \in Linked PROVE g \in Named(B, r)
  <2>1. PICK n \in 1..N : Adjacency[n] = <<f, g>>
    BY <1>2, <1>6
  <2>2. r \in of[g]
    BY <1>3, <1>5, <2>1
  <2>3. g \in Impacted
    BY <1>6, ImpactedFiles
  <2> QED
    BY <1>4, <2>2, <2>3
<1> QED
  BY <1>3, <1>4, <1>5, <1>6

--------------------------------------------------------------------------------
(* Proofs: what was looked up, and the answer.                              *)

\* Rows of others do not reach the files of a graph: the importers are those of the graph.
LEMMA SameImporters ==
  ASSUME NEW D \in SUBSET Paths, NEW P \in SUBSET D, NEW E \in SUBSET (P \X D), NEW G,
         E \subseteq G, \A e \in G : e[2] \in D => e \in E, NEW f \in D
  PROVE  Importers(f, G) = Importers(f, E) /\ Importers(f, E) \subseteq P
<1> DEFINE Closed(S, graph) == \A e \in graph : e[2] \in S \union {f} => e[1] \in S
<1>1. \A graph : \A g \in Paths : g \in Importers(f, graph) <=>
                   \A S \in SUBSET Paths : Closed(S, graph) => g \in S
  BY Zenon DEF Importers
<1>2. \A graph : Importers(f, graph) \subseteq Paths
  BY ImportersArePaths
<1>3. ASSUME NEW S \in SUBSET Paths, Closed(S, G) PROVE Closed(S, E)
  BY <1>3
<1>4. ASSUME NEW S \in SUBSET Paths, Closed(S, E) PROVE Closed(S \intersect D, G)
  <2> SUFFICES ASSUME NEW e \in G, e[2] \in (S \intersect D) \union {f}
               PROVE  e[1] \in S \intersect D
    OBVIOUS
  <2>1. e \in E
    OBVIOUS
  <2> QED
    BY <1>4, <2>1
<1>5. P \in SUBSET Paths /\ Closed(P, E)
  OBVIOUS
<1> HIDE DEF Closed
<1>6. ASSUME NEW g \in Importers(f, E) PROVE g \in Importers(f, G) /\ g \in P
  BY <1>1, <1>2, <1>3, <1>5
<1>7. ASSUME NEW g \in Importers(f, G) PROVE g \in Importers(f, E)
  <2>1. g \in Paths
    BY <1>2
  <2>2. ASSUME NEW S \in SUBSET Paths, Closed(S, E) PROVE g \in S
    <3>1. S \intersect D \in SUBSET Paths /\ Closed(S \intersect D, G)
      BY <1>4, <2>2
    <3>2. g \in S \intersect D
      BY <1>1, <2>1, <3>1
    <3> QED
      BY <3>2
  <2> QED
    BY <1>1, <2>1, <2>2
<1> QED
  BY <1>6, <1>7

\* Of a file that a finished run has found, the query finds what its edges lead back to.
LEMMA ImportersOfRun ==
  ASSUME IndexInv, NEW i \in Runs, at[i] = "done", NEW f \in found[i]
  PROVE  /\ Importers(f, imports) = Importers(f, edges[i])
         /\ Importers(f, edges[i]) \subseteq parsed[i] /\ parsed[i] \subseteq found[i] \intersect Parseable
<1>1. RunInv(i) /\ OwnImports(i) /\ found[i] \in SUBSET Paths
  BY DEF IndexInv, IndexTypeOK
<1>2. /\ parsed[i] \subseteq found[i] \intersect Parseable /\ edges[i] \subseteq parsed[i] \X found[i]
      /\ edges[i] \subseteq imports
  BY <1>1 DEF RunInv, HasParsed, HasImports, EdgesOf
<1>3. \A e \in imports : e[2] \in found[i] => e \in edges[i]
  BY <1>1 DEF OwnImports, HasFiles
<1>4. /\ found[i] \in SUBSET Paths /\ parsed[i] \in SUBSET found[i]
      /\ edges[i] \in SUBSET (parsed[i] \X found[i])
  BY <1>1, <1>2
<1>5. Importers(f, imports) = Importers(f, edges[i]) /\ Importers(f, edges[i]) \subseteq parsed[i]
  BY ONLY <1>2, <1>3, <1>4, f \in found[i], SameImporters
<1> QED
  BY <1>2, <1>5

\* What was looked up of the files of a finished run stays what its edges say.
LEMMA ImportersStep ==
  ASSUME IndexInv, RetrieveInv, ImportersInv, [Next]_vars
  PROVE  ImportersInv'
<1>1. \A i \in before : i \in Runs /\ at[i] = "done"
  BY DEF RetrieveInv, LoadInv
<1>2. ASSUME UNCHANGED <<before, ancestors>>,
             \A i \in before : found'[i] = found[i] /\ edges'[i] = edges[i]
      PROVE  ImportersInv'
  <2>1. ASSUME NEW i \in before', NEW g \in DOMAIN ancestors' \intersect found'[i]
        PROVE  /\ ToSet(ancestors'[g]) \subseteq Importers(g, edges'[i])
               /\ Len(ancestors'[g]) = AtMost(Cardinality(Importers(g, edges'[i])), MaxAncestors)
    <3>1. i \in before /\ g \in DOMAIN ancestors \intersect found[i]
      BY <1>2
    <3>2. /\ ToSet(ancestors[g]) \subseteq Importers(g, edges[i])
          /\ Len(ancestors[g]) = AtMost(Cardinality(Importers(g, edges[i])), MaxAncestors)
      BY <3>1 DEF ImportersInv
    <3> QED
      BY ONLY <1>2, <3>1, <3>2
  <2> QED
    BY ONLY <2>1 DEF ImportersInv, Importers
<1>3. ASSUME NEW i \in Runs,
             \/ Walk(i) \/ InsertFiles(i) \/ Parse(i)
             \/ InsertImports(i) \/ InsertSymbols(i) \/ InsertFails(i),
             UNCHANGED <<tree, phase, before, work, batches>>
      PROVE  ImportersInv'
  <2>1. at[i] # "done"
    BY <1>3 DEF Walk, InsertFiles, Parse, InsertImports, InsertSymbols, InsertFails
  <2>2. \A j \in before : found'[j] = found[j] /\ edges'[j] = edges[j]
    BY <1>1, <1>3, <2>1, RunMoves DEF IndexInv
  <2> QED
    BY <1>2, <1>3, <2>2 DEF work
<1>4. CASE LoadFiles
  <2>1. phase = "load" /\ ancestors' = ancestors
    BY <1>4 DEF LoadFiles
  <2>2. DOMAIN ancestors' = {}
    BY <2>1 DEF RetrieveInv, AncestorsInv
  <2> QED
    BY <2>2 DEF ImportersInv
<1>5. ASSUME NEW f \in Paths, Lookup(f), UNCHANGED <<indexVars, tree>> PROVE ImportersInv'
  <2> DEFINE importers == Importers(f, imports)
  <2>1. UNCHANGED <<before, found, edges>>
    BY <1>5 DEF Lookup, indexVars, memory
  <2>2. PICK kept \in SUBSET importers :
          /\ Cardinality(kept) = AtMost(Cardinality(importers), MaxAncestors)
          /\ \E list \in SetToSeqs(kept) :
               ancestors' = [g \in DOMAIN ancestors \union {f} |-> IF g = f THEN list ELSE ancestors[g]]
    BY <1>5 DEF Lookup
  <2>3. PICK list \in SetToSeqs(kept) :
          ancestors' = [g \in DOMAIN ancestors \union {f} |-> IF g = f THEN list ELSE ancestors[g]]
    BY <2>2
  <2>4. Cardinality(kept) \in Nat
    BY <2>2, ImportersArePaths, PathsAreFinite, FS_Subset, FS_CardinalityType
  <2>5. list \in [1..Cardinality(kept) -> kept]
    BY <2>3 DEF SetToSeqs
  <2>6. Len(list) = Cardinality(kept) /\ ToSet(list) \subseteq kept
    <3>1. list \in Seq(kept) /\ Len(list) = Cardinality(kept)
      BY <2>4, <2>5
    <3> QED
      BY <3>1 DEF ToSet
  <2>7. /\ DOMAIN ancestors' = DOMAIN ancestors \union {f}
        /\ \A g \in DOMAIN ancestors \ {f} : ancestors'[g] = ancestors[g]
        /\ ancestors'[f] = list
    BY <2>3
  <2>8. ASSUME NEW i \in before, NEW g \in DOMAIN ancestors' \intersect found[i]
        PROVE  /\ ToSet(ancestors'[g]) \subseteq Importers(g, edges[i])
               /\ Len(ancestors'[g]) = AtMost(Cardinality(Importers(g, edges[i])), MaxAncestors)
    <3>1. CASE g = f
      <4>1. importers = Importers(f, edges[i])
        BY <1>1, <3>1, ImportersOfRun
      <4> QED
        BY <2>2, <2>6, <2>7, <3>1, <4>1
    <3>2. CASE g # f
      BY <2>7, <3>2 DEF ImportersInv
    <3> QED
      BY <3>1, <3>2
  <2>9. \A i \in before' : \A g \in DOMAIN ancestors' \intersect found'[i] :
          /\ ToSet(ancestors'[g]) \subseteq Importers(g, edges'[i])
          /\ Len(ancestors'[g]) = AtMost(Cardinality(Importers(g, edges'[i])), MaxAncestors)
    BY ONLY <2>1, <2>8
  <2> QED
    BY ONLY <2>9 DEF ImportersInv, Importers
<1>6. ASSUME NEW f \in Paths, ReadFile(f), UNCHANGED <<indexVars, tree>> PROVE ImportersInv'
  BY <1>2, <1>6 DEF ReadFile, indexVars, memory
<1>7. CASE (MakeBatches \/ QueryFails \/ UNCHANGED vars) /\ UNCHANGED <<indexVars, tree>>
  BY <1>2, <1>7 DEF MakeBatches, QueryFails, vars, work, indexVars, memory
<1>8. CASE LoseFiles
  BY <1>2, <1>8 DEF LoseFiles, work, indexVars, memory
<1> QED
  BY <1>3, <1>4, <1>5, <1>6, <1>7, <1>8, StepCases

\* What is said of the batches is said of what they were made of.
LEMMA SameAnswer ==
  ASSUME UNCHANGED <<candidates, seeds, ancestors>>
  PROVE  /\ Seeds' = Seeds
         /\ Coherent(batches') => Coherent(batches)'
         /\ Complete(batches') => Complete(batches)'
<1>1. Seeds' = Seeds
  BY DEF Seeds
<1>2. Linked' = Linked
  BY DEF Linked
<1>3. Undivided' = Undivided
  BY <1>2 DEF Undivided
<1>4. ASSUME Coherent(batches') PROVE Coherent(batches)'
  <2>1. \A f, g : Joined(f, g) => Joined(f, g)'
    BY <1>3 DEF Joined
  <2>2. \A f, g : Joined(f, g)' => Joined(f, g)
    BY <1>3 DEF Joined
  <2> QED
    BY <1>1, <1>2, <1>4, <2>1, <2>2 DEF Coherent, Sliced, Place
<1>5. Complete(batches') => Complete(batches)'
  BY <1>2 DEF Complete, Named
<1> QED
  BY <1>1, <1>4, <1>5

\* Once given, the answer stays; before, there is none.
LEMMA AnswerStep ==
  ASSUME RetrieveInv, AnswerInv, [Next]_vars
  PROVE  AnswerInv'
<1>1. ASSUME UNCHANGED <<candidates, seeds, ancestors, batches>>,
             phase' = "done" => phase = "done"
      PROVE  AnswerInv'
  <2>1. Coherent(batches) => Coherent(batches)'
    BY ONLY <1>1, SameAnswer
  <2>2. Complete(batches) => Complete(batches)'
    BY ONLY <1>1, SameAnswer
  <2>3. Seeds' = Seeds
    BY <1>1, SameAnswer
  <2>4. CASE phase' = "done"
    BY <1>1, <2>1, <2>2, <2>3, <2>4 DEF AnswerInv
  <2>5. CASE phase' # "done" /\ phase # "done"
    BY <1>1, <2>5 DEF AnswerInv
  <2>6. phase = "done" => phase' = "done"
    BY StepCases DEF vars, work, LoadFiles, ReadFile, Lookup, MakeBatches, QueryFails, LoseFiles
  <2> QED
    BY <2>4, <2>5, <2>6
<1>2. CASE LoadFiles
  <2>1. /\ phase = "load" /\ UNCHANGED <<seeds, ancestors, batches>>
        /\ phase' = IF candidates' = {} THEN "done" ELSE "read"
    BY <1>2 DEF LoadFiles
  <2>2. batches' = {} /\ DOMAIN ancestors' = {} /\ \A r \in RuleIds : ToSet(seeds'[r]) = {}
    <3>1. batches' = {} /\ DOMAIN ancestors' = {}
      BY <2>1 DEF AnswerInv, RetrieveInv, AncestorsInv
    <3>2. ASSUME NEW r \in RuleIds PROVE ToSet(seeds[r]) = {}
      <4>1. seeds[r] \in Seq({})
        BY <2>1 DEF RetrieveInv, RetrieveTypeOK, LoadInv, Read
      <4> QED
        BY <4>1 DEF ToSet
    <3> QED
      BY <2>1, <3>1, <3>2
  <2>3. Seeds' = {} /\ Linked' = {}
    BY <2>2 DEF Seeds, Linked
  <2>4. Coherent(batches)'
    BY <2>2, <2>3 DEF Coherent
  <2>5. Complete(batches)'
    BY <2>2 DEF Complete
  <2> QED
    BY <2>2, <2>3, <2>4, <2>5 DEF AnswerInv
<1>3. CASE MakeBatches
  <2>1. /\ phase' = "done" /\ Seeds = DOMAIN ancestors /\ UNCHANGED <<candidates, seeds, ancestors>>
        /\ batches' = {Batch(Attributed(Adjacency), chunk) :
                         chunk \in UNION {Chunks(C) : C \in Components}}
    BY <1>3 DEF MakeBatches, Batch, work
  <2>2. RetrieveTypeOK /\ SeedsInv /\ AncestorsInv
    BY DEF RetrieveInv
  <2>3. Coherent(batches')
    BY ONLY <2>1, <2>2, MadeBatches
  <2>4. Complete(batches')
    BY ONLY <2>1, <2>2, CompleteBatches
  <2>5. Seeds' = Seeds /\ Coherent(batches)' /\ Complete(batches)'
    BY ONLY <2>1, <2>3, <2>4, SameAnswer
  <2> QED
    BY <2>1, <2>5 DEF AnswerInv
<1>4. ASSUME NEW f \in Paths, ReadFile(f) PROVE AnswerInv'
  <2>1. phase = "read" /\ phase' # "done" /\ UNCHANGED batches
    BY <1>4 DEF ReadFile
  <2> QED
    BY <2>1 DEF AnswerInv
<1>5. ASSUME NEW f \in Paths, Lookup(f) PROVE AnswerInv'
  <2>1. phase = "expand" /\ phase' # "done" /\ UNCHANGED batches
    BY <1>5 DEF Lookup
  <2> QED
    BY <2>1 DEF AnswerInv
<1>6. CASE QueryFails
  BY <1>1, <1>6 DEF QueryFails, work
<1>7. CASE UNCHANGED <<phase, before, work, batches>>
  BY <1>1, <1>7 DEF work
<1> QED
  BY <1>2, <1>3, <1>4, <1>5, <1>6, <1>7, StepCases DEF LoseFiles, vars

\* The importers of a file by the imports that a run has found are those by its edges.
LEMMA SameGraph ==
  ASSUME IndexInv, NEW i \in Runs, at[i] = "done", \A f \in found[i] : OnDisk(f)
  PROVE  edges[i] = {pair \in parsed[i] \X found[i] :
                       \E spec \in tree[pair[1]].imports : Means(spec, pair[2], found[i])}
<1>1. EdgesOf(i)
  BY DEF IndexInv, RunInv, HasParsed
<1>2. ASSUME NEW f \in parsed[i], NEW g \in found[i]
      PROVE  <<f, g>> \in edges[i] <=> \E spec \in tree[f].imports : Means(spec, g, found[i])
  <2>1. <<f, g>> \in edges[i] <=> <<f, g>> \in ExtractEdges(f, found[i])
    BY <1>1 DEF EdgesOf
  <2>2. <<f, g>> \in ExtractEdges(f, found[i])
          <=> \E spec \in tree[f].imports : g \in Resolve(spec, found[i])
    BY DEF ExtractEdges
  <2>3. \A spec : g \in Resolve(spec, found[i]) <=> Means(spec, g, found[i])
    BY DEF Resolve, Means
  <2> QED
    BY <2>1, <2>2, <2>3
<1> QED
  BY <1>1, <1>2 DEF EdgesOf

--------------------------------------------------------------------------------
(* The inductive invariant.                                                *)

LEMMA InitInv == Init => IInv
<1> SUFFICES ASSUME Init PROVE IInv
  OBVIOUS
<1> USE DEF Init, IndexInit
<1>1. TreeInv
  BY DEF TreeInv
<1>2. IndexTypeOK
  BY <1>1 DEF IndexTypeOK, Labels
<1>3. \A i \in Runs : RunInv(i) /\ OwnImports(i) /\ ~HasFiles(i)
  BY DEF RunInv, OwnImports, HasFiles, HasParsed, HasImports
<1>4. IndexInv
  BY <1>2, <1>3 DEF IndexInv, EdgesJoinIndexedFiles, RunsDoNotMix
<1>5. Read = {}
  BY DEF Read
<1>6. RetrieveTypeOK /\ LoadInv
  BY <1>5 DEF RetrieveTypeOK, LoadInv
<1>7. SeedsInv /\ MatchInv /\ AncestorsInv
  BY <1>5 DEF SeedsInv, MatchInv, AncestorsInv, IsInjective, ToSet
<1>8. ImportersInv /\ AnswerInv
  BY DEF ImportersInv, AnswerInv
<1> QED
  BY <1>4, <1>6, <1>7, <1>8 DEF IInv, RetrieveInv

LEMMA InductiveStep == IInv /\ [Next]_vars => IInv'
BY IndexStepInv, RetrieveStep, ImportersStep, AnswerStep DEF IInv

--------------------------------------------------------------------------------
(* Theorems.                                                                *)

\* Any number of runs of the Indexer, and a call of retrieve beside them.
THEOREM Invariance == Spec => []IInv
<1> QED
  BY InitInv, InductiveStep, PTL DEF Spec

\* An imports row joins two files that have rows, whichever runs of the Indexer failed
\* after which statement (indexer/index.ts, 163-232).
THEOREM ImportsJoinIndexedFiles == Spec => []EdgesJoinIndexedFiles
<1>1. IInv => EdgesJoinIndexedFiles
  BY DEF IInv, IndexInv
<1> QED
  BY <1>1, Invariance, PTL

\* The unique key of (snapshot, path) keeps runs apart: no two of them both write what
\* follows from a file, so that its edges and symbols are of one reading of it.
THEOREM OneRunForAFile == Spec => []RunsDoNotMix
<1>1. IInv => RunsDoNotMix
  BY DEF IInv, IndexInv
<1> QED
  BY <1>1, Invariance, PTL

\* What a finished run found is in the index, with the edges and symbols it stands for,
\* whatever other runs did to the same tables meanwhile.
THEOREM WholeIndex == Spec => []IndexOfFinishedRuns
<1>1. IInv => IndexOfFinishedRuns
  <2>1. SUFFICES ASSUME IInv, NEW i \in Runs, at[i] = "done"
                 PROVE  /\ found[i] \subseteq files /\ found[i] \intersect Parseable \subseteq symbols
                        /\ \A f \in parsed[i] : OnDisk(f) =>
                             \A spec \in tree[f].imports, g \in Paths :
                               Means(spec, g, found[i]) => <<f, g>> \in imports
    BY DEF IndexOfFinishedRuns
  <2>2. RunInv(i)
    BY <2>1 DEF IInv, IndexInv
  <2>3. ASSUME NEW f \in parsed[i], OnDisk(f), NEW spec \in tree[f].imports, NEW g \in Paths,
               Means(spec, g, found[i])
        PROVE  <<f, g>> \in imports
    <3>1. g \in Resolve(spec, found[i])
      BY <2>3 DEF Means, Resolve
    <3>2. <<f, g>> \in ExtractEdges(f, found[i])
      BY <2>3, <3>1 DEF ExtractEdges
    <3> QED
      BY <2>1, <2>2, <2>3, <3>2 DEF RunInv, HasParsed, HasImports, EdgesOf
  <2> QED
    BY <2>1, <2>2, <2>3 DEF RunInv, HasFiles
<1> QED
  BY <1>1, Invariance, PTL

\* Retrieve reads the files in any order, while the Indexer goes on: a file of a run
\* that was finished when it began is a seed of exactly the rules that match it
\* (retrieval/index.ts, 236-262).
THEOREM MatchesAreSeeds == Spec => []SeedsAreTheMatches
<1>1. IInv => SeedsAreTheMatches
  <2>1. SUFFICES ASSUME IInv, phase \in {"expand", "done"}, NEW i \in before,
                        NEW f \in (found[i] \intersect Parseable) \ missed, OnDisk(f),
                        NEW r \in RuleIds
                 PROVE  f \in ToSet(seeds[r]) <=> tree[f].match[r] > 0
    BY DEF SeedsAreTheMatches
  <2>2. f \in Read
    BY <2>1 DEF IInv, RetrieveInv, LoadInv, Read
  <2>3. f \in Paths
    BY <2>1, <2>2 DEF IInv, IndexInv, IndexTypeOK, RetrieveInv, RetrieveTypeOK, Read
  <2>4. f \in ToSet(seeds[r]) <=> r \in ruleIdsByFile[f]
    BY <2>1, <2>3 DEF IInv, RetrieveInv, SeedsInv
  <2>5. r \in ruleIdsByFile[f] <=> tree[f].match[r] > 0
    BY <2>1, <2>2 DEF IInv, RetrieveInv, MatchInv
  <2> QED
    BY <2>4, <2>5
<1> QED
  BY <1>1, Invariance, PTL

\* Whatever the order of the answers and of the rows, and whichever importers are kept:
\* union-find, hand-down and slices make batches that each impacted file is in exactly
\* one of, that hang together, that are full but for the last of a component, and that
\* name no rule without a match in their component (retrieval/index.ts, 91-120 and 287-418).
THEOREM CoherentBatches == Spec => []BatchesAreCoherent
<1>1. IInv => BatchesAreCoherent
  BY DEF IInv, AnswerInv, Coherent, Joined, BatchesAreCoherent
<1> QED
  BY <1>1, Invariance, PTL

\* No file that matches a rule is missed, nor those that import it, up to the bound, if a
\* run of the Indexer was finished when retrieve began (retrieval/index.ts, 222-418).
THEOREM NothingMissed == Spec => []NothingAffectedIsMissed
<1>1. IInv /\ SeedsAreTheMatches => NothingAffectedIsMissed
  <2> SUFFICES ASSUME IInv, SeedsAreTheMatches, NEW i \in before, phase = "done",
                      \A f \in found[i] : OnDisk(f),
                      NEW f \in (found[i] \intersect Parseable) \ missed, NEW r \in RuleIds,
                      tree[f].match[r] > 0
               PROVE  LET graph == {pair \in parsed[i] \X found[i] :
                                      \E spec \in tree[pair[1]].imports : Means(spec, pair[2], found[i])}
                          importers == Importers(f, graph)
                      IN  /\ f \in Named(batches, r)
                          /\ Cardinality(importers \intersect Named(batches, r)) >=
                               AtMost(Cardinality(importers), MaxAncestors)
    BY DEF NothingAffectedIsMissed, Named
  <2>1. IndexInv /\ RetrieveInv /\ ImportersInv /\ AnswerInv
    BY DEF IInv
  <2>2. i \in Runs /\ at[i] = "done" /\ found[i] \intersect Parseable \subseteq candidates
    BY <2>1 DEF RetrieveInv, LoadInv
  <2> DEFINE graph == {pair \in parsed[i] \X found[i] :
                         \E spec \in tree[pair[1]].imports : Means(spec, pair[2], found[i])}
  <2>3. graph = edges[i]
    BY <2>1, <2>2, SameGraph
  <2> HIDE DEF graph
  <2>4. PICK importers : importers = Importers(f, edges[i])
    OBVIOUS
  <2>5. importers \subseteq candidates /\ importers \subseteq Paths
    BY <2>1, <2>2, <2>4, ImportersOfRun, IndexAssumption
  <2>6. f \in ToSet(seeds[r])
    BY <2>2 DEF SeedsAreTheMatches
  <2>7. Complete(batches) /\ Seeds = DOMAIN ancestors
    BY <2>1 DEF AnswerInv
  <2>8. f \in DOMAIN ancestors /\ f \in candidates
    BY <2>2, <2>6, <2>7 DEF Seeds
  <2>9. /\ ToSet(ancestors[f]) \subseteq importers
        /\ Len(ancestors[f]) = AtMost(Cardinality(importers), MaxAncestors)
    BY <2>1, <2>4, <2>8 DEF ImportersInv
  <2>10. f \in Named(batches, r) /\ ToSet(ancestors[f]) \subseteq Named(batches, r)
    <3>1. ASSUME NEW g \in ToSet(ancestors[f]) PROVE <<f, g>> \in Linked /\ g \in Paths
      BY <2>5, <2>8, <2>9 DEF Linked
    <3> QED
      BY <2>6, <2>7, <3>1 DEF Complete
  <2>11. PICK kept : kept = ToSet(ancestors[f])
    OBVIOUS
  <2>12. Cardinality(kept) = Len(ancestors[f])
    <3>1. PICK list : list = ancestors[f]
      OBVIOUS
    <3>2. list \in Seq(Paths) /\ IsInjective(list)
      BY <2>1, <2>8, <3>1 DEF RetrieveInv, AncestorsInv
    <3>3. Len(list) \in Nat /\ DOMAIN list = 1..Len(list) /\ list \in [1..Len(list) -> Paths]
      BY <3>2
    <3>4. kept = {list[n] : n \in 1..Len(list)}
      BY <2>11, <3>1, <3>3 DEF ToSet
    <3>5. \A m, n \in 1..Len(list) : list[m] = list[n] => m = n
      BY <3>2, <3>3 DEF IsInjective
    <3>6. list \in Bijection(1..Len(list), kept)
      <4>1. list \in [1..Len(list) -> kept]
        BY <3>3, <3>4
      <4>2. \A x \in kept : \E n \in 1..Len(list) : list[n] = x
        BY <3>4
      <4> QED
        BY ONLY <3>5, <4>1, <4>2 DEF Bijection, Injection, Surjection, IsInjective
    <3> QED
      <4>1. ExistsBijection(1..Len(list), kept) /\ Len(list) \in Nat
        BY <3>3, <3>6 DEF ExistsBijection
      <4> QED
        BY ONLY <3>1, <4>1, FS_CountingElements
  <2>13. PICK both : both = importers \intersect Named(batches, r)
    OBVIOUS
  <2>14. kept \subseteq both /\ IsFiniteSet(both)
    BY <2>5, <2>9, <2>10, <2>11, <2>13, PathsAreFinite, FS_Subset
  <2>15. Cardinality(kept) <= Cardinality(both) /\ Cardinality(both) \in Nat /\ Cardinality(kept) \in Nat
    BY <2>14, FS_Subset, FS_CardinalityType
  <2>16. Cardinality(both) >= AtMost(Cardinality(importers), MaxAncestors)
    BY <2>9, <2>12, <2>15
  <2> QED
    BY <2>3, <2>4, <2>10, <2>13, <2>16 DEF graph
<1> QED
  BY <1>1, Invariance, MatchesAreSeeds, PTL

================================================================================
