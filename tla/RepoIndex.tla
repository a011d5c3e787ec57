------------------------------- MODULE RepoIndex --------------------------------
(***************************************************************************)
(* The Indexer: it walks a cloned working tree, inserts a row for each file *)
(* and, from the files it can parse, the import edges and the symbols of a  *)
(* snapshot.                                                                *)
(*                                                                          *)
(* There is one snapshot, and a file row is known by its path. Runs are the *)
(* calls of index: a step of a workflow and its retries, the MCP tool,      *)
(* several at once. Each SQL statement commits by itself, and one that is   *)
(* reported to fail may have been carried out. What a run does between two  *)
(* awaits is one step.                                                      *)
(***************************************************************************)
EXTENDS Integers, Sequences, FiniteSets, SequencesExt

CONSTANTS
  Paths,         \* repo-relative paths
  Parseable,     \* those with the extension of a TypeScript or JavaScript file
  Excluded,      \* those below a directory that is never indexed
  Specs,         \* relative module specifiers, and from where
  Tried,         \* the paths a specifier is tried as, in order
  Trees,         \* bound: the trees considered, functions from paths to files
  Runs,          \* bound: the runs of the Indexer there may be
  MaxFaults      \* bound: files lost or unreadable, statements that fail

ASSUME IndexAssumption ==
  /\ Parseable \subseteq Paths /\ Excluded \subseteq Paths
  /\ Tried \in [Specs -> Seq(Paths)]
  /\ \A t \in Trees : DOMAIN t \subseteq Paths /\ \A p \in DOMAIN t : t[p].imports \subseteq Specs
  /\ MaxFaults \in Nat

VARIABLES
  tree,          \* the working tree
  at,            \* what each run does next
  found,         \* the files each run has discovered
  parsed,        \* those whose imports it could extract
  edges,         \* the edges it has extracted: pairs of importer and imported
  files,         \* files rows
  imports,       \* imports rows
  symbols,       \* files that have symbols rows
  faults         \* faults so far

memory == <<found, parsed, edges>>
rows == <<files, imports, symbols>>
indexVars == <<at, memory, rows>>

IndexInit ==
  /\ tree \in Trees
  /\ at = [i \in Runs |-> "walk"]
  /\ found = [i \in Runs |-> {}]
  /\ parsed = [i \in Runs |-> {}]
  /\ edges = [i \in Runs |-> {}]
  /\ files = {} /\ imports = {} /\ symbols = {}
  /\ faults = 0

--------------------------------------------------------------------------------
\* A file of the tree.
OnDisk(p) == p \in DOMAIN tree

\* The clone is deleted, or one of its files.
Lose ==
  /\ faults < MaxFaults /\ faults' = faults + 1
  /\ \E left \in {{}} \union {DOMAIN tree \ {p} : p \in DOMAIN tree} :
       tree' = [p \in left |-> tree[p]]

\* What is too large for the Indexer, or below an excluded directory.
Discoverable(p) == OnDisk(p) /\ p \notin Excluded /\ ~tree[p].large

\* Any of these may fail, one by one, and is then only logged.
Failing(S) == {bad \in SUBSET S : faults + Cardinality(bad) <= MaxFaults}

\* Without its root there is nothing to walk, and readdir throws.
Walk(i) ==
  /\ at[i] = "walk"
  /\ IF DOMAIN tree = {}
     THEN at' = [at EXCEPT ![i] = "failed"] /\ UNCHANGED <<memory, faults>>
     ELSE \E bad \in Failing({p \in Paths : Discoverable(p)}) :
            /\ found' = [found EXCEPT ![i] = {p \in Paths : Discoverable(p)} \ bad]
            /\ faults' = faults + Cardinality(bad)
            /\ at' = [at EXCEPT ![i] = "files"]
            /\ UNCHANGED <<parsed, edges>>
  /\ UNCHANGED <<tree, rows>>

\* The statement was carried out, and its answer arrives or is lost.
Answered(i, next) ==
  \/ at' = [at EXCEPT ![i] = next] /\ UNCHANGED faults
  \/ faults < MaxFaults /\ faults' = faults + 1 /\ at' = [at EXCEPT ![i] = "failed"]

\* Mutant of InsertFiles: rows that are there are passed over (ON CONFLICT DO NOTHING).
InsertFiles_DoNothing(i) ==
  /\ at[i] = "files"
  /\ files' = files \union found[i]
  /\ Answered(i, "parse")
  /\ UNCHANGED <<tree, memory, imports, symbols>>

\* A row of a snapshot and path that has one is refused, and all rows with it.
InsertFiles(i) ==
  /\ at[i] = "files"
  /\ IF found[i] \intersect files = {}
     THEN files' = files \union found[i] /\ Answered(i, "parse")
     ELSE at' = [at EXCEPT ![i] = "failed"] /\ UNCHANGED <<files, faults>>
  /\ UNCHANGED <<tree, memory, imports, symbols>>

--------------------------------------------------------------------------------
\* The file a specifier is resolved to, if any: the first that is known.
Resolve(spec, known) ==
  {Tried[spec][k] : k \in {n \in DOMAIN Tried[spec] :
     Tried[spec][n] \in known /\ \A m \in 1..(n - 1) : Tried[spec][m] \notin known}}

ExtractEdges(f, known) ==
  {<<f, g>> : g \in UNION {Resolve(spec, known) : spec \in tree[f].imports}}

\* All files are loaded first, outside of any try: one that is lost since it was
\* walked makes the run throw. One that cannot be parsed is logged.
Parse(i) ==
  /\ at[i] = "parse"
  /\ LET sources == found[i] \intersect Parseable
     IN IF \E f \in sources : ~OnDisk(f)
        THEN at' = [at EXCEPT ![i] = "failed"] /\ UNCHANGED <<memory, faults>>
        ELSE \E bad \in Failing(sources) :
               /\ parsed' = [parsed EXCEPT ![i] = sources \ bad]
               /\ edges' = [edges EXCEPT ![i] =
                    UNION {ExtractEdges(f, found[i]) : f \in sources \ bad}]
               /\ faults' = faults + Cardinality(bad)
               /\ at' = [at EXCEPT ![i] = "imports"]
               /\ UNCHANGED found
  /\ UNCHANGED <<tree, rows>>

InsertImports(i) ==
  /\ at[i] = "imports"
  /\ imports' = imports \union edges[i]
  /\ Answered(i, "symbols")
  /\ UNCHANGED <<tree, memory, files, symbols>>

\* The symbols of a file are extracted apart from its imports.
InsertSymbols(i) ==
  /\ at[i] = "symbols"
  /\ symbols' = symbols \union (found[i] \intersect Parseable)
  /\ Answered(i, "done")
  /\ UNCHANGED <<tree, memory, files, imports>>

\* A statement that is not carried out.
InsertFails(i) ==
  /\ at[i] \in {"files", "imports", "symbols"}
  /\ faults < MaxFaults /\ faults' = faults + 1
  /\ at' = [at EXCEPT ![i] = "failed"]
  /\ UNCHANGED <<tree, memory, rows>>

IndexStep(i) ==
  \/ Walk(i) \/ InsertFiles(i) \/ Parse(i) \/ InsertImports(i) \/ InsertSymbols(i)
  \/ InsertFails(i)

--------------------------------------------------------------------------------
\* A run whose files rows are in.
HasFiles(i) == at[i] \in {"parse", "imports", "symbols", "done"}

\* The unique key of (snapshot, path) keeps the runs of a snapshot apart, at once or
\* one after the other: none goes on to write edges and symbols of a file that is
\* another's, so that what the index has of a file is of one reading of it.
RunsDoNotMix ==
  \A i, j \in Runs : HasFiles(i) /\ HasFiles(j) /\ i # j => found[i] \intersect found[j] = {}

================================================================================
