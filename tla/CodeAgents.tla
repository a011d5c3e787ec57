------------------------------- MODULE CodeAgents -------------------------------
(***************************************************************************)
(* What the agents that read code make of a model's replies: the Surgeon's  *)
(* migrateBatch, the Examiner's examineBatch and the Q&A agent's ask, up to *)
(* what each returns. Its signature and rows are AuditSigning's and         *)
(* JobPipeline's.                                                           *)
(*                                                                          *)
(* A patch's new contents are the same as the file's, good, or broken: that *)
(* is all the agents can tell. A reply no agent can use is "unusable": not  *)
(* JSON, not of the schema, empty. A conversation is kept as its length.    *)
(* The patches of a reply and those of a batch are sets: what is made of    *)
(* one does not depend on its place.                                        *)
(***************************************************************************)
EXTENDS LlmRouter, FiniteSets

CONSTANTS
  Files,         \* the files of a batch
  Parseable,     \* the paths whose extension ts-morph parses
  Stray,         \* a path a model makes up
  Units,         \* the number of patches given to examineBatch
  MaxPatches,    \* bound: patches in one reply
  MaxCitations   \* files that are offered with a question

Paths == Files \cup {Stray}

ASSUME CodeAssumption ==
  /\ Stray \notin Files
  /\ Parseable \subseteq Paths
  /\ Units \in Nat
  /\ MaxPatches \in Nat /\ MaxCitations \in Nat

VARIABLES
  statuses,      \* the statuses of the patches to examine
  patches,       \* what migrateBatch returned
  exam,          \* examineBatch: the patch it is at, its tests and errors
  offered,       \* the files whose contents are in a question
  cites,         \* the citations of an answer
  reply,         \* history: the last reply each call was given
  replies        \* history: how many it was given in this attempt

heard == <<reply, replies>>
work == <<statuses, patches, exam, offered, cites, heard>>

PatchStatus == {"proposed", "applied", "rejected", "unresolved"}

Contents == {"same", "good", "broken"}

LlmPatch == [filePath : Paths, after : Contents]

LlmPatches == {ps \in SUBSET LlmPatch : Cardinality(ps) <= MaxPatches}

Patch == [filePath : Files, after : Contents, status : PatchStatus,
          confidence : {85, 70, 50, 30}, retries : 0..MaxRetries]

\* What is left of a model's test when its fence is stripped.
TestSources == {"empty", "broken", "good"}

Exam == [pos : 0..Units, tests : SUBSET ((1..Units) \X TestSources), errors : SUBSET (1..Units)]

WorkTypeOK ==
  /\ statuses \in [1..Units -> PatchStatus]
  /\ patches \in [Calls -> SUBSET Patch]
  /\ exam \in [Calls -> Exam]
  /\ offered \in [Calls -> SUBSET Files]
  /\ cites \in [Calls -> SUBSET Files]
  /\ replies \in [Calls -> 0..(MaxRetries + 1) * (Units + 1)]

NoExam == [pos |-> 0, tests |-> {}, errors |-> {}]

\* An unusable reply is not JSON, not of the schema, empty, or not code.
Unusable == [usable |-> FALSE, patches |-> {}]

Answer(ps) == [usable |-> TRUE, patches |-> ps]

WorkInit ==
  /\ statuses \in [1..Units -> PatchStatus]
  /\ (\A c \in Calls : role[c] # "examiner") =>
       statuses = [u \in 1..Units |-> "proposed"]
  /\ patches = [c \in Calls |-> {}]
  /\ exam = [c \in Calls |-> NoExam]
  /\ offered = [c \in Calls |-> {}]
  /\ cites = [c \in Calls |-> {}]
  /\ reply = [c \in Calls |-> Unusable]
  /\ replies = [c \in Calls |-> 0]

Hears(c, r) ==
  /\ reply' = [reply EXCEPT ![c] = r]
  /\ replies' = [replies EXCEPT ![c] = @ + 1]

HeardNothing(c) ==
  /\ reply' = [reply EXCEPT ![c] = Unusable]
  /\ replies' = [replies EXCEPT ![c] = 0]

--------------------------------------------------------------------------------
(* The Surgeon.                                                             *)

\* Read every file of the batch; one that cannot be read is a Fault.
ReadBatch(c) ==
  /\ at[c] = "start" /\ role[c] = "surgeon"
  /\ StartAsking(c)
  /\ HeardNothing(c)
  /\ UNCHANGED <<process, attempt, asked, faults, statuses, patches, exam, offered, cites>>

\* Mutant of ValidatePatchSyntax: it is enough that one patch parses.
ValidatePatchSyntax_One(ps) ==
  ps # {} => \E p \in ps : p.filePath \in Parseable => p.after # "broken"

\* A patch that changes nothing is not parsed, nor one of another extension.
ValidatePatchSyntax(ps) ==
  \A p \in ps : p.filePath \in Parseable => p.after # "broken"

ConfidenceForRetries(n) == <<85, 70, 50>>[IF n > 2 THEN 3 ELSE n + 1]

\* Hallucinated paths and no-ops are dropped.
Kept(p) == p.filePath \in Files /\ p.after # "same"

Proposed(ps, n) ==
  {[filePath |-> p.filePath, after |-> p.after, status |-> "proposed",
    confidence |-> ConfidenceForRetries(n), retries |-> n] : p \in {q \in ps : Kept(q)}}

Stub(f) == [filePath |-> f, after |-> "same", status |-> "unresolved", confidence |-> 30,
            retries |-> MaxRetries]

\* Mutant of Stubs: only for files that can be parsed.
Stubs_Parseable == {Stub(f) : f \in Files \cap Parseable}

\* Giving up: a row for every file of the batch that says so.
Stubs == {Stub(f) : f \in Files}

\* A reply that parses, validates, and whose code parses, ends the loop.
HearPatches(c) ==
  /\ at[c] = "reply" /\ role[c] = "surgeon"
  /\ \E ps \in LlmPatches :
       /\ ValidatePatchSyntax(ps)
       /\ patches' = [patches EXCEPT ![c] = Proposed(ps, retries[c])]
       /\ Hears(c, Answer(ps))
  /\ Goto(c, "returned")
  /\ UNCHANGED <<process, attempt, retries, large, asked, faults, statuses, exam, offered, cites>>

\* Any other is sent back with its error (which of them makes no difference);
\* after the last one the batch is given up.
HearNoPatches(c) ==
  /\ at[c] = "reply" /\ role[c] = "surgeon"
  /\ \/ /\ AskAgain(c)
        /\ Hears(c, Unusable)
        /\ UNCHANGED patches
     \/ /\ OutOfRetries(c)
        /\ \/ Hears(c, Unusable)
           \/ \E ps \in LlmPatches : ~ValidatePatchSyntax(ps) /\ Hears(c, Answer(ps))
        /\ patches' = [patches EXCEPT ![c] = Stubs]
        /\ Goto(c, "returned")
        /\ UNCHANGED <<retries, large>>
  /\ UNCHANGED <<process, attempt, asked, faults, statuses, exam, offered, cites>>

--------------------------------------------------------------------------------
(* The Examiner: one patch after the other.                                 *)

Testable == {u \in 1..Units : statuses[u] \in {"proposed", "applied"}}

\* Go on, with the results e so far, to the next testable patch, in a
\* conversation of its own; after the last, return them.
NextPatch(c, e) ==
  LET later == {u \in Testable : u > e.pos}
  IN  IF later = {}
      THEN /\ Goto(c, "returned")
           /\ exam' = [exam EXCEPT ![c] = e]
           /\ UNCHANGED <<retries, large>>
      ELSE /\ StartAsking(c)
           /\ exam' = [exam EXCEPT ![c] =
                [e EXCEPT !.pos = CHOOSE u \in later : \A v \in later : u <= v]]

\* detectFramework does not fail: without a package.json it is "unknown".
StartExam(c) ==
  /\ at[c] = "start" /\ role[c] = "examiner"
  /\ NextPatch(c, NoExam)
  /\ HeardNothing(c)
  /\ UNCHANGED <<process, attempt, asked, faults, statuses, patches, offered, cites>>

\* A test is parsed whatever the extension of its file: as TypeScript, if it has
\* none that is known.
ValidateTestSyntax(source) == source # "broken"

\* A reply that is code which parses is the test.
HearTest(c) ==
  /\ at[c] = "reply" /\ role[c] = "examiner"
  /\ Hears(c, Answer({}))
  /\ \E source \in TestSources \ {"empty"} :
       /\ ValidateTestSyntax(source)
       /\ NextPatch(c, [exam[c] EXCEPT !.tests = @ \cup {<<exam[c].pos, source>>}])
  /\ UNCHANGED <<process, attempt, asked, faults, statuses, patches, offered, cites>>

\* Mutant of Reported: the patch is skipped and nothing is said.
Reported_Skipped(e) == e

\* A patch that gets no test has an entry in errors.
Reported(e) == [e EXCEPT !.errors = @ \cup {e.pos}]

\* One that is empty or does not parse is sent back, or is the last for its patch.
HearNoTest(c) ==
  /\ at[c] = "reply" /\ role[c] = "examiner"
  /\ Hears(c, Unusable)
  /\ \/ AskAgain(c) /\ UNCHANGED exam
     \/ OutOfRetries(c) /\ NextPatch(c, Reported(exam[c]))
  /\ UNCHANGED <<process, attempt, asked, faults, statuses, patches, offered, cites>>

--------------------------------------------------------------------------------
(* The Q&A agent.                                                           *)

\* findRelevantFiles scores the indexed files, takes the best of those with a
\* score, and skips those that can no longer be read: of the right question and
\* disk, any, or none.
FindRelevantFiles == {fs \in SUBSET Files : Cardinality(fs) <= MaxCitations}

StartQuestion(c) ==
  /\ at[c] = "start" /\ role[c] = "asker"
  /\ \E fs \in FindRelevantFiles : offered' = [offered EXCEPT ![c] = fs]
  /\ StartAsking(c)
  /\ HeardNothing(c)
  /\ UNCHANGED <<process, attempt, asked, faults, statuses, patches, exam, cites>>

\* Citations of files that were not offered are dropped.
HearAnswer(c) ==
  /\ at[c] = "reply" /\ role[c] = "asker"
  /\ \E cited \in SUBSET Paths :
       /\ cites' = [cites EXCEPT ![c] = cited \cap offered[c]]
       /\ Hears(c, Answer({}))
  /\ Goto(c, "returned")
  /\ UNCHANGED <<process, attempt, retries, large, asked, faults, statuses, patches, exam, offered>>

\* Without an answer in the end ask throws QaLlmValidationError.
HearNoAnswer(c) ==
  /\ at[c] = "reply" /\ role[c] = "asker"
  /\ Hears(c, Unusable)
  /\ \/ AskAgain(c) /\ UNCHANGED <<attempt, asked>>
     \/ OutOfRetries(c) /\ Throw(c)
  /\ UNCHANGED <<process, faults, statuses, patches, exam, offered, cites>>

CodeStep(c) ==
  \/ ReadBatch(c)
  \/ HearPatches(c)
  \/ HearNoPatches(c)
  \/ StartExam(c)
  \/ HearTest(c)
  \/ HearNoTest(c)
  \/ StartQuestion(c)
  \/ HearAnswer(c)
  \/ HearNoAnswer(c)

================================================================================
