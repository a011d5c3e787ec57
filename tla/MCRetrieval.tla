------------------------------- MODULE MCRetrieval ------------------------------
(* A small instance of Retrieval for TLC: a few trees of five files, two runs *)
(* of the Indexer.                                                            *)
EXTENDS Retrieval

CONSTANTS util, api, page, folder, data, first, second, hooks, legacy,
          toUtil, toApi, toPage, toData

MCRules == <<hooks, legacy>>

MCPathOrder == <<api, data, folder, page, util>>

\* util may be meant as util.ts or as util/index.ts.
MCTried ==
  (toUtil :> <<util, folder>>) @@ (toApi :> <<api>>) @@ (toPage :> <<page>>) @@
  (toData :> <<data>>)

File(specs, inHooks, inLegacy, large) ==
  [imports |-> specs, match |-> (hooks :> inHooks) @@ (legacy :> inLegacy), large |-> large]

MCTrees == {
  \* A chain, matched early in one file and late in another.
  (page :> File({toApi, toData}, 1, 0, FALSE)) @@ (api :> File({toUtil}, 2, 0, FALSE)) @@
    (util :> File({}, 3, 1, FALSE)) @@ (data :> File({}, 1, 0, FALSE)),
  \* More importers of a seed than are kept.
  (page :> File({toUtil}, 0, 0, FALSE)) @@ (api :> File({toUtil}, 0, 1, FALSE)) @@
    (folder :> File({toUtil}, 0, 0, FALSE)) @@ (util :> File({}, 1, 0, FALSE)),
  \* A cycle, and a file apart.
  (util :> File({toApi}, 1, 0, FALSE)) @@ (api :> File({toUtil}, 0, 2, FALSE)) @@
    (page :> File({}, 0, 1, FALSE)),
  \* Two seeds with an importer in common; util is a folder, its file too large.
  (util :> File({}, 0, 0, TRUE)) @@ (folder :> File({}, 2, 0, FALSE)) @@
    (api :> File({}, 0, 1, FALSE)) @@ (page :> File({toUtil, toApi}, 0, 0, FALSE)) }

================================================================================
