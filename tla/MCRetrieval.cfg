CONSTANTS
  util = util
  api = api
  page = page
  folder = folder
  data = data
  first = first
  second = second
  hooks = hooks
  legacy = legacy
  toUtil = toUtil
  toApi = toApi
  toPage = toPage
  toData = toData
  Paths = {util, api, page, folder, data}
  Parseable = {util, api, page, folder}
  Excluded = {}
  Specs = {toUtil, toApi, toPage, toData}
  Tried <- MCTried
  Trees <- MCTrees
  Runs = {first, second}
  MaxFaults = 1
  Rules <- MCRules
  PathOrder <- MCPathOrder
  MaxBatchSize = 2
  MaxAncestors = 2
SPECIFICATION Spec
CHECK_DEADLOCK FALSE
INVARIANTS
  RunsDoNotMix
  BatchesAreCoherent
  NothingAffectedIsMissed
