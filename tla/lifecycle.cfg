SPECIFICATION FairSpec
CONSTANTS
  Registered <- MCDefinitions
  Ceilings <- MCCeilings
  Templates <- MCTemplates
  NoTemplate = NoTemplate
  Texts <- MCContent
  a1 = a1
  a2 = a2
  r1 = r1
  s1 = s1
  s2 = s2
  w1 = w1
  w2 = w2
  Authors = {a1, a2}
  Readers = {r1}
  Words = {"w"}
  PageSize = 1
  DefaultDepth = 2
  MaxRevisions = 3
  Binders = {w1, w2}
  Candidates <- MCCandidates
  Triggers = {"manual", "hook"}
  BindingIds = {1}
  Sessions = {s1, s2}
  Actors = {s1, s2}
  Runs <- MCRuns
  Deployments <- MCDeployments
INVARIANTS
  TypeOK
  SourcesResolve
  EveryPathEnds
  ClosuresHold
  AnswersHold
  SearchIsComplete
  DepthsAgree
  BindingsResolve
  ParentsTellTruth
  ChildIsTraced
  ItemsRunOnce
PROPERTIES
  NoUpdateLost
  TreeComesToRest
CHECK_DEADLOCK FALSE
