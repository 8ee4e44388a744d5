SPECIFICATION FairSpec
CONSTANTS
  e1 = e1
  e2 = e2
  c1 = c1
  c2 = c2
  c3 = c3
  w1 = w1
  w2 = w2
  console = console
  canceller = canceller
  retrier = retrier
  pA = pA
  pB = pB
  Nobody = Nobody
  Runs = {e1, e2}
  Callers = {c1, c2, c3}
  Workers = {w1, w2}
  Processes = {pA, pB}
  Console = console
  Canceller = canceller
  Retrier = retrier
  Actors <- MCActors
  Site <- MCSite
  Deliverers <- MCDeliverers
  Payloads <- MCPayloads
  Flaws <- MCFlaws
  MaxAttempts = 2
  Deployments <- MCDeployments
INVARIANT
  TypeOK
  CallsAreRecorded
  DeliveredWasAnswered
  NoRunForgotten
  CancelTellsTruth
PROPERTY
  PromiseKept
  RecordsAreDurable
  EventsAreLaunched
  RunsComeToRest
CHECK_DEADLOCK FALSE
