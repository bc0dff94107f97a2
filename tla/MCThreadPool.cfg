SPECIFICATION FairSpec
CONSTANTS
  c1 = c1
  c2 = c2
  w1 = w1
  w2 = w2
  j1 = j1
  j2 = j2
  j3 = j3
  j4 = j4
  NoJob = NoJob
  Clients <- TwoClients
  Workers <- TwoWorkers
  Jobs <- FourJobs
  Spurious <- Everybody
  MaxQueue = 2
INVARIANTS
  TypeOK
  ActiveJobsCounted
  NoLostWakeup
  DrainedWhenDestroyed
PROPERTIES
  CallsReturn
  ImplementsService
