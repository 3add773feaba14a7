CONSTANTS
  p1 = p1
  p2 = p2
  r1 = r1
  r2 = r2
  s1 = s1
  s2 = s2
  q1 = q1
  q2 = q2
  alice = alice
  bob = bob
  c1 = c1
  c2 = c2
  t1 = t1
  t2 = t2
  Nobody = Nobody
  Configs <- Hosts
  Targets <- RunTargets
  Parts = {"redeploy", "startup", "http", "delivery", "channel"}
SPECIFICATION AllSpec
INVARIANTS
  ExecutesAsItBegan
  WhatIsAcceptedIsInForce
  RunsAreTheirOwners
  StreamsTellTheRun
  ChannelsShowOnceInOrder
CHECK_DEADLOCK FALSE
