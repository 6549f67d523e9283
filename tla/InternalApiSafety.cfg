SPECIFICATION ApiSpec
CONSTANTS
  Commands = {m1, m2}
  MaxFaults = 2
  MaxApiFaults = 1
INVARIANTS
  PublishedOutcomeIsFinal
  CallerRowAndEventAgree
  OneCommandUnlessRaced
  ResponseIsKept
PROPERTIES
  NothingStaysPending
  NoRequestHangs
