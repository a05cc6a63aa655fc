\* Three triggers, windows shorter and longer than the sleep, every fault.
CONSTANTS
  ingested = ingested  deleted = deleted
  N = 3
  Topic = {ingested, deleted}
  Topics <- ThreeTopics
  Debounce <- ThreeWindows
  TickInterval = 2
  MaxMessages = 5
  Faults = {"subscribeError", "subscriptionError", "closeError"}
SPECIFICATION FairSpec
INVARIANTS TypeOK DueWithinOneSleep StopIsComplete
PROPERTIES SubmitsInSilence EventsAreFollowed StopEnds
