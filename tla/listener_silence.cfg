\* As listener.cfg without faults: may an event come between submit and run?
CONSTANTS
  ingested = ingested  deleted = deleted
  N = 3
  Topic = {ingested, deleted}
  Topics <- ThreeTopics
  Debounce <- ThreeWindows
  TickInterval = 2
  MaxMessages = 5
  Faults = {}
SPECIFICATION FairSpec
PROPERTY RunsInSilence
