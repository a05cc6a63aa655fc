\* Three overlapping runs, two changes of the guidance, a TTL of two.
CONSTANTS
  r1 = r1  r2 = r2  r3 = r3
  Run = {r1, r2, r3}
  Ttl = 2
  MaxVersion = 2
  NoGuidance = NoGuidance
SPECIFICATION FairSpec
INVARIANT TypeOK
PROPERTIES FetchesOnlyWhenStale OutdatedOnlyForTtl GuidanceSpreads
