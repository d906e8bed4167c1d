SPECIFICATION Spec
CONSTANTS
  Readers = {r1}
  Words = {w1, w2}
  Num = 3
  MaxTid = 6
INVARIANTS
  PublishedIntact
  IntactUnlessLapped
  TornOnlyByLaterLaps
PROPERTY ImplementsHistory
