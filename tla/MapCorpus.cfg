\* Two shards, a good map, a corrupt one and one parsed before scenery.
SPECIFICATION CorpusSpec
CONSTANTS
  Maps = {1, 2, 3}
  Legacy = {3}
  Corrupt = {2}
  Edited = {1}
  ShardCount = 2
  MaxAttempts = 2
  MaxArt = 2
  MaxMishaps = 2
INVARIANTS TableSound
PROPERTIES MapsGetParsed
