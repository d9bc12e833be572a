\* A map parsed before the scenery columns, one wrapper failure.
SPECIFICATION CorpusSpec
CONSTANTS
  Maps = {1}
  Legacy = {1}
  Corrupt = {}
  Edited = {}
  ShardCount = 1
  MaxAttempts = 2
  MaxArt = 2
  MaxMishaps = 1
PROPERTY RetryRecovers
