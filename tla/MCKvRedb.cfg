\* Reads against writers, and writers against each other.
CONSTANTS
  k1 = k1
  k2 = k2
  t1 = t1
  r1 = r1
  r2 = r2
  Nil = Nil
  Keys <- MCKeys
  Texts <- MCTexts
  Requests <- TwoRequests
  Calls <- ReadCalls
  MinInt <- MCMinInt
  MaxInt = 1
  Epoch = 2
  MaxNow = 3
  U64 = 16
SPECIFICATION HistorySpec
INVARIANTS TypeOK BatchIsOneSnapshot LookupIsJustified TtlIsJustified
PROPERTIES OnlyTheWriterWrites OrphanOnlyByExpire
