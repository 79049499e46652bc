\* test_redb_set_and_get refuted: the expired timestamp of an earlier SET hides the value.
CONSTANTS
  k1 = k1
  k2 = k2
  t1 = t1
  r1 = r1
  r2 = r2
  Nil = Nil
  Keys <- MCKeys
  Texts <- MCTexts
  Requests <- TwoRequests
  Calls <- SetAfterTtlCalls
  MinInt <- MCMinInt
  MaxInt = 1
  Epoch = 2
  MaxNow = 4
  U64 = 16
SPECIFICATION Spec
PROPERTY SetShows
