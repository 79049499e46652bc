\* Without TTLs the redb backend implements the promise of the API, loses no INCR, and answers every call.
CONSTANTS
  k1 = k1
  k2 = k2
  t1 = t1
  r1 = r1
  r2 = r2
  Nil = Nil
  Keys <- MCKeys
  Texts <- MCTexts
  Requests <- TwoRequests
  Calls <- PlainCalls
  MinInt <- MCMinInt
  MaxInt = 1
  Epoch = 2
  MaxNow = 3
  U64 = 16
SPECIFICATION LiveSpec
PROPERTIES ImplementsPromise IncrementsOnce EveryCallAnswered
