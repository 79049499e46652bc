\* The in-memory backend implements the promise of the API.
CONSTANTS
  k1 = k1
  k2 = k2
  t1 = t1
  r1 = r1
  r2 = r2
  Nil = Nil
  Keys <- MCKeys
  Texts <- MCTexts
  Requests <- MCRequests
  Calls <- MCCalls
  MinInt <- MCMinInt
  MaxInt = 1
  MaxNow = 3
  TicksPerSecond = 2
  MaxInstant = 7
SPECIFICATION Spec
INVARIANT TypeOK
PROPERTY ImplementsPromise
