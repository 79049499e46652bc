\* Four locations, one of which Path::from changes; a prefix and the root; limits from
\* zero to the largest usize; two failed pages.
CONSTANTS
  c1 = c1
  Schemes = {"s3", "file"}
  Texts <- AllTexts
  Rank <- Place
  PathFrom <- Encoded
  Names <- ObjectNames
  Invalid <- InvalidTexts
  Root = Root
  Under <- Contents
  Clients = {c1}
  Walks <- SomeWalks
  Usize = 4
  MaxFailures = 2
  Nil = Nil
SPECIFICATION LiveSpec
INVARIANTS TypeOK WalkIsComplete NothingTwice ListedWasThere
PROPERTY EveryWalkEnds
