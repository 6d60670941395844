CONSTANTS
  Rate = 3
  MaxIn = 7
  MaxOut = 8
  HashLen = 2
  Atom <- MCAtom
  Suffix <- MCSuffix
  TopBit <- MCTopBit
  Msg <- MCMsg
SPECIFICATION SpongesSpec
INVARIANTS AbsorbPosition OutputIsStream DigestComplete
PROPERTIES ImplementsXof CallReturns
