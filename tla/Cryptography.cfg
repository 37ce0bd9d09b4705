SPECIFICATION FairSpec
CONSTANTS
  Candidate <- MCCandidate
  Random <- MCRandom
  Input <- MCInput
  KeyByte <- MCKeyByte
  HeaderSize = 1
  BitXor <- MCBitXor
INVARIANT KeysTypeOK
INVARIANT FactorsArePrime
INVARIANT RowsAreCombinations
INVARIANT DecodedIsData
INVARIANT VerdictIsTrue
INVARIANT EncodedFileIsEnough
PROPERTY CofactorIsInverse
PROPERTY NoSecondDraw
PROPERTY ProgramEnds
CHECK_DEADLOCK FALSE
