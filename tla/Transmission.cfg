SPECIFICATION MCSpec
CONSTANTS
  Message <- MCMessage
  SamplesPerBit = {1, 3}
  crc_generator <- MCGenerator
  reg1_initial <- MCReg1
  reg2_initial <- MCReg2
  length = 31
  Burst = 7
  Sample <- MCSample
  crc_generators <- MCGenerators
  num_tests = 1
  FirstError <- MCFirstError
INVARIANT CleanIsAccepted
 
 
INVARIANT AcceptedIsMultiple
INVARIANT SinglesAreDetected
INVARIANT DoublesMissedByOrder
CHECK_DEADLOCK FALSE
