CONSTANTS
  N = 16
  Q = 641
  R = 32768
  QInv <- MCQInv
  Zetas <- MCZetas
  F <- MCF
  Factors <- MCFactors
  KyberInputs <- MCKyberInputs
  SampleN = 8
  SampleQ = 8380417
  TAU = 3
  Block = 10
  NBlocks = 2
  Etas = {2, 4}
  Nonces <- MCNonces
  DilithiumStream <- MCDilithiumStream
  KYBER_N = 4
  KYBER_K = 2
  XOF_BLOCKBYTES = 3
  GEN_MATRIX_NBLOCKS = 2
  Streams = {0, 1, 2}
  Words <- MCWords
  KyberStream <- MCKyberStream
SPECIFICATION PolynomialsSpec
INVARIANTS StaysInWord DilithiumProduct KyberProduct FirstAccepted ChallengeIsUniform KyberSamples
CHECK_DEADLOCK FALSE
