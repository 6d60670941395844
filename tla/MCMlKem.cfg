CONSTANTS
  KYBER_K = 2
  KYBER_N = 4
  KeyCoins <- MCKeyCoins
  Messages <- MCMessages
  Changes = {1}
  MaxKeys = 2
  MaxSent = 2
  MaxReceived = 2
SPECIFICATION Spec
INVARIANTS SecretsAgree ChangedIsRejected OneSecretPerCiphertext
CHECK_DEADLOCK FALSE
