CONSTANTS
  Products <- MCProducts
  Noise <- MCNoise
SPECIFICATION ChannelSpec
INVARIANT AsmCompressIsC
CHECK_DEADLOCK FALSE
