CONSTANTS
  Products <- MCProducts
  Noise <- MCNoise
SPECIFICATION ChannelSpec
INVARIANTS BitSurvives LostInCompression
CHECK_DEADLOCK FALSE
