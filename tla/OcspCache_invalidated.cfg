SPECIFICATION OcspSpec
CONSTANTS
  OcspKeys = {k1}
  OcspHandlers = {h1}
  CacheSize = 1
  Validity = 2
  NoKey = NoKey
PROPERTY InvalidatedOnRevocation
