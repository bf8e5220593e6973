SPECIFICATION Spec
CONSTANTS
  Calls = {k1}
  CacheAge = 1
PROPERTY OutageFallsBack
