\* An update() that does not raise, with any save_on_error.
CONSTANTS
  Threads = {t1, t2}
  Keys = {k1}
  Values <- Dictionaries
  MCLifetimes = {0, 1}
  Lifetimes <- WithoutExpiry
  Res = 2
  MaxNow = 4
  None = None
SPECIFICATION CacheSpec
PROPERTY EvolveIsStored
