SPECIFICATION FairSpec
CONSTANTS
  N = 4
  ka = ka kb = kb kc = kc
  Keys = {ka, kb, kc}
  KeyOf <- MCKeyOf
  Truncates = TRUE
INVARIANTS TypeOK OkListsEachFileOnce OkMeansStoredWhole
PROPERTIES NobodyBlocked KeepsPromise
