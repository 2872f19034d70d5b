SPECIFICATION FairSpec
CHECK_DEADLOCK FALSE
CONSTANTS
  old = old  new = new  notes = notes  x = x   junk = junk
  None = None  Empty = Empty  Main = Main  w1 = w1  w2 = w2
  Files = {old, new, notes}  Watched = {old, new}
  Shas = {x, junk}  Corrupt = {junk}  Mtimes = {0}
  Workers = {w1, w2}  MaxEdits = 2  MaxCrashes = 1
  Config <- MCConfig  Order <- SameRevision  Disk0 <- NewIsMissing
INVARIANTS OneHeadPerConfig EveryHeadTried
PROPERTIES ChangeIsVerified RunGoesOn
