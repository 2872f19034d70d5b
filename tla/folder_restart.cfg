SPECIFICATION FairSpec
CHECK_DEADLOCK FALSE
CONSTANTS
  old = old  new = new  notes = notes  x = x   junk = junk
  None = None  Empty = Empty  Main = Main  w1 = w1  w2 = w2
  Files = {old, new, notes}  Watched = {old, new}
  Shas = {x, junk}  Corrupt = {junk}  Mtimes = {0, 1}
  Workers = {w1, w2}  MaxEdits = 0  MaxCrashes = 1
  Config <- MCConfig  Order <- Revisions  Disk0 <- AllThere
PROPERTY HeadsGetVerified
