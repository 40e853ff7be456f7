SPECIFICATION FairSpec
CONSTANTS
  a = a
  b = b
  bg = bg
  clip = clip
  Scene = {a, b}
  Media = {bg, clip}
  MediaOf <- MCMediaOf
  Target <- MCPlaylists
  Syncer = {"loop", "reload"}
  Size <- MCSize
  Revised = {clip}
  MaxBytes = 2
  MayCrash = TRUE
  DiskFaults = TRUE
INVARIANTS Servable
PROPERTIES CapAfterCommit Converges ImplementsScreen
