SPECIFICATION Spec
CONSTANTS
  a = a
  b = b
  bg = bg
  clip = clip
  Scene = {a, b}
  Media = {bg, clip}
  MediaOf <- MCMediaOf
  Target <- MCScenes
  Syncer = {"loop"}
  Size <- MCSize
  Revised = {bg, clip}
  MaxBytes = 0
  MayCrash = FALSE
  DiskFaults = FALSE
PROPERTIES SyncBringsFresh
