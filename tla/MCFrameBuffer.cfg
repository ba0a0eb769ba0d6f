SPECIFICATION Spec
CONSTANTS
  HVisible = 3
  HTotal = 5
  VVisible = 2
  VSyncLine = 4
  VTotal = 6
INVARIANTS
  NoGarbage
  SyncOutsidePicture
PROPERTIES
  StartKeepsPicture
  PictureReplaced
