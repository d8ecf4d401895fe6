CONSTANTS
  Releases = {r1, r2}
  NoRelease = none
  Folders = {f1}
  NoFolder = nowhere
  KeepFailed = TRUE
SPECIFICATION Spec
INVARIANT ImageReadyIsUsable
