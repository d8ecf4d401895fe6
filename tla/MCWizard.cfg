CONSTANTS
  Disks = {d1, d2}
  Layouts = {l1, l2}
  GuiResults = {"FINISHED", "BACK", "QUIT", "UNAVAILABLE", "ERROR"}
SPECIFICATION Spec
INVARIANTS ScreensOfMode ReadyPastFormat ResultsOfPlanInForce SuccessOnDisk
PROPERTIES ChangesAreConfirmed WritesFollowHandOver
