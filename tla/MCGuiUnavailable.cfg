CONSTANTS
  Disks = {d1}
  Layouts = {l1}
  GuiResults = {"UNAVAILABLE"}
SPECIFICATION Spec
PROPERTY UnavailableReturnsToResult
