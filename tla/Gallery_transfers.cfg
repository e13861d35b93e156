CONSTANTS
  Devices = {d1, d2}
  SD = sd
  Cards = {c1, c2}
  None = None
  MaxVersion = 1
  MaxIds = 4
  Stalls = FALSE
  MaxOps = 2
  Upsets = {"button", "reboot", "crash"}
  MaxUpsets = 1
  Overlap = FALSE
  GalleryExpires = FALSE
SPECIFICATION Spec
SYMMETRY Interchangeable
INVARIANTS TypeOK OneDeviceHasIt LabelsAreTrue BytesSurvive
CHECK_DEADLOCK FALSE
