CONSTANTS
  Devices = {d1}
  SD = sd
  Cards = {}
  None = None
  MaxVersion = 0
  MaxIds = 8
  Stalls = FALSE
  MaxOps = 1
  Upsets = {"button", "crash", "reload"}
  MaxUpsets = 3
  Overlap = TRUE
  GalleryExpires = TRUE
SPECIFICATION FairSpec
PROPERTIES TransfersEnd DevicesReturn
CHECK_DEADLOCK FALSE
