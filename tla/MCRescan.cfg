CONSTANTS
  QSize = 4
  NumCtl = 2
  AckOnPoll = {2}
  MaxPlugs = 2
  MaxScans = 1
SPECIFICATION FairSpec
INVARIANTS RingOK PendingIsOwned
PROPERTIES ChangeScanned DisksSeen
