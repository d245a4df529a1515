CONSTANTS
  Accounts = {"publisher", "other"}
  Publisher = "publisher"
  Media = {"image", "clip"}
  Fits = {"image"}
  Nothing = Nothing
  MaxSelections = 1
  MaxPicks = 2
  MaxRequests = 2
  MaxJobs = 2
  Limits <- MCLimits
SPECIFICATION UploadsSpec
INVARIANTS
  DraftIsStored
  PreviewIsUploaded
  UploadingIsPending
PROPERTIES
  OnlyAwaitedEnters
CHECK_DEADLOCK FALSE
