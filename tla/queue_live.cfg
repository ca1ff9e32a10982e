SPECIFICATION FairSpec
CONSTANTS
  photo = photo
  file = file
  fetch = fetch
  t1 = t1
  t2 = t2
  Jobs = {photo, file, fetch}
  Uploads = {photo, file}
  Photos = {photo}
  Tasks = {t1, t2}
  NoJob = NoJob
  NoTask = NoTask
  MaxAttempt = 1
  Inputs = {"cancel", "clear", "retry"}
PROPERTIES
  EveryTransferEnds
  CancelSticks
CHECK_DEADLOCK FALSE
