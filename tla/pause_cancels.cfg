SPECIFICATION Spec
CONSTANTS
  photo = photo
  file = file
  fetch = fetch
  t1 = t1
  t2 = t2
  Jobs = {photo, fetch}
  Uploads = {photo}
  Photos = {photo}
  Tasks = {t1, t2}
  NoJob = NoJob
  NoTask = NoTask
  MaxAttempt = 1
  Inputs = {"pause"}
PROPERTIES
  OnlySkipCancels
SYMMETRY TwoTasks
CHECK_DEADLOCK FALSE
