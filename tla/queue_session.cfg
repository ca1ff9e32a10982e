SPECIFICATION Spec
CONSTANTS
  photo = photo
  file = file
  fetch = fetch
  t1 = t1
  t2 = t2
  Jobs = {photo, file, fetch}
  Uploads = {photo, file}
  Photos = {photo}
  Tasks = {t1, t2}
  NoJob = NoJob
  NoTask = NoTask
  MaxAttempt = 2
  Inputs = {"clear", "pause", "background", "retry", "crash"}
INVARIANTS
  SourceKept
  WorkConserving
  OneAtATime
  Durable
PROPERTIES
  PauseHonoured
  CompletedStays
SYMMETRY TwoTasks
