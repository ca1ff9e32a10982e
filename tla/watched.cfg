SPECIFICATION FairWatched
CONSTANTS
  N = 2
  Window = 2
  MaxAttempt = 0
  Targets = {"name"}
  Stamps = {0, 1}
  Shortened = {}
  NoFile = NoFile
  StableSamples = 2
PROPERTIES
  ToldOnce
  Announced
