SPECIFICATION FairSpec
CONSTANTS
  N = 3
  Window = 2
  MaxAttempt = 1
  Targets = {"name", "copy"}
  Stamps = {0}
  Shortened = {3}
  NoFile = NoFile
INVARIANTS
  TypeOK
  NeverAppends
  WrittenWhole
PROPERTIES
  KeepsAFile
  Delivers
  AttemptsEnd
