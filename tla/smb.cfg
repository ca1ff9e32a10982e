SPECIFICATION FairSpec
CONSTANTS
  first = first
  second = second
  Calls = {first, second}
  Mixes <- MCMixes
  Blocks = 2
  Window = 3
  MaxBatches = 1
  MaxExpiries = 1
  None = None
  Lengths = {0, 1, 2, 3, 4, 5, 6, 7, 8, 9, 10, 11, 12, 13, 14, 15, 16, 56, 57, 63, 64, 65, 1000, 65432, 65433, 65434, 65456, 65457, 65471, 65472, 65534, 65535, 65536, 65537, 65544, 131072, 1048576, 66060288}
  Texts = {0, 1, 2, 60, 193}
  Tokens = {7, 8, 11, 12, 16, 32, 100, 117, 118, 119, 120, 121, 122, 123, 124, 125, 126, 127, 128, 129, 250, 255, 256, 257, 258, 300, 700}
  NameLengths = {2, 4, 6, 8, 10, 200}
  Strings = {0, 1, 4}
  Secrets = {0, 1, 2}
  Bytes = {1, 127, 128, 143, 144, 191, 193, 194, 224, 237, 240, 244, 245}
  Units = {1, 127, 128, 2047, 2048, 55295, 55296, 56319, 56320, 57343, 57344, 65533, 65535}
INVARIANTS
  TypeOK
  CalledOnce
  NothingLost
  InOrder
  WithinWindow
  CreditsReturn
  HonestStatus
  NoLeak
  EveryMessageArrives
  EveryFieldAgrees
  EveryLoginWorks
  EverySessionOpens
  EveryInfoArrives
  EveryShareArrives
PROPERTIES
  Answered
CHECK_DEADLOCK FALSE
