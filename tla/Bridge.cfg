CONSTANTS
  MaxUp = 3
  MaxDown = 3
  Window = 2
  PeekLen = 2
SPECIFICATION FairSpec
INVARIANT TypeOK
PROPERTIES AnswerArrives RequestArrives EndsWithPeers
CHECK_DEADLOCK FALSE
