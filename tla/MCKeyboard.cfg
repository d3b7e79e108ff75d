SPECIFICATION FairSpec
CONSTANTS
  KEY_BUF_SIZE = 3
  MAX_CMD_LEN = 4
  MaxTyped = 4
  LeftOver = {"A"}
  VGA_WIDTH = 3
  VGA_HEIGHT = 2
INVARIANTS
  TypeOK
  ShiftNotStuck
  LineIsTyped
  EchoShowsLine
PROPERTIES
  RefinesKeyQueue
  FrontKeyTaken
