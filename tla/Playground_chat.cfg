\* Two conversations and two requests after an earlier visit, streamed or plain; any click, any reload.
CONSTANTS
  c1 = c1
  c2 = c2
  Ids = {c1, c2}
  NoId = noId
  MaxRequests = 3
  MaxMessages = 4
  MaxEdits = 2
SPECIFICATION FairSpec
INVARIANTS IInv OwnText PendingIffGenerating OneUnfinished
PROPERTIES FinishedStays GenerationEnds
CHECK_DEADLOCK FALSE
