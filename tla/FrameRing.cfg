SPECIFICATION FairSpec
CONSTANTS
  c1 = c1
  c2 = c2
  Chunk <- TwoChunks
  CounterMax = 7
INVARIANT NoTornFrame
PROPERTY DeliversFrames
PROPERTY EveryFrameShownOrOvertaken
