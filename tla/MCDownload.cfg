SPECIFICATION FairSpec
CONSTANTS
    RepeatFails <- MCRepeatFails
    HeapBlocks = 2
    PoolSize = 7
    HeaderSizes <- MCHeaderSizes
    HeapRoom = 5
    MaxChunks = 3
INVARIANTS
    WholeFeedNeedsOneChunk
PROPERTIES
    FailedInitIsForever
    NoHttpAfterPool
    NoHttpsAfterHeap
    DownloadEnds
