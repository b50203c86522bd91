\* Every way to cut the answers of up to six tokens (a tag is two) into chunks.
CONSTANTS
  Words = {"a", "b"}
  Chunks <- MCChunks
  MaxText <- MCMaxText
SPECIFICATION FairSpec
INVARIANTS IInv DeltasShown SnapshotContent 
PROPERTY ChunksShown
CHECK_DEADLOCK FALSE
