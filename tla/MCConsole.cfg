SPECIFICATION Spec
CONSTANTS
  Weathers = {1, 2}
  TmpIds = {0, 1, 2}
  TmpReg <- MCTmp
  LtrReg <- MCLtr
  MpuReg <- MCMpu
  Trees <- MCTrees
  NameLength <- MCNameLength
  BufferSize = 7
  max_block = 2
  MaxSize = 14
INVARIANTS DataPointIsCurrent OwnCompensation ListingInOrder
  CopyIsMemcpy NeverAllocatedTwice
PROPERTIES PromptReturns
CHECK_DEADLOCK FALSE
