SPECIFICATION Spec
CONSTANTS
  MaxTicks = 3
  MaxPerTick = 2
  ContractCalls = {{2}}
  MaxListed = 3
  MaxPage = 2
  PageSizes = {0, 1, 4}
  MaxPageSize = 3
  DefaultPageSize = 3
  LimitWithoutPaging = 3
INVARIANTS
  AscendingWalk
  
  PageIsSlice
  PaginationTrue
