SPECIFICATION PoolSpec
CONSTANTS
  sizeof_node = 40
  buf_size = 1024
  Size = {7, 8, 23, 24, 128, 983, 984, 1024}
  Address = {0, 1100, 2700, 4300}
  MaxMade = 4
  MaxReleased = 2
INVARIANTS
  HeadersDisjoint
  PayloadsDisjoint
  PayloadMissesEarlierHeaders
  OnlyMallocedFreed
CHECK_DEADLOCK FALSE
