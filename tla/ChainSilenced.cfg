SPECIFICATION FairSpec
CONSTANTS
  b1 = b1 r1 = r1 r2 = r2 l1 = l1 p1 = p1
  Batches <- OneBatch
  Records = {r1, r2}
  Layouts = {l1}
  Partitions = {p1}
  BatchOf <- BatchOfOne
  LayoutOf <- LayoutOfOne
  Doubtful <- DoubtfulRecord
  Failing <- DoubtfulRecord
  PartitionOf <- OnePartition
  Cli = cli
  MaxFailures = 1
  MaxCommands = 0
PROPERTY AnnouncedIsShown
CHECK_DEADLOCK FALSE
