SPECIFICATION MCSpec
CONSTANTS
  a = a
  b = b
  w1 = w1
  w2 = w2
  Client <- TwoClients
  QueueMax = 1
  MaxChannels = 2
  MaxChanges = 1
  MaxBatches = 1
  MaxTroubles = 1
  NULL = NULL
  Deleted = Deleted
  Writer = {w1, w2}
  Shot = {a, b}
  Clips = {a, b}
  Units = {b}
  WithUri = {w1}
  Legacy = Legacy
  None = None
  Grid = Grid
  MaxOutages = 1
INVARIANTS
    ChannelInv
    AssetInv
PROPERTIES
    StreamsServed
    OverwrittenIsRecorded
CHECK_DEADLOCK FALSE
