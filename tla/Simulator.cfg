SPECIFICATION Spec
CONSTANTS
  Host = {"cpu", "memory"}
  Probes = 2
  Capacity = 2
  MaxChanges = 3
  MaxRefreshes = 3
INVARIANTS TypeOK SnapshotReflectsItsRefresh SpikesFadeOut
