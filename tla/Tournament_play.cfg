SPECIFICATION Spec
CONSTANTS
  Agent = {1, 2}
  Setting = {fast, slow}
  Nobody = Nobody
  MaxPerMatch = 2
  MaxRounds = 1
  MaxGames = 2
  MaxShots = 1
INVARIANTS
  TypeOK
  NoiseFollowsAgent
  CleanupGoesThrough
  NoOrphans
PROPERTIES
  EveryoneIsPaired
  RecordsStay
