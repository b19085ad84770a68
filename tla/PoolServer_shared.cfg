SPECIFICATION Spec
CONSTANTS
  ann = ann
  bob = bob
  cid = cid
  c1 = c1
  c2 = c2
  c3 = c3
  m1 = m1
  m2 = m2
  m3 = m3
  None = None
  Agent = {ann, bob}
  Client = {c1, c2, c3}
  Match = {m1, m2}
  AgentOf <- SharedAgents
  MatchRow <- SharedMatches
  Straggler = {ann}
  MaxGames = 1
  MaxStates = 4
  MaxRetries = 1
INVARIANTS
  TypeOK
  OpenGamesAreQueued
  OpenGamesInSequence
  ResultWitnessed
SYMMETRY Forks
