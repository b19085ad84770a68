SPECIFICATION Spec
CONSTANTS
  ann = ann
  bob = bob
  cid = cid
  c1 = c1
  c2 = c2
  c3 = c3
  m1 = m1
  m2 = m2
  m3 = m3
  None = None
  Agent = {ann, bob}
  Client = {c1, c2, c3}
  Match = {m1}
  AgentOf <- SharedAgents
  MatchRow <- OneFullGame
  Straggler = {}
  MaxGames = 1
  MaxStates = 4
  MaxRetries = 0
INVARIANTS
  EveryGameIsASequence
