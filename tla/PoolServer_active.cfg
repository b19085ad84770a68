SPECIFICATION Spec
CONSTANTS
  ann = ann
  bob = bob
  cid = cid
  c1 = c1
  c2 = c2
  c3 = c3
  m1 = m1
  m2 = m2
  m3 = m3
  None = None
  Agent = {ann, bob}
  Client = {c1, c3}
  Match = {m1}
  AgentOf <- OwnAgents
  MatchRow <- TwoFullGames
  Straggler = {}
  MaxGames = 2
  MaxStates = 2
  MaxRetries = 0
INVARIANTS
  ActiveGamesLimited
