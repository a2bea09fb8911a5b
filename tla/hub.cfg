SPECIFICATION FairSpec
CONSTANTS
  h1 = h1
  h2 = h2
  g1 = g1
  Handlers = {h1, h2}
  Sweepers = {g1}
  Codes = {c}
  Sessions = {s}
  Proofs = {p}
  Ahead <- OneAhead
  TTL = 1
  Skew = 2
  MaxHold = 1
  MaxTime = 2
  MaxWrites = 2
  MaxFaults = 1

INVARIANTS
    HubTypeOK
    ProofUsedOnce

PROPERTIES
    GrantedOnce
    ExpiryIsExact
