CONSTANTS
  p1 = p1
  p2 = p2
  b1 = b1
  b2 = b2
  c1 = c1
  c2 = c2
  w1 = w1
  w2 = w2
  None = None
  Peers <- MCPeers
  Beneficiaries <- MCBeneficiaries
  Chequebooks <- MCChequebooks
  Workers <- MCWorkers
  ExchangeRate = 2
  Deductions = {0, 1}
  MaxPayout = 4
  Amounts = {1}
  HasChequebook = TRUE
  MaxCalls = 4
SPECIFICATION Spec
SYMMETRY MCSymmetry
INVARIANTS
  AcceptedChequesCredited
