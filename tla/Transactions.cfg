\* Two threads share a client; answers are lost, requests arrive late.
SPECIFICATION Spec
CONSTANTS
  u1 = u1
  u2 = u2
  Users <- TwoUsers
  NoTx = NoTx
  MaxTx = 3
  MaxLate = 1
SYMMETRY UserSymmetry
INVARIANTS
  InStep
  ToldTheTruth
PROPERTIES
  StartGivesOpen
