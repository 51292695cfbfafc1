SPECIFICATION Spec
CONSTANTS
  Lift = {l1}
  Contract = {c1, c2}
  NoContract = NoContract
  Request = {r1}
  Nobody = Nobody
  Operations = {"add", "remove", "patch", "terminate", "delete", "renew", "lift"}
  StartDays = {1}
  EndDays = {2}
  FirstDay = 2
  MaxDay = 3
  MaxSpans = 2
  MaxInFlight = 1
  SpareContracts = 1
SYMMETRY ContractsSymmetry
INVARIANT UncontractedMeansUncovered
  
