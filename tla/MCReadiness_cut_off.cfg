SPECIFICATION ReadinessSpec
CONSTANTS
  Call = {c1, c2}
  NoCall = NoCall
  Service = {sendgrid}
  Known = {sendgrid}
  Threshold = 50
  MaxFires = 3
INVARIANTS BreakersSound
PROPERTIES FailingServiceIsCutOff ReplicaReturns
