SPECIFICATION Spec
CONSTANTS
  Handlers = {h1, h2, h3}
  Kinds = {"setup", "verify", "forgot", "reset", "recover", "operator", "profile"}
  Initial = Initial
  Unknown = Unknown
  Demo = Demo
  None = None
INVARIANTS SpentTwiceOnlyByRace UnusedTwiceOnlyByRace EnabledHasFactor VerifiedWasProved AuditTellsTheTruth
SYMMETRY HandlerSymmetry
CHECK_DEADLOCK FALSE
