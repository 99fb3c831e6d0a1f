SPECIFICATION Spec
CONSTANTS
  Browsers = {b1}
  Handlers = {h1, h2, h3}
  Kinds = {"login", "verify", "refresh", "logout", "setup", "trust", "revoke"}
  BackupCodes = 2
  Seed = Seed
  None = None
INVARIANTS OnlyLeavesLive BrowserKeepsItsSession CodeReusedOnlyByRace VerifiedWasProved
SYMMETRY HandlerSymmetry
CHECK_DEADLOCK FALSE
