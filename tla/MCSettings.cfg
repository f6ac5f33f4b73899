SPECIFICATION SettingsSpec
CONSTANTS
  u1 = u1
  u2 = u2
  none = none
  clear = clear
  bad = bad
  orphan = orphan
  Key = {"callsentry_local_only", "claude_api_key"}
  Secret = {"claude_api_key"}
  Value <- MCValue
  Envs <- MCEnvs
  Batch <- MCBatch
  Update = {u1, u2}
  Unset = clear
  Bad = bad
  NoRow = none
  Orphan = orphan
INVARIANT LiveFollowsStored
