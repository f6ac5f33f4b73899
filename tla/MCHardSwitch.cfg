SPECIFICATION Spec
CONSTANTS
  u1 = u1
  r1 = r1
  v1 = v1
  none = none
  clear = clear
  bad = bad
  orphan = orphan
  nobody = nobody
  url = "worker_base_url"
  key = "deepgram_api_key"
  Key <- MCKey
  Secret <- MCSecret
  Value <- MCValue
  Envs <- MCEnvs
  Batch <- MCSwitch
  Update = {u1}
  Unset = clear
  Bad = bad
  NoRow = none
  Orphan = orphan
  Component = {"stt"}
  Request = {r1}
  Viewer = {v1}
  Server = {"http://a", "http://b"}
  Flaky = {"http://a"}
  Nobody = nobody
PROPERTY LocalOnlyIsHard
