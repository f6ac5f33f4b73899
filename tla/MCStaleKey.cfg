SPECIFICATION Spec
CONSTANTS
  u1 = u1
  r1 = r1
  v1 = v1
  none = none
  clear = clear
  bad = bad
  orphan = orphan
  nobody = nobody
  url = "ollama_base_url"
  key = "claude_api_key"
  Key <- MCKey
  Secret <- MCSecret
  Value <- MCValue
  Envs <- MCEnvs
  Batch <- MCKeyChange
  Update = {u1}
  Unset = clear
  Bad = bad
  NoRow = none
  Orphan = orphan
  Component = {"llm"}
  Request = {r1}
  Viewer = {}
  Server = {"http://a", "http://b"}
  Flaky = {"http://a"}
  Nobody = nobody
PROPERTY CallsUseTheKeyInForce
