------------------------ MODULE MCPlatformSettings ------------------------
(* A plain setting and a secret, edited by two operators. *)
EXTENDS PlatformSettings, TLC
CONSTANTS u1, u2, none, clear, bad, orphan

MCValue == {"true", "false", "", "key1", "key2"}
Defaults == "callsentry_local_only" :> "false" @@ "claude_api_key" :> "key1"
MCEnvs == {Defaults, "claude_api_key" :> "" @@ "callsentry_local_only" :> "true"}

(* Setting and clearing, alone and together, and one bad text. *)
MCBatch == {"callsentry_local_only" :> "true",
            "claude_api_key" :> "key1",
            "claude_api_key" :> clear,
            "claude_api_key" :> "key2" @@ "callsentry_local_only" :> clear,
            "callsentry_local_only" :> "true" @@ "claude_api_key" :> bad}
===========================================================================
