------------------------- MODULE MCProviderChain -------------------------
(* Any one chain over a local server and a key. *)
EXTENDS ProviderChain, TLC
CONSTANTS u1, r1, v1, none, clear, bad, orphan, nobody, url, key

Mode == "callsentry_local_only"
MCKey == {Mode, url, key}
MCSecret == {key}
MCValue == {"true", "false", "", "key1", "key2", "http://a", "http://b"}
Defaults == Mode :> "false" @@ key :> "key1" @@ url :> "http://a"
MCEnvs == {Defaults}

(* The mode and the local server change together, and change
   back; a batch with one bad text. Or the key changes.                     *)
MCSwitch == {url :> "http://b" @@ Mode :> "true", url :> clear @@ Mode :> clear,
             url :> clear @@ key :> bad}
MCKeyChange == {key :> "key2", key :> clear, Mode :> "true"}
==========================================================================
