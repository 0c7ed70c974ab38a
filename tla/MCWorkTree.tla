----------------------------- MODULE MCWorkTree -----------------------------
(* A configuration file, a local mod that one of two manifests declares, and an
   .anvilexclude that lists nothing or the configuration file. *)
EXTENDS WorkTree

CONSTANTS Config, Mod, Plain, Ignoring, Bare, Modded

Paths == {Exclude, Config, Mod}
MCRuleOf == [c \in Content |-> IF c = Ignoring THEN {Config} ELSE {}]
MCLocal == [v \in Version |->
              IF v = Modded THEN [p \in {Mod} |-> Plain] ELSE [p \in {} |-> Plain]]
=============================================================================
