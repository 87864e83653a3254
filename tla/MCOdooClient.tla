---------------------------- MODULE MCOdooClient ----------------------------
(***************************************************************************)
(* OdooClient for TLC: a call whose method is read-only or not, between    *)
(* authentications that overlap in every order and as many safety contexts *)
(* as the cfg gives; and the configuration its clients may be made from.   *)
(***************************************************************************)
EXTENDS OdooClient, Config

MCMethod == {"read", "unlink"}

\* docs/guides/safety-guards.md: of the client's own methods, the ones that
\* change nothing are the ones a guard lets through.
ASSUME HelpersAreGuarded ==
    {m \in Helper : infer_safety_level(m) # "READ"} = {"create", "write", "unlink"}

\* "At this point all values are guaranteed non-None/non-empty"
\* (config.py:43), whatever the environment; and an alias neither overrides
\* its variable nor is needed beside it.
ASSUME ConfigIsWhole ==
    \A env \in Environment :
        LET given == config_from_env(env)
            names == [url |-> {"URL"}, database |-> {"DB", "DATABASE"},
                      username |-> {"USER", "USERNAME"}, password |-> {"PASSWORD"}]
        IN  IF given.raised = "nothing"
            THEN \A s \in DOMAIN given.config :
                     /\ given.config[s] \in names[s]
                     /\ given.config[s] \in {"DATABASE", "USERNAME"} =>
                            \A v \in names[s] \ {given.config[s]} : ~IsSet(env[v])
            ELSE \E s \in DOMAIN names : \A v \in names[s] : ~IsSet(env[v])

=============================================================================
