------------------------------- MODULE Config -------------------------------
(***************************************************************************)
(* config.py: the client's configuration, read from environment variables  *)
(* that have aliases and may be unset or empty, and create_client up to    *)
(* its authenticate, which is OdooClient's.                                *)
(***************************************************************************)

\* What follows the prefix in the names of the variables.
Variable == {"URL", "DB", "DATABASE", "USER", "USERNAME", "PASSWORD"}

\* A variable is unset, empty, or has a value of its own, here its name.
Environment == {env \in [Variable -> Variable \cup {"unset", ""}] :
                  \A v \in Variable : env[v] \in {v, "unset", ""}}

IsSet(value) == value \notin {"unset", ""}

\* Python's "or".
Or(value, alias) == IF IsSet(value) THEN value ELSE alias

Settings(env) ==
    [url      |-> env["URL"],
     database |-> Or(env["DB"], env["DATABASE"]),
     username |-> Or(env["USER"], env["USERNAME"]),
     password |-> env["PASSWORD"]]

missing(env) == {s \in DOMAIN Settings(env) : ~IsSet(Settings(env)[s])}

\* OdooError names all that is missing, or the configuration: it never has a
\* safety context.
config_from_env(env) ==
    IF missing(env) # {} THEN [raised |-> "OdooError", names |-> missing(env)]
    ELSE [raised |-> "nothing", config |-> Settings(env), safety |-> "None"]

=============================================================================
