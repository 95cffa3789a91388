----------------------------- MODULE MCStartup -----------------------------
(* A small instance of Startup for TLC. *)
EXTENDS Startup

(* Three tables in two files; the repository has six in one. *)
TwoFiles == <<2, 1>>

AnyConfig ==
    {c \in Config : /\ c.env = "dev" => ~c.key
                    /\ c.backend # "mysql" => c.dsn = "none"}
=============================================================================
