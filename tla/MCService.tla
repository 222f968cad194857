------------------------------- MODULE MCService -------------------------------
(***************************************************************************)
(* Service with two requests, an int32 of four bits and an int64 of six.   *)
(* Environments differ from one that is accepted in one variable, or in    *)
(* two of three: values at, below and above the bounds, and numbers that   *)
(* wrap into range.                                                        *)
(***************************************************************************)
EXTENDS Service, TLC

CONSTANTS none, bad

MCFallback ==
    "PORT" :> 4 @@ "MAX_REQUEST_BYTES" :> 9 @@ "MAX_CELLS" :> 5 @@ "DB_MAX_CONNS" :> 2
    @@ "REQUEST_TIMEOUT" :> 5 @@ "DB_TIMEOUT" :> 4 @@ "SHUTDOWN_TIMEOUT" :> 3

Plain ==
    [url |-> "url", rw |-> <<"w", 3>>, ro |-> <<"r", 3>>]
    @@ [n \in {Numbers[i] : i \in DOMAIN Numbers} |-> none]

Variants(name) ==
    CASE name = "url" -> {""}
      [] name \in {"rw", "ro"} -> {<<"r", 3>>, <<"", 0>>, <<"s", 2>>}
      [] name = "PORT" -> {bad, 0, 6, 7, Max64 + 1}
      [] name = "MAX_REQUEST_BYTES" -> {bad, -1, 0, Max64, Max64 + 1}
      [] name = "MAX_CELLS" -> {0, 1, 6}
      [] name = "DB_MAX_CONNS" -> {bad, -1, 0, 1, Max32, Max32 + 1, 2 * Max32 + 3, Max64 + 1}
      [] name \in {"REQUEST_TIMEOUT", "DB_TIMEOUT"} -> {none, bad, -1, 0, 1, 2, 3, 4, 5, 6}
      [] OTHER -> {bad, 0, 1}

MCEnvironment ==
    {Plain} \cup UNION {{[Plain EXCEPT ![name] = v] : v \in Variants(name)} : name \in DOMAIN Plain}
    \cup {[Plain EXCEPT !.REQUEST_TIMEOUT = v, !.DB_TIMEOUT = w] :
             v \in Variants("REQUEST_TIMEOUT"), w \in Variants("DB_TIMEOUT")}
=============================================================================
