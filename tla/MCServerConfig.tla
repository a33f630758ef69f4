--------------------------- MODULE MCServerConfig ---------------------------
(***************************************************************************)
(* An instance of ServerConfig for TLC: an int has 4 bits, a long 8, and a *)
(* kilobyte 4 bytes, so that small numbers leave their words.              *)
(***************************************************************************)
EXTENDS ServerConfig

N(number) == [number |-> number, tail |-> "end"]
T(number, tail) == [number |-> number, tail |-> tail]
Set(key, texts) == {[key |-> key, value |-> t] : t \in texts}

\* -4 and 0 as an int; 0, -64 and 64 with a unit, as a long
Large == {N(12), N(16), T(32, "m"), T(3, "g"), T(-3, "g")}
MCTexts == Large \cup {N(i) : i \in -1..7}
           \cup {T(3, "k"), T(2, "m"), T(-1, "k"), T(5, "space"), T(5, "other"), T(5, "long")}

MCArgs ==
    Set("help", {N(0)}) \cup Set("unknown", {N(0)})
    \cup Set("port", {N(3), N(-1), N(12), T(5, "other")})
    \cup Set("txn_timeout", {N(6), N(16)})
    \cup Set("log_level", {N(0), N(5)})
    \cup Set("map_size", {T(3, "k"), T(-1, "k"), T(-3, "g"), T(5, "space")})
    \cup Set("config_path", {T(5, "other")})
    \cup Set("db_path", {T(5, "other"), T(5, "long")})

MCLines ==
    Set("blank", {N(0)}) \cup Set("noise", {N(0)})
    \cup Set("port", {N(4), N(-1), T(5, "other")})
    \cup Set("txn_timeout", {N(0), N(16)})
    \cup Set("log_level", {N(7)})
    \cup Set("db_path", {T(5, "other"), T(5, "long")})
    \cup Set("map_size", {T(2, "m"), T(3, "g"), T(32, "m"), T(5, "other")})
    \cup Set("query_max_depth", {N(0), N(2)})
    \cup Set("max_value_bytes", {N(5), T(-1, "k")})

MCDefault ==
    [key \in Keys |->
        CASE key = "log_level" -> 1
          [] key \in TextKeys -> N(1)
          [] OTHER -> 5]

=============================================================================
