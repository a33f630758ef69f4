---------------------------- MODULE ServerConfig ----------------------------
(***************************************************************************)
(* How the server comes to its settings (config.c, main.c, and the first   *)
(* half of http_server_init): the defaults, then the command line, then    *)
(* the configuration file, which is always loaded and has the last word,   *)
(* and last the values that http_server_init puts in place of what it      *)
(* cannot use.                                                             *)
(*                                                                         *)
(* A value on the command line or in the file is a text.  All that is kept *)
(* of it is how it begins as a number, what stands behind the digits, and  *)
(* whether it is too long for the array that a text is copied to.          *)
(* fgets takes a line of the file in pieces of 1023 characters; a piece is *)
(* what is called a line here.                                             *)
(***************************************************************************)
EXTENDS Integers, Sequences

CONSTANTS
    None,
    IntSpan,        \* how many values an int has: 2^32
    LongSpan,       \* how many values a long, long long and size_t have: 2^64
    Kilo,           \* 1024
    Texts,          \* the values that are given
    Args,           \* the options that are given
    Lines,          \* the lines of the configuration files
    MaxArgs, MaxLines,      \* bounds on the length of both
    Default,        \* config_init
    ServerDefault   \* SERVER_DEFAULT_* and HANDLE_DEFAULT_*

IntKeys == {"port", "max_connections", "txn_timeout", "query_max_depth", "log_level"}
SizeKeys == {"map_size", "max_value_bytes"}
TextKeys == {"host", "db_path", "log_output", "config_path"}
Keys == IntKeys \cup SizeKeys \cup TextKeys

\* What a server cannot work with unless it is above zero.
Positive == {"port", "max_connections", "query_max_depth"} \cup SizeKeys

\* No options for query_max_depth and max_value_bytes, and no line config_path.
ArgKeys == Keys \ {"query_max_depth", "max_value_bytes"}
LineKeys == Keys \ {"config_path"}

Text == [number: Int,
         tail: {"end", "space", "k", "m", "g", "other", "long", "cut"}]

\* Neither digits, a unit nor a space: "long" fills more than the array of a
\* text, and "cut" is what is left of that.
Junk == {"other", "long", "cut"}
Setting(keys) == [key: keys, value: Texts]

\* f gives each of these keys a number, or a text.
Settings(f, keys) ==
    /\ f = [key \in keys |-> f[key]]
    /\ \A key \in keys : IF key \in TextKeys THEN f[key] \in Text
                          ELSE f[key] \in Int

ASSUME ConfigAssumption ==
    /\ IntSpan \in Nat \ {0} /\ LongSpan \in Nat \ {0} /\ Kilo \in Nat \ {0}
    /\ IntSpan <= LongSpan
    /\ Texts \subseteq Text
    /\ None \notin Int /\ None \notin Text
    /\ Args \subseteq Setting(ArgKeys \cup {"help", "unknown"})
    /\ Lines \subseteq Setting(LineKeys \cup {"blank", "noise"})
    /\ MaxArgs \in Nat /\ MaxLines \in Nat
    /\ Settings(Default, Keys) /\ Settings(ServerDefault, Keys)
    /\ \A key \in SizeKeys : Default[key] \in Nat
    /\ \A key \in Positive : ServerDefault[key] > 0

VARIABLES
    phase,      \* "args", "open", "file", "server", "serving", "stopped"
    args,       \* the options getopt_long has returned
    lines,      \* the lines that were read
    config,     \* config_t of main
    served      \* server->config, when http_server_init is done

vars == <<phase, args, lines, config, served>>

Init ==
    /\ phase = "args"
    /\ args = <<>>
    /\ lines = <<>>
    /\ config = Default
    /\ served = None

-----------------------------------------------------------------------------
\* What a number becomes in a word of so many values, in two's complement.
Wrap(n, span) == ((n + span \div 2) % span) - span \div 2

\* strtol and strtoll stay at the end of their range.
strtol(t) ==
    LET least == -(LongSpan \div 2)
        most == LongSpan \div 2 - 1
    IN IF t.number < least THEN least ELSE IF t.number > most THEN most ELSE t.number

\* Mutant: what stands behind the digits is not looked at.
IntPrefix(t) == {Wrap(strtol(t), IntSpan)}

\* parse_int: nothing or a space may follow, and no digits at all are a zero.
parse_int(t) ==
    IF t.tail \in {"end", "space"} THEN {Wrap(strtol(t), IntSpan)} ELSE {None}

Unit(tail) ==
    CASE tail = "k" -> Kilo
      [] tail = "m" -> Kilo * Kilo
      [] tail = "g" -> Kilo * Kilo * Kilo
      [] OTHER -> 1

\* Mutant: one unit for all suffixes.
SizeKilo(t) ==
    LET val == strtol(t)
        product == val * (IF Unit(t.tail) = 1 THEN 1 ELSE Kilo)
    IN IF t.tail \in Junk \/ product < 0 THEN {None} ELSE {product}

\* parse_size: the values it may give.  The product is not checked: where it
\* leaves its range a compiler may test its sign, or that of val.
parse_size(t) ==
    LET val == strtol(t)
        product == val * Unit(t.tail)
        wrapped == Wrap(product, LongSpan)
    IN IF t.tail \in Junk THEN {None}
       ELSE IF wrapped = product
            THEN IF product < 0 THEN {None} ELSE {product}
            ELSE {IF wrapped < 0 THEN None ELSE wrapped,
                  IF val < 0 THEN None ELSE wrapped % LongSpan}

\* strncpy into the array of a text key, which ends in a NUL: nothing tells
\* that a text was cut.
Copied(t) == IF t.tail = "long" THEN [t EXCEPT !.tail = "cut"] ELSE t

\* What a text may become as the value of a key, None if it is refused.
Parsed(key, text) ==
    IF key \in IntKeys THEN parse_int(text)
    ELSE IF key \in SizeKeys THEN parse_size(text)
    ELSE {Copied(text)}

-----------------------------------------------------------------------------
\* Mutant: an option that cannot be read is passed over, as in the file.
ArgLenient ==
    /\ phase = "args" /\ Len(args) < MaxArgs
    /\ \E arg \in Args :
          /\ args' = Append(args, arg)
          /\ IF arg.key \notin ArgKeys
             THEN phase' = "stopped" /\ UNCHANGED config
             ELSE \E value \in Parsed(arg.key, arg.value) :
                  /\ config' = IF value = None THEN config
                               ELSE [config EXCEPT ![arg.key] = value]
                  /\ UNCHANGED phase
    /\ UNCHANGED <<lines, served>>

\* The next option.  Help and an option that is unknown or cannot be read end
\* the program; only here has log_level to be one of the four.
config_parse_args ==
    /\ phase = "args" /\ Len(args) < MaxArgs
    /\ \E arg \in Args :
          /\ args' = Append(args, arg)
          /\ IF arg.key \notin ArgKeys
             THEN phase' = "stopped" /\ UNCHANGED config
             ELSE \E value \in Parsed(arg.key, arg.value) :
                  IF \/ value = None
                     \/ arg.key = "log_level" /\ value \notin 0..3
                  THEN phase' = "stopped" /\ UNCHANGED config
                  ELSE /\ config' = [config EXCEPT ![arg.key] = value]
                       /\ UNCHANGED phase
    /\ UNCHANGED <<lines, served>>

ArgsEnd ==
    /\ phase = "args"
    /\ phase' = "open"
    /\ UNCHANGED <<args, lines, config, served>>

\* fopen of config_path.  main goes on without the file, whoever has named it.
OpenFile ==
    /\ phase = "open"
    /\ phase' \in {"file", "server"}
    /\ UNCHANGED <<args, lines, config, served>>

\* Mutant: the first line of a key counts, not the last.
LoadFirst ==
    /\ phase = "file" /\ Len(lines) < MaxLines
    /\ \E line \in Lines :
          /\ lines' = Append(lines, line)
          /\ IF line.key \notin LineKeys THEN UNCHANGED config
             ELSE \E value \in Parsed(line.key, line.value) :
                  IF value = None \/ config[line.key] # Default[line.key]
                  THEN UNCHANGED config
                  ELSE config' = [config EXCEPT ![line.key] = value]
    /\ UNCHANGED <<phase, args, served>>

\* Mutant: the value of a line is stored though it could not be read.
LoadUnread ==
    /\ phase = "file" /\ Len(lines) < MaxLines
    /\ \E line \in Lines :
          /\ lines' = Append(lines, line)
          /\ IF line.key \notin LineKeys THEN UNCHANGED config
             ELSE \E value \in Parsed(line.key, line.value) :
                  config' = [config EXCEPT ![line.key] = value]
    /\ UNCHANGED <<phase, args, served>>

\* The next line.  What cannot be understood is passed over with a warning.
config_load ==
    /\ phase = "file" /\ Len(lines) < MaxLines
    /\ \E line \in Lines :
          /\ lines' = Append(lines, line)
          /\ IF line.key \notin LineKeys THEN UNCHANGED config
             ELSE \E value \in Parsed(line.key, line.value) :
                  IF value = None THEN UNCHANGED config
                  ELSE config' = [config EXCEPT ![line.key] = value]
    /\ UNCHANGED <<phase, args, served>>

FileEnd ==
    /\ phase = "file"
    /\ phase' = "server"
    /\ UNCHANGED <<args, lines, config, served>>

\* config_to_server_config hands over all but log_level, log_output and
\* config_path, which main uses itself.
ServerKeys == Keys \ {"log_level", "log_output", "config_path"}

\* Mutant: only zero stands for the default.
UsableZero(key, value) ==
    IF key \in Positive /\ value = 0 THEN ServerDefault[key] ELSE value

\* http_server_init: a setting it cannot use becomes the default; txn_timeout
\* stays, since nothing or less turns the check off.
Usable(key, value) ==
    IF \/ key \in Positive \ SizeKeys /\ value <= 0
       \/ key \in SizeKeys /\ value = 0
    THEN ServerDefault[key] ELSE value

\* The environment is opened with these settings, or that fails.
http_server_init ==
    /\ phase = "server"
    /\ served' = [key \in ServerKeys |-> Usable(key, config[key])]
    /\ phase' \in {"serving", "stopped"}
    /\ UNCHANGED <<args, lines, config>>

Ended == phase \in {"serving", "stopped"} /\ UNCHANGED vars

Next ==
    \/ config_parse_args \/ ArgsEnd
    \/ OpenFile \/ config_load \/ FileEnd
    \/ http_server_init
    \/ Ended

Spec == Init /\ [][Next]_vars

-----------------------------------------------------------------------------
TypeOK ==
    /\ phase \in {"args", "open", "file", "server", "serving", "stopped"}
    /\ args \in Seq(Args)
    /\ lines \in Seq(Lines)
    /\ Settings(config, Keys)
    /\ served # None => Settings(served, ServerKeys)

\* What a text means to whoever writes it.  A unit stands right behind the
\* digits: 10 M are ten bytes.
Meant(key, text) ==
    IF key \in IntKeys THEN text.number
    ELSE IF key \in SizeKeys THEN text.number * Unit(text.tail)
    ELSE text

\* A number with something behind it that is neither a space nor a unit of the
\* key, or a size below zero.
Senseless(key, text) ==
    \/ key \in IntKeys /\ text.tail \notin {"end", "space"}
    \/ /\ key \in SizeKeys
       /\ \/ text.tail \in Junk
          \/ Meant(key, text) \in (-(LongSpan \div 2))..(-1)

Fits(key, text) ==
    /\ key \in IntKeys =>
          text.number \in (-(IntSpan \div 2))..(IntSpan \div 2 - 1)
    /\ key \in SizeKeys => Meant(key, text) \in 0..(LongSpan \div 2 - 1)
    /\ key \in TextKeys => text.tail # "long"

\* Where a key has been given a value that makes sense.
Of(key, inputs) ==
    {i \in 1..Len(inputs) :
        inputs[i].key = key /\ ~Senseless(key, inputs[i].value)}

\* What a text may do to the setting: what is meant, if it fits its word or
\* its array, and else one of the values it wraps to, or its beginning.
Becomes(key, text) ==
    IF Fits(key, text) THEN {Meant(key, text)} ELSE Parsed(key, text) \ {None}

\* The value is what was said of the key last, or the default if nothing was.
\* Only what does not fit may be passed over, since it may wrap to something
\* that is refused.
IsLastWord(value, key, inputs) ==
    LET said == Of(key, inputs)
        Last(i) == \A j \in said : j > i => ~Fits(key, inputs[j].value)
    IN \/ value = Default[key] /\ Last(0)
       \/ \E i \in said : Last(i) /\ value \in Becomes(key, inputs[i].value)

\* A setting is what was said of it last, in its source and in the source that
\* has precedence; what makes no sense is passed over in the file, what nobody
\* mentions keeps its default, and what leaves its word or array disturbs no
\* other setting and nothing that is said after it.  Which of the two sources
\* has precedence is left open here: CommandLineWins is what the documents say.
LastWordCounts ==
    phase # "stopped" =>
        \A key \in Keys : \/ IsLastWord(config[key], key, lines \o args)
                          \/ IsLastWord(config[key], key, args \o lines)

\* Whatever the command line and the file say, however their numbers wrap: the
\* port, the queue, the map and both limits that a server starts with are above
\* zero.
ServedIsUsable ==
    served # None =>
        \A key \in Positive : served[key] > 0

\* An option that cannot be read ends the program before it has opened a file
\* or the database, even if a later option or the file would be right.
BadOption(arg) ==
    \/ arg.key \in {"help", "unknown"}
    \/ Senseless(arg.key, arg.value)
    \/ /\ arg.key = "log_level" /\ arg.value.number \notin 0..3
       /\ Fits(arg.key, arg.value)

BadOptionStops ==
    (\E i \in 1..Len(args) : BadOption(args[i])) =>
        phase = "stopped" /\ lines = <<>> /\ served = None

-----------------------------------------------------------------------------
\* doc/lmjcore-web/lmjcore_web.md, section 7.1: the command line has the highest
\* priority and overrides the other settings.  This is about the last mention of
\* a key on the command line, if it makes sense and fits.
CommandLineWins ==
    phase \in {"server", "serving"} =>
        \A key \in Keys, i \in 1..Len(args) :
            LET said == Of(key, args)
            IN i \in said /\ (\A j \in said : j <= i) /\ Fits(key, args[i].value) =>
                  config[key] = Meant(key, args[i].value)

\* A transaction timeout is off only if somebody has asked for zero or less.
TimeoutStaysOn ==
    served # None /\ served["txn_timeout"] <= 0 =>
        \E i \in 1..Len(args \o lines) :
            /\ (args \o lines)[i].key = "txn_timeout"
            /\ (args \o lines)[i].value.number <= 0

=============================================================================
