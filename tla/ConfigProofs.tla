---------------------------- MODULE ConfigProofs ----------------------------
(***************************************************************************)
(* What holds of the configuration for words of any width, and for any     *)
(* options and lines, however many.                                        *)
(***************************************************************************)
EXTENDS ServerConfig, SequenceTheorems, TLAPS

USE ConfigAssumption

\* A word wraps to an integer.
LEMMA WrapIsInt ==
    ASSUME NEW n \in Int, NEW span \in Nat \ {0}
    PROVE  Wrap(n, span) \in Int
  <1>1. span \div 2 \in Int
    OBVIOUS
  <1> DEFINE half == span \div 2
  <1> HIDE DEF half
  <1>2. (n + half) % span \in Int
    BY <1>1 DEF half
  <1>3. QED
    BY <1>1, <1>2 DEF Wrap, half

LEMMA UnitIsPositive == \A tail : Unit(tail) \in Nat \ {0}
  <1>1. Kilo * Kilo \in Nat \ {0}
    OBVIOUS
  <1>2. Kilo * Kilo * Kilo \in Nat \ {0}
    BY <1>1
  <1>3. QED
    BY <1>1, <1>2 DEF Unit

LEMMA NumberIsInt == ASSUME NEW t \in Texts PROVE t.number \in Int /\ strtol(t) \in Int
  <1>1. t.number \in Int
    BY DEF Text
  <1>2. LongSpan \div 2 \in Int
    OBVIOUS
  <1>3. QED
    BY <1>1, <1>2 DEF strtol

\* What is left of a text that is too long is a text.
LEMMA CopiedIsText == \A t \in Texts : Copied(t) \in Text
  <1>1. Texts \subseteq Text
    BY ConfigAssumption
  <1>2. QED
    BY <1>1 DEF Text, Copied

\* Whatever is written, and whichever sign a compiler tests: a size is no less
\* than zero.
LEMMA ParsedIsTyped ==
    ASSUME NEW key \in Keys, NEW t \in Texts, NEW value \in Parsed(key, t),
           value # None
    PROVE  /\ key \in TextKeys => value \in Text
           /\ key \notin TextKeys => value \in Int
           /\ key \in SizeKeys => value \in Nat
  <1>1. CASE key \in IntKeys
    <2>1. value = Wrap(strtol(t), IntSpan)
      BY <1>1 DEF Parsed, parse_int, IntKeys
    <2>2. value \in Int
      BY <2>1, NumberIsInt, WrapIsInt
    <2>3. QED
      BY <1>1, <2>2 DEF IntKeys, SizeKeys, TextKeys
  <1>2. CASE key \in SizeKeys
    <2> DEFINE product == strtol(t) * Unit(t.tail)
               wrapped == Wrap(product, LongSpan)
    <2>1. product \in Int
      BY NumberIsInt, UnitIsPositive
    <2>2. wrapped \in Int
      BY <2>1, WrapIsInt
    <2>3. /\ value \in parse_size(t)
          /\ key \notin IntKeys /\ key \notin TextKeys
      BY <1>2 DEF Parsed, IntKeys, SizeKeys, TextKeys
    <2>4. \/ value = product /\ ~(product < 0)
          \/ value = wrapped /\ ~(wrapped < 0)
          \/ value = wrapped % LongSpan
      BY <2>3 DEF parse_size
    <2> HIDE DEF product, wrapped
    <2>5. value \in Nat
      BY <2>1, <2>2, <2>4
    <2>6. QED
      BY <2>3, <2>5
  <1>3. CASE key \in TextKeys
    <2>1. value = Copied(t) /\ key \notin SizeKeys
      BY <1>3 DEF Parsed, IntKeys, SizeKeys, TextKeys
    <2>2. QED
      BY <1>3, <2>1, CopiedIsText
  <1>4. QED
    BY <1>1, <1>2, <1>3 DEF Keys

-----------------------------------------------------------------------------
\* What is kept from step to step: sizes are naturals while config is read, and
\* after it served is usable.
SizesAreNat == \A key \in SizeKeys : config[key] \in Nat

Invariant == TypeOK /\ SizesAreNat /\ ServedIsUsable

\* One setting of config becomes another value of its type.
LEMMA OneSetting ==
    ASSUME Settings(config, Keys), SizesAreNat,
           NEW key \in Keys, NEW t \in Texts, NEW value \in Parsed(key, t),
           value # None, config' = [config EXCEPT ![key] = value]
    PROVE  Settings(config', Keys) /\ SizesAreNat'
  <1>1. /\ key \in TextKeys => value \in Text
        /\ key \notin TextKeys => value \in Int
        /\ key \in SizeKeys => value \in Nat
    BY ParsedIsTyped
  <1>2. \A other \in Keys :
           config'[other] = IF other = key THEN value ELSE config[other]
    BY DEF Settings
  <1>3. config' = [other \in Keys |-> config'[other]]
    BY DEF Settings
  <1>4. SizeKeys \subseteq Keys
    BY DEF Keys
  <1>5. SizesAreNat'
    BY <1>1, <1>2, <1>4 DEF SizesAreNat
  <1>6. QED
    BY <1>1, <1>2, <1>3, <1>5 DEF Settings

LEMMA ServedAtTheEnd ==
    ASSUME Settings(config, Keys), SizesAreNat,
           served' = [key \in ServerKeys |-> Usable(key, config[key])]
    PROVE  Settings(served', ServerKeys) /\ ServedIsUsable'
  <1>1. ServerKeys \subseteq Keys /\ Positive \subseteq ServerKeys
    BY DEF ServerKeys, Positive, Keys, IntKeys, SizeKeys, TextKeys
  <1>2. \A key \in ServerKeys : served'[key] = Usable(key, config[key])
    OBVIOUS
  <1>3. \A key \in ServerKeys : IF key \in TextKeys THEN served'[key] \in Text
                                ELSE served'[key] \in Int
    <2>1. Positive \cap TextKeys = {}
      BY DEF Positive, SizeKeys, TextKeys
    <2>2. \A key \in ServerKeys : served'[key] \in {config[key], ServerDefault[key]}
      BY <1>2 DEF Usable
    <2>3. QED
      BY <1>1, <2>2 DEF Settings
  <1>4. \A key \in Positive : served'[key] > 0
    <2>1. TAKE key \in Positive
    <2>2. key \in ServerKeys /\ key \notin TextKeys
      BY <1>1 DEF Positive, SizeKeys, TextKeys
    <2>3. ServerDefault[key] > 0 /\ ServerDefault[key] \in Int
      BY <1>1, <2>2 DEF Settings
    <2>4. config[key] \in Int /\ (key \in SizeKeys => config[key] \in Nat)
      BY <1>1, <2>2 DEF Settings, SizesAreNat
    <2>5. QED
      BY <1>2, <2>2, <2>3, <2>4 DEF Usable
  <1>5. served' = [key \in ServerKeys |-> served'[key]]
    OBVIOUS
  <1>6. QED
    BY <1>3, <1>4, <1>5 DEF Settings, ServedIsUsable

LEMMA Initial == Init => Invariant
  <1>1. SUFFICES ASSUME Init PROVE Invariant
    OBVIOUS
  <1>2. TypeOK
    BY <1>1 DEF Init, TypeOK
  <1>3. SizesAreNat
    BY <1>1 DEF Init, SizesAreNat
  <1>4. QED
    BY <1>1, <1>2, <1>3 DEF Init, Invariant, ServedIsUsable

LEMMA Step == Invariant /\ [Next]_vars => Invariant'
  <1> SUFFICES ASSUME Invariant, [Next]_vars PROVE Invariant'
    OBVIOUS
  <1> USE DEF Invariant
  <1>1. CASE config_parse_args
    <2>1. PICK arg \in Args :
             /\ args' = Append(args, arg)
             /\ IF arg.key \notin ArgKeys
                THEN phase' = "stopped" /\ UNCHANGED config
                ELSE \E value \in Parsed(arg.key, arg.value) :
                     IF \/ value = None
                        \/ arg.key = "log_level" /\ value \notin 0..3
                     THEN phase' = "stopped" /\ UNCHANGED config
                     ELSE /\ config' = [config EXCEPT ![arg.key] = value]
                          /\ UNCHANGED phase
      BY <1>1 DEF config_parse_args
    <2>2. /\ UNCHANGED <<lines, served>>
          /\ phase' \in {phase, "stopped"}
      BY <1>1 DEF config_parse_args
    <2>3. args' \in Seq(Args)
      BY <2>1 DEF TypeOK
    <2>4. Settings(config', Keys) /\ SizesAreNat'
      <3>1. CASE UNCHANGED config
        BY <3>1 DEF TypeOK, Settings, SizesAreNat
      <3>2. CASE ~UNCHANGED config
        <4>1. PICK value \in Parsed(arg.key, arg.value) :
                 value # None /\ config' = [config EXCEPT ![arg.key] = value]
          BY <2>1, <3>2
        <4>2. arg.key \in Keys /\ arg.value \in Texts
          BY <2>1, <3>2 DEF ArgKeys, Setting
        <4>3. QED
          BY <4>1, <4>2, OneSetting DEF TypeOK
      <3>3. QED
        BY <3>1, <3>2
    <2>5. QED
      BY <2>2, <2>3, <2>4 DEF TypeOK, ServedIsUsable
  <1>2. CASE config_load
    <2>1. PICK line \in Lines :
             /\ lines' = Append(lines, line)
             /\ IF line.key \notin LineKeys THEN UNCHANGED config
                ELSE \E value \in Parsed(line.key, line.value) :
                     IF value = None THEN UNCHANGED config
                     ELSE config' = [config EXCEPT ![line.key] = value]
      BY <1>2 DEF config_load
    <2>2. UNCHANGED <<phase, args, served>>
      BY <1>2 DEF config_load
    <2>3. lines' \in Seq(Lines)
      BY <2>1 DEF TypeOK
    <2>4. Settings(config', Keys) /\ SizesAreNat'
      <3>1. CASE UNCHANGED config
        BY <3>1 DEF TypeOK, Settings, SizesAreNat
      <3>2. CASE ~UNCHANGED config
        <4>1. PICK value \in Parsed(line.key, line.value) :
                 value # None /\ config' = [config EXCEPT ![line.key] = value]
          BY <2>1, <3>2
        <4>2. line.key \in Keys /\ line.value \in Texts
          BY <2>1, <3>2 DEF LineKeys, Setting
        <4>3. QED
          BY <4>1, <4>2, OneSetting DEF TypeOK
      <3>3. QED
        BY <3>1, <3>2
    <2>5. QED
      BY <2>2, <2>3, <2>4 DEF TypeOK, ServedIsUsable
  <1>3. CASE http_server_init
    <2>1. Settings(served', ServerKeys) /\ ServedIsUsable'
      BY <1>3, ServedAtTheEnd DEF http_server_init, TypeOK
    <2>2. UNCHANGED <<args, lines, config>> /\ phase' \in {"serving", "stopped"}
      BY <1>3 DEF http_server_init
    <2>3. QED
      BY <2>1, <2>2 DEF TypeOK, SizesAreNat, Settings
  <1>4. CASE ArgsEnd \/ OpenFile \/ FileEnd
    <2>1. /\ UNCHANGED <<args, lines, config, served>>
          /\ phase' \in {"open", "file", "server"}
      BY <1>4 DEF ArgsEnd, OpenFile, FileEnd
    <2>2. QED
      BY <2>1 DEF TypeOK, SizesAreNat, Settings, ServedIsUsable
  <1>5. CASE UNCHANGED vars
    BY <1>5 DEF vars, TypeOK, SizesAreNat, Settings, ServedIsUsable
  <1>6. QED
    BY <1>1, <1>2, <1>3, <1>4, <1>5 DEF Next, Ended

LEMMA Invariance == Spec => []Invariant
  BY Initial, Step, PTL DEF Spec

\* Every variable keeps its type.
THEOREM TypeCorrect == Spec => []TypeOK
  <1>1. Invariant => TypeOK
    BY DEF Invariant
  <1>2. QED
    BY <1>1, Invariance, PTL

\* Whatever an operator writes, and in words of any width: a server never starts
\* with a port, a queue, a map or a limit of zero or less.
THEOREM AlwaysUsable == Spec => []ServedIsUsable
  <1>1. Invariant => ServedIsUsable
    BY DEF Invariant
  <1>2. QED
    BY <1>1, Invariance, PTL

-----------------------------------------------------------------------------
\* A number that fits its word stays what it is.
LEMMA WrapKeeps ==
    ASSUME NEW span \in Nat \ {0}, NEW n \in Int,
           -(span \div 2) <= n, n <= span \div 2 - 1
    PROVE  Wrap(n, span) = n
  <1> DEFINE half == span \div 2
  <1>1. half \in Nat /\ 2 * half <= span
    OBVIOUS
  <1> HIDE DEF half
  <1>2. -half <= n /\ n <= half - 1
    BY DEF half
  <1>3. n + half \in 0..(span - 1)
    BY <1>1, <1>2
  <1>4. (n + half) % span = n + half
    BY <1>1, <1>3
  <1>5. QED
    BY <1>1, <1>4 DEF Wrap, half

LEMMA ProductOfNegative ==
    ASSUME NEW n \in Int, n < 0, NEW unit \in Nat \ {0}
    PROVE  n * unit <= n
  OBVIOUS

\* A number that fits a long is what strtol makes of it.
LEMMA StrtolKeeps ==
    ASSUME NEW t \in Texts,
           -(LongSpan \div 2) <= t.number, t.number <= LongSpan \div 2 - 1
    PROVE  strtol(t) = t.number
  <1>1. t.number \in Int /\ LongSpan \div 2 \in Int
    BY NumberIsInt
  <1>2. QED
    BY <1>1 DEF strtol

LEMMA SenselessIsRefused ==
    ASSUME NEW key \in Keys, NEW t \in Texts, Senseless(key, t)
    PROVE  Parsed(key, t) = {None}
  <1>1. CASE key \in IntKeys
    BY <1>1 DEF Senseless, Parsed, parse_int, IntKeys, SizeKeys
  <1>2. CASE key \in SizeKeys
    <2>1. key \notin IntKeys /\ Parsed(key, t) = parse_size(t)
      BY <1>2 DEF Parsed, IntKeys, SizeKeys
    <2>2. CASE t.tail \in Junk
      BY <2>1, <2>2 DEF parse_size
    <2>3. CASE t.tail \notin Junk
      <3> DEFINE half == LongSpan \div 2
                 unit == Unit(t.tail)
                 product == t.number * unit
      <3>1. half \in Int /\ t.number \in Int /\ unit \in Nat \ {0}
        BY NumberIsInt, UnitIsPositive
      <3>2. -half <= product /\ product <= -1
        BY <1>2, <2>1, <2>3, <3>1 DEF Senseless, Meant
      <3>3. t.number < 0 /\ product <= t.number /\ product \in Int
        <4> HIDE DEF half, unit
        <4>1. t.number < 0
          BY <3>1, <3>2
        <4>2. QED
          BY <3>1, <4>1, ProductOfNegative
      <3> HIDE DEF unit
      <3>4. strtol(t) = t.number
        <4> HIDE DEF product
        <4>1. -half <= t.number /\ t.number <= half - 1
          BY <3>1, <3>2, <3>3 DEF half
        <4>2. QED
          BY <4>1, StrtolKeeps
      <3>5. Wrap(product, LongSpan) = product
        <4> HIDE DEF product
        <4>1. product <= half - 1
          BY <3>1, <3>2, <3>3
        <4>2. QED
          BY <3>2, <3>3, <4>1, WrapKeeps
      <3>6. product < 0
        <4> HIDE DEF product
        <4>1. QED
          BY <3>2, <3>3
      <3>7. QED
        BY <2>1, <2>3, <3>4, <3>5, <3>6 DEF parse_size, unit
    <2>4. QED
      BY <2>2, <2>3
  <1>3. QED
    BY <1>1, <1>2 DEF Senseless

\* An option that is bad is not accepted.
LEMMA BadIsRefused ==
    ASSUME NEW arg \in Args, BadOption(arg), arg.key \in ArgKeys,
           NEW value \in Parsed(arg.key, arg.value)
    PROVE  value = None \/ (arg.key = "log_level" /\ value \notin 0..3)
  <1>1. arg.key \in Keys /\ arg.value \in Texts
    BY DEF ArgKeys, Setting
  <1>2. arg.key \notin {"help", "unknown"}
    BY DEF ArgKeys, Keys, IntKeys, SizeKeys, TextKeys
  <1>3. CASE Senseless(arg.key, arg.value)
    BY <1>1, <1>3, SenselessIsRefused
  <1>4. CASE /\ arg.key = "log_level" /\ arg.value.number \notin 0..3
             /\ Fits(arg.key, arg.value)
    <2> DEFINE n == arg.value.number
    <2>1. n \in Int /\ -(IntSpan \div 2) <= n /\ n <= IntSpan \div 2 - 1
      BY <1>1, <1>4, NumberIsInt DEF Fits, IntKeys
    <2>2. IntSpan \div 2 <= LongSpan \div 2
      OBVIOUS
    <2>3. strtol(arg.value) = n
      <3>1. -(LongSpan \div 2) <= n /\ n <= LongSpan \div 2 - 1
        BY <2>1, <2>2
      <3>2. QED
        BY <1>1, <3>1, StrtolKeeps
    <2>4. Wrap(n, IntSpan) = n
      BY <2>1, WrapKeeps
    <2>5. value \in {n, None}
      BY <1>4, <2>3, <2>4 DEF Parsed, parse_int, IntKeys
    <2>6. QED
      BY <1>4, <2>5
  <1>5. QED
    BY <1>2, <1>3, <1>4 DEF BadOption

\* Until the options are read nothing else is.
OptionsFirst == phase = "args" => lines = <<>> /\ served = None

Refusal == TypeOK /\ OptionsFirst /\ BadOptionStops

LEMMA RefusalStep == Refusal /\ TypeOK' /\ [Next]_vars => Refusal'
  <1> SUFFICES ASSUME Refusal, TypeOK', [Next]_vars PROVE Refusal'
    OBVIOUS
  <1> USE DEF Refusal
  <1>1. CASE config_parse_args
    <2>1. PICK arg \in Args :
             /\ args' = Append(args, arg)
             /\ IF arg.key \notin ArgKeys
                THEN phase' = "stopped" /\ UNCHANGED config
                ELSE \E value \in Parsed(arg.key, arg.value) :
                     IF \/ value = None
                        \/ arg.key = "log_level" /\ value \notin 0..3
                     THEN phase' = "stopped" /\ UNCHANGED config
                     ELSE /\ config' = [config EXCEPT ![arg.key] = value]
                          /\ UNCHANGED phase
      BY <1>1 DEF config_parse_args
    <2>2. phase = "args" /\ UNCHANGED <<lines, served>>
      BY <1>1 DEF config_parse_args
    <2>3. lines' = <<>> /\ served' = None
      BY <2>2 DEF OptionsFirst
    <2>4. BadOption(arg) => phase' = "stopped"
      <3>1. CASE arg.key \notin ArgKeys
        BY <2>1, <3>1
      <3>2. CASE arg.key \in ArgKeys
        BY <2>1, <3>2, BadIsRefused
      <3>3. QED
        BY <3>1, <3>2
    <2>5. \A i \in 1..Len(args) : ~BadOption(args[i])
      BY <2>2 DEF BadOptionStops
    <2>6. \A i \in 1..Len(args') : \/ args'[i] = arg
                                   \/ i \in 1..Len(args) /\ args'[i] = args[i]
      <3>1. args \in Seq(Args) /\ args' = Append(args, arg)
        BY <2>1 DEF TypeOK
      <3>2. /\ Len(args') = Len(args) + 1 /\ Len(args) \in Nat
            /\ args'[Len(args) + 1] = arg
            /\ \A i \in 1..Len(args) : args'[i] = args[i]
        BY <3>1
      <3>3. QED
        BY <3>2
    <2>7. BadOptionStops'
      BY <2>3, <2>4, <2>5, <2>6 DEF BadOptionStops
    <2>8. QED
      BY <2>3, <2>7 DEF OptionsFirst
  <1>2. CASE ArgsEnd \/ OpenFile \/ config_load \/ FileEnd \/ http_server_init
    <2>1. phase # "stopped" /\ phase' # "args" /\ args' = args
      BY <1>2 DEF ArgsEnd, OpenFile, config_load, FileEnd, http_server_init
    <2>2. \A i \in 1..Len(args) : ~BadOption(args[i])
      BY <2>1 DEF BadOptionStops
    <2>3. QED
      BY <2>1, <2>2 DEF OptionsFirst, BadOptionStops
  <1>3. CASE UNCHANGED vars
    BY <1>3 DEF vars, OptionsFirst, BadOptionStops
  <1>4. QED
    BY <1>1, <1>2, <1>3 DEF Next, Ended

\* The first option that makes no sense ends the program, and neither the file
\* nor the database has been opened by then.
THEOREM NothingBeforeBadOption == Spec => []BadOptionStops
  <1>1. Init => Refusal
    BY Initial DEF Init, Refusal, Invariant, OptionsFirst, BadOptionStops
  <1>2. Refusal => BadOptionStops
    BY DEF Refusal
  <1>3. QED
    BY <1>1, <1>2, RefusalStep, TypeCorrect, PTL DEF Spec

-----------------------------------------------------------------------------
\* A text that makes sense and fits is read as what it means.
LEMMA FitsIsRead ==
    ASSUME NEW key \in Keys, NEW t \in Texts, ~Senseless(key, t), Fits(key, t)
    PROVE  Parsed(key, t) = {Meant(key, t)} /\ Meant(key, t) # None
  <1>1. CASE key \in IntKeys
    <2> DEFINE n == t.number
    <2>1. n \in Int /\ -(IntSpan \div 2) <= n /\ n <= IntSpan \div 2 - 1
      BY <1>1, NumberIsInt DEF Fits
    <2>2. IntSpan \div 2 <= LongSpan \div 2
      OBVIOUS
    <2>3. strtol(t) = n
      <3>1. -(LongSpan \div 2) <= n /\ n <= LongSpan \div 2 - 1
        BY <2>1, <2>2
      <3>2. QED
        BY <3>1, StrtolKeeps
    <2>4. Wrap(n, IntSpan) = n
      BY <2>1, WrapKeeps
    <2>5. t.tail \in {"end", "space"}
      BY <1>1 DEF Senseless
    <2>6. QED
      BY <1>1, <2>1, <2>3, <2>4, <2>5 DEF Parsed, parse_int, Meant
  <1>2. CASE key \in SizeKeys
    <2> DEFINE half == LongSpan \div 2
               unit == Unit(t.tail)
               product == t.number * unit
    <2>1. half \in Nat /\ t.number \in Int /\ unit \in Nat \ {0}
      BY NumberIsInt, UnitIsPositive
    <2>2. key \notin IntKeys /\ Meant(key, t) = product
      BY <1>2 DEF Meant, IntKeys, SizeKeys
    <2>3. product \in Int /\ 0 <= product /\ product <= half - 1
      <3> HIDE DEF product, unit
      <3>1. product \in 0..(half - 1)
        BY <1>2, <2>2 DEF Fits
      <3>2. QED
        BY <2>1, <3>1
    <2>4. 0 <= t.number /\ t.number <= product
      <3> HIDE DEF half, unit
      <3>1. t.number >= 0
        <4>1. t.number < 0 => product <= t.number
          BY <2>1, ProductOfNegative
        <4>2. QED
          BY <2>1, <2>3, <4>1
      <3>2. QED
        BY <2>1, <3>1
    <2>5. strtol(t) = t.number
      <3> HIDE DEF product, unit
      <3>1. -half <= t.number /\ t.number <= half - 1
        BY <2>1, <2>3, <2>4
      <3>2. QED
        BY <3>1, StrtolKeeps
    <2>6. Wrap(product, LongSpan) = product
      <3> HIDE DEF product
      <3>1. -half <= product
        BY <2>1, <2>3
      <3>2. QED
        BY <2>3, <3>1, WrapKeeps
    <2>7. ~(product < 0) /\ product # None
      <3> HIDE DEF product
      <3>1. QED
        BY <2>3
    <2>8. t.tail \notin Junk
      BY <1>2 DEF Senseless
    <2> HIDE DEF half
    <2>9. parse_size(t) = {product}
      BY <2>5, <2>6, <2>7, <2>8 DEF parse_size
    <2>10. QED
      BY <1>2, <2>2, <2>7, <2>9 DEF Parsed
  <1>3. CASE key \in TextKeys
    <2>1. key \notin IntKeys /\ key \notin SizeKeys
      BY <1>3 DEF IntKeys, SizeKeys, TextKeys
    <2>2. Copied(t) = t /\ t # None
      BY <1>3, ConfigAssumption DEF Fits, Copied
    <2>3. QED
      BY <2>1, <2>2 DEF Parsed, Meant
  <1>4. QED
    BY <1>1, <1>2, <1>3 DEF Keys

\* One more option or line: it is the last word on its key if it makes sense,
\* unless it wraps to nothing, and no word at all on any other.
LEMMA OneMoreInput ==
    ASSUME NEW Inputs, NEW inputs \in Seq(Inputs), NEW new \in Inputs,
           NEW key, NEW before, NEW after,
           IsLastWord(before, key, inputs),
           IF new.key = key /\ ~Senseless(key, new.value)
           THEN \/ after \in Becomes(key, new.value)
                \/ after = before /\ ~Fits(key, new.value)
           ELSE after = before
    PROVE  IsLastWord(after, key, Append(inputs, new))
  <1> DEFINE more == Append(inputs, new)
             n == Len(inputs) + 1
             old == Of(key, inputs)
             said == Of(key, more)
             Last(i) == \A j \in said : j > i => ~Fits(key, more[j].value)
             OldLast(i) == \A j \in old : j > i => ~Fits(key, inputs[j].value)
  <1>1. /\ Len(inputs) \in Nat /\ Len(more) = n /\ more[n] = new
        /\ \A i \in 1..Len(inputs) : more[i] = inputs[i]
    BY AppendProperties, LenProperties
  <1>2. /\ IsLastWord(before, key, inputs) <=>
              \/ before = Default[key] /\ OldLast(0)
              \/ \E i \in old : OldLast(i) /\ before \in Becomes(key, inputs[i].value)
        /\ IsLastWord(after, key, more) <=>
              \/ after = Default[key] /\ Last(0)
              \/ \E i \in said : Last(i) /\ after \in Becomes(key, more[i].value)
    BY Zenon DEF IsLastWord
  <1> HIDE DEF more
  <1>3. \A i \in said : i = n \/ i \in old
    BY <1>1 DEF Of
  <1>4. n \in said <=> new.key = key /\ ~Senseless(key, new.value)
    BY <1>1 DEF Of
  <1>5. \A i \in old : i \in said /\ i <= n /\ more[i] = inputs[i]
    BY <1>1 DEF Of
  <1>6. \A i \in said : i \in Nat /\ i <= n
    BY <1>1 DEF Of
  <1> HIDE DEF old, said, n
  <1>7. CASE after \in Becomes(key, new.value) /\ n \in said
    <2>1. Last(n)
      BY <1>1, <1>6
    <2>2. QED
      BY <1>1, <1>2, <1>7, <2>1 DEF more
  <1>8. CASE after = before /\ (n \in said => ~Fits(key, new.value))
    <2>1. ASSUME NEW i, OldLast(i) PROVE Last(i)
      BY <1>1, <1>3, <1>5, <1>8, <2>1
    <2>2. CASE before = Default[key] /\ OldLast(0)
      BY <1>2, <1>8, <2>1, <2>2 DEF more
    <2>3. CASE \E i \in old : OldLast(i) /\ before \in Becomes(key, inputs[i].value)
      <3>1. PICK i \in old : OldLast(i) /\ before \in Becomes(key, inputs[i].value)
        BY <2>3
      <3>2. i \in said /\ Last(i) /\ after \in Becomes(key, more[i].value)
        BY <1>5, <1>8, <2>1, <3>1
      <3>3. QED
        BY <1>2, <3>2 DEF more
    <2>4. QED
      BY <1>2, <2>2, <2>3
  <1>9. QED
    BY <1>4, <1>7, <1>8

\* An input that is taken sets its key to one of the values its text may become,
\* and leaves the other keys alone.
Takes(input, value) ==
    /\ value # None
    /\ config' = [config EXCEPT ![input.key] = value]

LEMMA InputIsTaken ==
    ASSUME TypeOK, NEW Inputs, NEW inputs \in Seq(Inputs), NEW input \in Inputs,
           \A key \in Keys : IsLastWord(config[key], key, inputs),
           input.key \in Keys, input.value \in Texts,
           NEW value \in Parsed(input.key, input.value),
           Takes(input, value) \/ (value = None /\ UNCHANGED config)
    PROVE  \A key \in Keys : IsLastWord(config'[key], key, Append(inputs, input))
  <1>1. SUFFICES ASSUME NEW key \in Keys
                 PROVE  IsLastWord(config'[key], key, Append(inputs, input))
    OBVIOUS
  <1>2. config'[key] = IF key = input.key /\ value # None THEN value ELSE config[key]
    BY DEF Takes, TypeOK, Settings
  <1>3. CASE input.key = key /\ ~Senseless(key, input.value)
    <2>1. Fits(key, input.value) => Parsed(key, input.value) = {Meant(key, input.value)}
                                    /\ Meant(key, input.value) # None
      BY <1>3, FitsIsRead
    <2>2. \/ config'[key] \in Becomes(key, input.value)
          \/ config'[key] = config[key] /\ ~Fits(key, input.value)
      BY <1>2, <1>3, <2>1 DEF Becomes
    <2>3. QED
      BY <1>3, <2>2, OneMoreInput
  <1>4. CASE ~(input.key = key /\ ~Senseless(key, input.value))
    <2>1. key = input.key => value = None
      BY <1>4, SenselessIsRefused
    <2>2. config'[key] = config[key]
      BY <1>2, <2>1
    <2>3. QED
      BY <1>4, <2>2, OneMoreInput
  <1>5. QED
    BY <1>3, <1>4

\* The same for an input that is about no key of the configuration.
LEMMA InputIsNoSetting ==
    ASSUME NEW Inputs, NEW inputs \in Seq(Inputs), NEW input \in Inputs,
           \A key \in Keys : IsLastWord(config[key], key, inputs),
           input.key \notin Keys, UNCHANGED config
    PROVE  \A key \in Keys : IsLastWord(config'[key], key, Append(inputs, input))
  <1>1. SUFFICES ASSUME NEW key \in Keys
                 PROVE  IsLastWord(config'[key], key, Append(inputs, input))
    OBVIOUS
  <1>2. input.key # key /\ config'[key] = config[key]
    OBVIOUS
  <1>3. QED
    BY <1>2, OneMoreInput

\* An option or a line of the right type.
LEMMA InputTypes ==
    /\ \A arg \in Args : IF arg.key \in ArgKeys
                         THEN arg.key \in Keys /\ arg.value \in Texts
                         ELSE arg.key \notin Keys
    /\ \A line \in Lines : IF line.key \in LineKeys
                           THEN line.key \in Keys /\ line.value \in Texts
                           ELSE line.key \notin Keys
  <1>1. "help" \notin Keys /\ "unknown" \notin Keys /\ "blank" \notin Keys
        /\ "noise" \notin Keys
    BY DEF Keys, IntKeys, SizeKeys, TextKeys
  <1>2. \A arg \in Args : arg \in Setting(ArgKeys \cup {"help", "unknown"})
    OBVIOUS
  <1>3. \A line \in Lines : line \in Setting(LineKeys \cup {"blank", "noise"})
    OBVIOUS
  <1>4. QED
    BY <1>1, <1>2, <1>3 DEF Setting, ArgKeys, LineKeys

\* The strengthening: of the two orders that LastWordCounts allows, it is the
\* file after the command line.
FileHasTheLastWord ==
    phase # "stopped" =>
        \A key \in Keys : IsLastWord(config[key], key, args \o lines)

Words == TypeOK /\ OptionsFirst /\ FileHasTheLastWord

LEMMA WordsStart == Init => Words
  <1> SUFFICES ASSUME Init PROVE Words
    OBVIOUS
  <1>1. TypeOK /\ OptionsFirst
    BY Initial DEF Init, Invariant, OptionsFirst
  <1>2. args \o lines = <<>> /\ config = Default
    BY DEF Init
  <1>3. \A key \in Keys : Of(key, args \o lines) = {}
    BY <1>2 DEF Of
  <1>4. QED
    BY <1>1, <1>2, <1>3 DEF Words, FileHasTheLastWord, IsLastWord

LEMMA WordsStep == Words /\ TypeOK' /\ [Next]_vars => Words'
  <1> SUFFICES ASSUME Words, TypeOK', [Next]_vars PROVE Words'
    OBVIOUS
  <1> USE DEF Words
  <1>1. /\ args \in Seq(Args) /\ lines \in Seq(Lines)
        /\ args \in Seq(Args \cup Lines) /\ args \o lines \in Seq(Args \cup Lines)
    <2>1. args \in Seq(Args \cup Lines) /\ lines \in Seq(Args \cup Lines)
      BY SeqMonotonic DEF TypeOK
    <2>2. QED
      BY <2>1, ConcatProperties DEF TypeOK
  <1>2. CASE config_parse_args
    <2>1. PICK arg \in Args :
             /\ args' = Append(args, arg)
             /\ IF arg.key \notin ArgKeys
                THEN phase' = "stopped" /\ UNCHANGED config
                ELSE \E value \in Parsed(arg.key, arg.value) :
                     IF \/ value = None
                        \/ arg.key = "log_level" /\ value \notin 0..3
                     THEN phase' = "stopped" /\ UNCHANGED config
                     ELSE /\ config' = [config EXCEPT ![arg.key] = value]
                          /\ UNCHANGED phase
      BY <1>2 DEF config_parse_args
    <2>2. phase = "args" /\ UNCHANGED <<lines, served>> /\ lines = <<>>
          /\ served = None
      BY <1>2 DEF config_parse_args, OptionsFirst
    <2>3. args \o lines = args /\ (args \o lines)' = Append(args, arg)
      <3>1. args' \in Seq(Args)
        BY DEF TypeOK
      <3>2. QED
        BY <1>1, <2>1, <2>2, <3>1, ConcatEmptySeq
    <2>4. CASE phase' = "stopped"
      BY <2>2, <2>4 DEF OptionsFirst, FileHasTheLastWord
    <2>5. CASE phase' # "stopped"
      <3>1. PICK value \in Parsed(arg.key, arg.value) : Takes(arg, value)
        BY <2>1, <2>5 DEF Takes
      <3>2. arg.key \in Keys /\ arg.value \in Texts
        BY <2>1, <2>5, InputTypes
      <3>3. \A key \in Keys : IsLastWord(config[key], key, args)
        BY <2>2, <2>3 DEF FileHasTheLastWord
      <3>4. \A key \in Keys : IsLastWord(config'[key], key, Append(args, arg))
        BY <1>1, <3>1, <3>2, <3>3, InputIsTaken
      <3>5. QED
        BY <2>2, <2>3, <3>4 DEF OptionsFirst, FileHasTheLastWord
    <2>6. QED
      BY <2>4, <2>5
  <1>3. CASE config_load
    <2>1. PICK line \in Lines :
             /\ lines' = Append(lines, line)
             /\ IF line.key \notin LineKeys THEN UNCHANGED config
                ELSE \E value \in Parsed(line.key, line.value) :
                     IF value = None THEN UNCHANGED config
                     ELSE config' = [config EXCEPT ![line.key] = value]
      BY <1>3 DEF config_load
    <2>2. phase = "file" /\ UNCHANGED <<phase, args, served>>
      BY <1>3 DEF config_load
    <2>3. (args \o lines)' = Append(args \o lines, line)
      BY <1>1, <2>1, <2>2
    <2>4. \A key \in Keys : IsLastWord(config[key], key, args \o lines)
      BY <2>2 DEF FileHasTheLastWord
    <2>5. \A key \in Keys : IsLastWord(config'[key], key, Append(args \o lines, line))
      <3>1. CASE line.key \notin LineKeys
        <4>1. line.key \notin Keys
          BY <3>1, InputTypes
        <4>2. QED
          BY <1>1, <2>1, <2>4, <3>1, <4>1, InputIsNoSetting
      <3>2. CASE line.key \in LineKeys
        <4>1. PICK value \in Parsed(line.key, line.value) :
                 Takes(line, value) \/ (value = None /\ UNCHANGED config)
          BY <2>1, <3>2 DEF Takes
        <4>2. line.key \in Keys /\ line.value \in Texts
          BY <3>2, InputTypes
        <4>3. QED
          BY <1>1, <2>4, <4>1, <4>2, InputIsTaken
      <3>3. QED
        BY <3>1, <3>2
    <2>6. QED
      BY <2>2, <2>3, <2>5 DEF OptionsFirst, FileHasTheLastWord
  <1>4. CASE ArgsEnd \/ OpenFile \/ FileEnd \/ http_server_init
    <2>1. /\ UNCHANGED <<args, lines, config>>
          /\ phase # "stopped" /\ phase' # "args"
      BY <1>4 DEF ArgsEnd, OpenFile, FileEnd, http_server_init
    <2>2. QED
      BY <2>1 DEF OptionsFirst, FileHasTheLastWord
  <1>5. CASE UNCHANGED vars
    BY <1>5 DEF vars, OptionsFirst, FileHasTheLastWord
  <1>6. QED
    BY <1>2, <1>3, <1>4, <1>5 DEF Next, Ended

\* However many options and lines there are, and however wide the words: a
\* setting is what was said of it last, in one of the two orders of its sources,
\* also beside and after numbers that wrap.
THEOREM LastWordHolds == Spec => []LastWordCounts
  <1>1. Words => LastWordCounts
    BY DEF Words, FileHasTheLastWord, LastWordCounts
  <1>2. QED
    BY <1>1, WordsStart, WordsStep, TypeCorrect, PTL DEF Spec

=============================================================================
