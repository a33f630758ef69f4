----------------------------- MODULE MCTextPath -----------------------------
(***************************************************************************)
(* An instance of TextProperties for TLC: two digits, so that four         *)
(* characters have an escape, and buffers of a few characters.             *)
(***************************************************************************)
EXTENDS TextProperties

MCHex == {"0", "1"}
MCChar == MCHex \cup {"a", "b", "%", ".", "nul"}
MCByte == [d \in MCHex \X MCHex |->
              CASE d = <<"0", "0">> -> "nul" [] d = <<"0", "1">> -> "%"
                [] d = <<"1", "0">> -> "."   [] d = <<"1", "1">> -> "a"]
MCParamCap == [k \in Kinds |-> 6]

Word(chars, lengths) == UNION {[1..n -> chars] : n \in lengths}

Op(kinds, bound, texts, meaning) ==
    [kind: kinds, vars: bound, strings: {<<text>> : text \in texts}, meant: {meaning}]

\* What clients send, and whatever else may come.
Escape(c) == CHOOSE e \in [1..3 -> {"%"} \cup MCHex] :
                e[1] = "%" /\ {e[2], e[3]} \subseteq MCHex /\ MCByte[e[2], e[3]] = c
Encode(name, escaped) ==
    FlattenSeq([n \in DOMAIN name |-> IF name[n] \in escaped THEN Escape(name[n])
                                      ELSE <<name[n]>>])

Noise == Op(Kinds, {<<>>}, Word({"a", "0", "1", "%", "."}, 1..4), None)

Members ==
    UNION {Op({"member"}, {<<>>}, {Encode(name, {"%", "nul"} \cup more)}, <<name>>) :
              name \in Word({"a", "0", "%", ".", "nul"}, 1..3), more \in {{}, {"."}, {"a"}}}

Queries ==
    UNION {Op({"query"}, {<<>>},
              {Encode(first, {"%", "."}) \o <<".">> \o Encode(second, {"%", "."})},
              <<first, second>>) :
              first, second \in Word({"a", "%", "."}, 1..2)}

-----------------------------------------------------------------------------
MCKeys == {"x", "y", "z"}
Txt(text) == [is |-> "text", text |-> text]
MCResults ==
    <<[k \in MCKeys |-> CASE k = "x" -> Txt(<<"b">>)
                          [] k = "y" -> Txt(<<"a", "b", "a">>)
                          [] k = "z" -> [is |-> "other", text |-> <<"a">>]],
      None,
      [k \in {"x"} |-> Txt(<<>>)]>>

Tokens == {<<"a">>, <<"a", "b">>, <<"b", "a">>}
Ref(tokens, index, key) == [token: tokens, index: {index}, key: {key}]
Sound == Ref(Tokens, 0, "x") \cup Ref(Tokens, 0, "y") \cup Ref(Tokens, 2, "x")
Broken == {None} \cup Ref({<<"a">>}, 0, "z") \cup Ref({<<"a">>}, 1, "x")
          \cup Ref({<<"a">>}, 2, "y") \cup Ref({<<"a">>}, 3, "x")

Bound1 == [kind: {"member"}, vars: [1..1 -> Sound] \cup [1..2 -> Sound],
           strings: {<<text, <<"b", "a", "b">>>> : text \in Word({"a", "b"}, 3..3)},
           meant: {None}]

Bound2 == [kind: {"query"}, vars: {<<v, w>> : v \in Broken, w \in Sound}
                                 \cup {<<v, w>> : v \in Sound, w \in Broken},
           strings: {<<<<"a">>>>}, meant: {None}]

\* A name that an earlier operation has answered.
Bound3 == Op({"member"}, {<<v>> : v \in Ref({<<"a">>}, 0, "x")},
             {<<"a", "0">>}, <<<<"b", "0">>>>)

MCOperations == Noise \cup Members \cup Queries \cup Bound1 \cup Bound2 \cup Bound3

=============================================================================
