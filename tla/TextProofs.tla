----------------------------- MODULE TextProofs -----------------------------
(***************************************************************************)
(* What holds of TextPath for all texts, tokens, responses and sizes of    *)
(* the buffers.                                                            *)
(***************************************************************************)
EXTENDS TextProperties, InductionLemmas

USE CharacterAssumption, NameAssumption, VarsAssumption

\* The decoder has written no more characters than it has read, and not more
\* than the buffer holds.
DecoderBound ==
    stage = "decode" => /\ Len(out) < out_buf_size
                        /\ Len(out) <= i - 1
                        /\ i <= Len(src) + 1

\* There is a string to work on.
StringsBound ==
    /\ Len(strings) >= 1
    /\ at = "resolve" => cur = 1
    /\ at \in {"measure", "write"} => cur <= Len(strings) /\ cur >= 1

Invariant == TypeOK /\ DecoderBound /\ StringsBound /\ SegmentsAlwaysDecode

NameInv == NameTypeOK /\ DecoderBound /\ SegmentsAlwaysDecode
BatchInv == BatchTypeOK /\ StringsBound

-----------------------------------------------------------------------------
\* A part of a text is a text.
LEMMA PartIsText ==
    ASSUME NEW text \in Text, NEW m \in Nat \ {0}, NEW n \in (m - 1)..Len(text)
    PROVE  SubSeq(text, m, n) \in Text
  <1>1. m \in 1..Len(text) + 1
    BY DEF Text
  <1>2. QED
    BY <1>1, SubSeqProperties DEF Text

LEMMA CutIsText ==
    ASSUME NEW k \in Kinds, NEW text \in Text
    PROVE  route_params_get(k, text) \in Text
  <1>1. ParamCap[k] \in Nat /\ Len(text) \in Nat
    BY DEF Text
  <1>2. CASE Len(text) > ParamCap[k]
    <2>1. ParamCap[k] \in (1 - 1)..Len(text)
      BY <1>1, <1>2
    <2>2. QED
      BY <1>2, <2>1, PartIsText DEF route_params_get
  <1>3. CASE ~(Len(text) > ParamCap[k])
    BY <1>3 DEF route_params_get
  <1>4. QED
    BY <1>2, <1>3

-----------------------------------------------------------------------------
LEMMA NameStep ==
    ASSUME NameInv, NameNext
    PROVE  NameInv'
  <1> USE DEF NameInv
  <1>1. CASE CountSegments
    <2>1. /\ stage' \in {"segment", "named"}
          /\ verdict' \in {verdict, "PATH_PARSE"}
          /\ UNCHANGED <<kind, param, from, src, i, out, names>>
      BY <1>1 DEF CountSegments, Named
    <2>2. kind \in Kinds
      BY <1>1 DEF CountSegments, NameTypeOK
    <2>3. QED
      BY <2>1, <2>2 DEF NameTypeOK, DecoderBound, SegmentsAlwaysDecode, Verdicts
  <1>2. CASE Segment
    <2>1. PICK last \in (from - 1)..Len(param) :
             src' = SubSeq(param, from, last) /\ from' = last + 2
      BY <1>2 DEF Segment
    <2>2. /\ i' = 1 /\ out' = <<>> /\ stage' = "decode"
          /\ UNCHANGED <<kind, param, names, verdict>>
      BY <1>2 DEF Segment
    <2>3. kind \in Kinds
      BY <1>2 DEF Segment, NameTypeOK
    <2>4. src' \in Text
      BY <2>1, PartIsText DEF NameTypeOK
    <2>5. from' \in Nat \ {0}
      BY <2>1 DEF NameTypeOK, Text
    <2>6. NameTypeOK'
      BY <2>2, <2>3, <2>4, <2>5 DEF NameTypeOK, Text
    <2>7. DecoderBound'
      <3>1. Len(src') \in Nat
        BY <2>4 DEF Text
      <3>2. Len(out') = 0
        BY <2>2
      <3>3. out_buf_size' > 0
        BY <3>1 DEF out_buf_size
      <3>4. QED
        BY <2>2, <3>1, <3>2, <3>3 DEF DecoderBound
    <2>8. QED
      BY <2>2, <2>6, <2>7 DEF SegmentsAlwaysDecode
  <1>3. CASE Decode
    <2>1. /\ stage = "decode" /\ i <= Len(src) /\ Len(out) < out_buf_size - 1
          /\ UNCHANGED <<kind, param, stage, from, src, names, verdict>>
      <3>1. /\ stage = "decode" /\ i <= Len(src) /\ ~IsFull
            /\ UNCHANGED <<kind, param, stage, from, src, names, verdict>>
        BY <1>3 DEF Decode
      <3>2. Len(out) \in Int /\ Len(src) \in Int
        BY DEF NameTypeOK, Text
      <3>3. out_buf_size \in Int
        BY <3>2 DEF out_buf_size
      <3>4. QED
        BY <3>1, <3>2, <3>3 DEF IsFull
    <2>2. i \in Nat \ {0} /\ Len(src) \in Nat /\ Len(out) \in Nat
      BY DEF NameTypeOK, Text
    <2>3. PICK c \in Char, n \in Nat :
             out' = Append(out, c) /\ i' = n /\ n > i /\ n <= Len(src) + 1
      <3>1. CASE IsEscape
        <4>1. i + 2 <= Len(src)
          BY <3>1 DEF IsEscape
        <4>2. <<src[i + 1], src[i + 2]>> \in Hex \X Hex
          BY <3>1 DEF IsEscape
        <4>3. Byte[<<src[i + 1], src[i + 2]>>] \in Char
          BY <4>2
        <4>4. out' = Append(out, Byte[<<src[i + 1], src[i + 2]>>]) /\ i' = i + 3
          BY <1>3, <3>1 DEF Decode
        <4>5. i + 3 \in Nat /\ i + 3 > i /\ i + 3 <= Len(src) + 1
          BY <2>2, <4>1
        <4>6. QED
          BY <4>3, <4>4, <4>5
      <3>2. CASE ~IsEscape
        <4>1. src[i] \in Char
          BY <2>1, <2>2 DEF NameTypeOK, Text
        <4>2. out' = Append(out, src[i]) /\ i' = i + 1
          BY <1>3, <3>2 DEF Decode
        <4>3. i + 1 \in Nat /\ i + 1 > i /\ i + 1 <= Len(src) + 1
          BY <2>1, <2>2
        <4>4. QED
          BY <4>1, <4>2, <4>3
      <3>3. QED
        BY <3>1, <3>2
    <2>4. out' \in Text /\ Len(out') = Len(out) + 1
      BY <2>3 DEF NameTypeOK, Text
    <2>5. NameTypeOK'
      BY <2>1, <2>2, <2>3, <2>4 DEF NameTypeOK
    <2>6. DecoderBound'
      <3>1. out_buf_size' = out_buf_size /\ out_buf_size \in Int
        BY <2>1, <2>2 DEF out_buf_size
      <3>2. Len(out) <= i - 1
        BY <2>1 DEF DecoderBound
      <3>3. QED
        BY <2>1, <2>2, <2>3, <2>4, <3>1, <3>2 DEF DecoderBound
    <2>7. QED
      BY <2>1, <2>5, <2>6 DEF SegmentsAlwaysDecode
  <1>4. CASE DecodeFails
    <2>1. /\ stage = "decode" /\ i <= Len(src) /\ Len(out) >= out_buf_size - 1
          /\ stage' = "named"
          /\ verdict' = IF kind = "query" THEN "PATH_URL_DECODE" ELSE "INVALID_PARAM"
          /\ UNCHANGED <<kind, param, from, src, i, out, names>>
      BY <1>4 DEF DecodeFails, Named, IsFull
    <2>2. kind # "query"
      <3>1. Len(out) <= i - 1 /\ i \in Nat /\ Len(src) \in Nat /\ Len(out) \in Nat
        BY <2>1 DEF DecoderBound, NameTypeOK, Text
      <3>2. kind = "query" => out_buf_size = Len(src) + 1
        BY DEF out_buf_size
      <3>3. QED
        BY <2>1, <3>1, <3>2
    <2>3. kind \in Kinds
      BY <2>1 DEF NameTypeOK
    <2>4. QED
      BY <2>1, <2>2, <2>3 DEF NameTypeOK, DecoderBound, SegmentsAlwaysDecode, Verdicts
  <1>5. CASE Decoded
    <2>1. PICK length \in 0..Len(out) : names' = Append(names, SubSeq(out, 1, length))
      BY <1>5 DEF Decoded
    <2>2. /\ stage' \in {"segment", "named"} /\ verdict' \in {verdict, "OK"}
          /\ UNCHANGED <<kind, param, from, src, i, out>>
      BY <1>5 DEF Decoded
    <2>3. SubSeq(out, 1, length) \in Text
      BY <2>1, PartIsText DEF NameTypeOK
    <2>4. names' \in Seq(Text)
      BY <2>1, <2>3 DEF NameTypeOK
    <2>5. kind \in Kinds
      BY <1>5 DEF Decoded, NameTypeOK
    <2>6. QED
      BY <2>2, <2>4, <2>5 DEF NameTypeOK, DecoderBound, SegmentsAlwaysDecode, Verdicts
  <1>6. CASE SegmentAllocFails
    <2>1. /\ stage' = "named" /\ verdict' = "MEMORY" /\ kind = "query"
          /\ UNCHANGED <<kind, param, from, src, i, out, names>>
      BY <1>6 DEF SegmentAllocFails, Named
    <2>2. QED
      BY <2>1 DEF NameTypeOK, DecoderBound, SegmentsAlwaysDecode, Verdicts, Kinds
  <1>7. QED
    BY <1>1, <1>2, <1>3, <1>4, <1>5, <1>6 DEF NameNext, NameWork

-----------------------------------------------------------------------------
\* What a var refers to is a text.
LEMMA ReferredIsText ==
    ASSUME NEW var \in Var \cup {None}, Referred(var) # None
    PROVE  var # None /\ Referred(var) \in Text
  <1>1. var # None /\ var.index < Len(Results)
    BY DEF Referred, Var
  <1>2. var.index + 1 \in DOMAIN Results
    BY <1>1 DEF Var
  <1>3. IsResponse(Results[var.index + 1])
    BY <1>2
  <1> DEFINE body == Results[var.index + 1]
  <1>4. body # None /\ var.key \in DOMAIN body /\ Referred(var) = body[var.key].text
    BY <1>1 DEF Referred
  <1>5. body[var.key] \in Value
    BY <1>3, <1>4 DEF IsResponse
  <1>6. QED
    BY <1>1, <1>4, <1>5 DEF Value

\* What stands for one turn of a loop is a text.
LEMMA PieceIsText ==
    ASSUME BatchInv, at \in {"measure", "write"}, pos <= Len(Str),
           NEW b \in 0..Len(bindings), match_binding(Str, pos, b)
    PROVE  /\ Piece(b) \in Text /\ Len(Piece(b)) \in Nat
           /\ Step(b) \in Nat
  <1>1. Str \in Text
    BY DEF BatchInv, BatchTypeOK, StringsBound, Str
  <1>2. CASE b = 0
    <2>1. pos \in 1..Len(Str)
      BY <1>1 DEF BatchInv, BatchTypeOK, Text
    <2>2. Str[pos] \in Char
      BY <1>1, <2>1 DEF Text
    <2>3. QED
      BY <1>2, <2>2 DEF Piece, Step, Text
  <1>3. CASE b # 0
    <2>1. bindings[b] \in Binding
      BY <1>3 DEF BatchInv, BatchTypeOK
    <2>2. bindings[b].token \in Text /\ bindings[b].value \in Text
      BY <2>1 DEF Binding
    <2>3. QED
      BY <1>3, <2>2 DEF Piece, Step, Text
  <1>4. QED
    BY <1>2, <1>3

LEMMA BatchStep ==
    ASSUME BatchInv, BatchNext
    PROVE  BatchInv'
  <1>1. CASE Bind
    <2> DEFINE var == op.vars[Len(bindings) + 1]
    <2>1. op \in Operation /\ bindings \in Seq(Binding)
      BY DEF BatchInv, BatchTypeOK
    <2>2. var \in Var \cup {None}
      <3>1. op.vars \in Seq(Var \cup {None})
        BY <2>1 DEF Operation
      <3>2. Len(bindings) + 1 \in 1..Len(op.vars)
        BY <1>1, <2>1, <3>1 DEF Bind
      <3>3. QED
        BY <3>1, <3>2
    <2>3. CASE Referred(var) = None
      <3>1. Refuse(400)
        BY <1>1, <2>3 DEF Bind
      <3>2. QED
        BY <3>1 DEF Refuse, BatchInv, BatchTypeOK, StringsBound
    <2>4. CASE Referred(var) # None
      <3>1. /\ bindings' = Append(bindings, [token |-> var.token, value |-> Referred(var)])
            /\ UNCHANGED <<op, at, strings, cur, pos, out_len, written, status>>
        BY <1>1, <2>4 DEF Bind
      <3>2. Referred(var) \in Text /\ var \in Var
        BY <2>2, <2>4, ReferredIsText
      <3>3. var.token \in Text
        BY <3>2 DEF Var
      <3>4. [token |-> var.token, value |-> Referred(var)] \in Binding
        BY <3>2, <3>3 DEF Binding
      <3> HIDE DEF var
      <3>5. bindings' \in Seq(Binding)
        BY <2>1, <3>1, <3>4
      <3>6. QED
        BY <3>1, <3>5 DEF BatchInv, BatchTypeOK, StringsBound
    <2>5. QED
      BY <2>3, <2>4
  <1>2. CASE Bound
    <2>1. /\ at' \in {"resolved", "measure"} /\ at = "resolve"
          /\ UNCHANGED <<op, bindings, strings, pos, out_len, written, status>>
          /\ UNCHANGED cur
      BY <1>2 DEF Bound
    <2>2. QED
      BY <2>1 DEF BatchInv, BatchTypeOK, StringsBound
  <1>3. CASE Measure
    <2>1. PICK b \in 0..Len(bindings) :
             /\ match_binding(Str, pos, b)
             /\ out_len' = out_len + Len(Piece(b)) /\ pos' = pos + Step(b)
      BY <1>3 DEF Measure
    <2>2. /\ at = "measure" /\ pos <= Len(Str)
          /\ UNCHANGED <<op, at, bindings, strings, cur, written, status>>
      BY <1>3 DEF Measure
    <2>3. Len(Piece(b)) \in Nat /\ Step(b) \in Nat
      BY <2>1, <2>2, PieceIsText
    <2>4. out_len' \in Nat /\ pos' \in Nat \ {0}
      BY <2>1, <2>3 DEF BatchInv, BatchTypeOK
    <2>5. QED
      BY <2>2, <2>4 DEF BatchInv, BatchTypeOK, StringsBound
  <1>4. CASE Measured
    <2>1. /\ at = "measure" /\ at' = "write" /\ pos' = 1
          /\ UNCHANGED <<op, bindings, strings, cur, out_len, written, status>>
      BY <1>4 DEF Measured
    <2>2. QED
      BY <2>1 DEF BatchInv, BatchTypeOK, StringsBound
  <1>5. CASE Write
    <2>1. PICK b \in 0..Len(bindings) :
             /\ match_binding(Str, pos, b)
             /\ written' = written \o Piece(b) /\ pos' = pos + Step(b)
      BY <1>5 DEF Write
    <2>2. /\ at = "write" /\ pos <= Len(Str)
          /\ UNCHANGED <<op, at, bindings, strings, cur, out_len, status>>
      BY <1>5 DEF Write
    <2>3. Piece(b) \in Text /\ Step(b) \in Nat
      BY <2>1, <2>2, PieceIsText
    <2>4. written' \in Text
      <3>1. written \in Text
        BY DEF BatchInv, BatchTypeOK
      <3>2. QED
        BY <2>1, <2>3, <3>1 DEF Text
    <2>5. pos' \in Nat \ {0}
      BY <2>1, <2>3 DEF BatchInv, BatchTypeOK
    <2>6. QED
      BY <2>2, <2>4, <2>5 DEF BatchInv, BatchTypeOK, StringsBound
  <1>6. CASE Written
    <2>1. /\ at = "write" /\ strings' = [strings EXCEPT ![cur] = written]
          /\ at' = IF cur = Len(strings) THEN "resolved" ELSE "measure"
          /\ cur' = cur + 1 /\ pos' = 1 /\ out_len' = 0 /\ written' = <<>>
          /\ UNCHANGED <<op, bindings, status>>
      BY <1>6 DEF Written
    <2>2. /\ strings \in Seq(Text) /\ Len(strings) \in Nat /\ written \in Text
          /\ cur \in 1..Len(strings)
      BY <2>1 DEF BatchInv, BatchTypeOK, StringsBound
    <2>3. strings' \in Seq(Text) /\ Len(strings') = Len(strings)
      BY <2>1, <2>2
    <2>4. <<>> \in Text
      BY DEF Text
    <2>5. /\ at' \in {"resolved", "measure"} /\ cur' \in Nat
          /\ at' = "measure" => cur' <= Len(strings) /\ cur' >= 1
      BY <2>1, <2>2
    <2>6. BatchTypeOK'
      <3>1. UNCHANGED <<op, bindings, status>> /\ pos' = 1 /\ out_len' = 0
            /\ written' = <<>> /\ status' = None
        BY <2>1 DEF BatchInv, BatchTypeOK
      <3>2. QED
        BY <2>3, <2>4, <2>5, <3>1 DEF BatchInv, BatchTypeOK
    <2>7. StringsBound'
      <3>1. Len(strings) >= 1
        BY DEF BatchInv, StringsBound
      <3>2. QED
        BY <2>3, <2>5, <3>1 DEF StringsBound
    <2>8. QED
      BY <2>6, <2>7 DEF BatchInv
  <1>7. CASE VarsAllocFails
    <2>1. Refuse(500)
      BY <1>7 DEF VarsAllocFails
    <2>2. QED
      BY <2>1 DEF Refuse, BatchInv, BatchTypeOK, StringsBound
  <1>8. QED
    BY <1>1, <1>2, <1>3, <1>4, <1>5, <1>6, <1>7 DEF BatchNext, BatchWork

-----------------------------------------------------------------------------
LEMMA DispatchStep ==
    ASSUME Invariant, Dispatch
    PROVE  NameInv'
  <1>1. op.kind \in Kinds /\ strings[1] \in Text
    BY DEF Invariant, TypeOK, BatchTypeOK, StringsBound, Operation, Kinds
  <1>2. param' \in Text /\ kind' = op.kind
    BY <1>1, CutIsText DEF Dispatch, TakeParam
  <1>3. /\ stage' \in {"count", "segment"}
        /\ UNCHANGED <<from, src, i, out, names, verdict>>
    BY DEF Dispatch, TakeParam
  <1>4. QED
    BY <1>1, <1>2, <1>3 DEF Invariant, TypeOK, NameInv, NameTypeOK, DecoderBound,
                            SegmentsAlwaysDecode

LEMMA Initial == Init => Invariant
  <1> SUFFICES ASSUME Init
               PROVE  Invariant
    OBVIOUS
  <1>1. <<>> \in Text /\ <<>> \in Seq(Text) /\ <<>> \in Seq(Binding)
    BY DEF Text
  <1>2. NameTypeOK
    BY <1>1 DEF Init, NameInit, NameTypeOK
  <1>3. op \in Operation /\ strings \in Seq(Text) \ {<<>>}
    BY DEF Init, BatchInit, Operation
  <1>4. BatchTypeOK
    BY <1>1, <1>3 DEF Init, BatchInit, BatchTypeOK
  <1>5. DecoderBound /\ StringsBound
    BY <1>3 DEF Init, NameInit, BatchInit, DecoderBound, StringsBound
  <1>6. SegmentsAlwaysDecode
    BY DEF Init, NameInit, SegmentsAlwaysDecode, Verdicts
  <1>7. QED
    BY <1>2, <1>4, <1>5, <1>6 DEF Invariant, TypeOK

LEMMA Stepwise == Invariant /\ [Next]_vars => Invariant'
  <1> SUFFICES ASSUME Invariant, [Next]_vars
               PROVE  Invariant'
    OBVIOUS
  <1>1. NameInv /\ BatchInv
    BY DEF Invariant, TypeOK, NameInv, BatchInv
  <1>2. UNCHANGED name_vars => NameInv'
    BY <1>1 DEF name_vars, NameInv, NameTypeOK, DecoderBound, SegmentsAlwaysDecode,
                out_buf_size
  <1>3. UNCHANGED batch_vars => BatchInv'
    BY <1>1 DEF batch_vars, BatchInv, BatchTypeOK, StringsBound
  <1>4. NameInv' /\ BatchInv'
    <2>1. CASE BatchNext /\ UNCHANGED name_vars
      BY <2>1, <1>1, <1>2, BatchStep
    <2>2. CASE Dispatch /\ UNCHANGED batch_vars
      BY <2>2, <1>3, DispatchStep
    <2>3. CASE NameNext /\ UNCHANGED batch_vars
      BY <2>3, <1>1, <1>3, NameStep
    <2>4. CASE UNCHANGED vars
      BY <2>4, <1>2, <1>3 DEF vars
    <2>5. QED
      BY <2>1, <2>2, <2>3, <2>4 DEF Next, Ended
  <1>5. QED
    BY <1>4 DEF Invariant, TypeOK, NameInv, BatchInv

LEMMA Invariance == Spec => []Invariant
  BY Initial, Stepwise, PTL DEF Spec

\* The type invariant, for texts of any length.
THEOREM TypeCorrect == Spec => []TypeOK
  <1>1. Invariant => TypeOK
    BY DEF Invariant
  <1>2. QED
    BY <1>1, Invariance, PTL

\* url_decode stays inside its buffer and its text, whatever the text is.
THEOREM DecoderStaysInside == Spec => []DecodeStaysInside
  <1>1. Invariant => DecodeStaysInside
    BY DEF Invariant, DecoderBound, DecodeStaysInside
  <1>2. QED
    BY <1>1, Invariance, PTL

\* A buffer of one byte more than the segment is enough for every segment.
THEOREM SegmentsDecode == Spec => []SegmentsAlwaysDecode
  <1>1. Invariant => SegmentsAlwaysDecode
    BY DEF Invariant
  <1>2. QED
    BY <1>1, Invariance, PTL

-----------------------------------------------------------------------------
\* Every token that is bound has the value of the field its var names.
BindingsInv ==
    /\ Len(bindings) <= Len(op.vars)
    /\ at \in {"measure", "write", "resolved"} => Len(bindings) = Len(op.vars)
    /\ \A b \in 1..Len(bindings) :
          /\ Holds(op.vars[b])
          /\ bindings[b].token = op.vars[b].token
          /\ bindings[b].value = Field(op.vars[b]).text

\* A pass is at a place that is not inside a token that is replaced, and has
\* put together what stands for the characters before it.
Turn(text, begins, flat) ==
    /\ Chosen(text, begins)
    /\ Joins(Char, Pieces(text, begins), flat)
    /\ pos <= Len(text) + 1
    /\ ~\E q \in begins : Inside(text, pos, q)
    /\ at = "measure" => written = <<>> /\ out_len = Len(flat[pos - 1])
    /\ at = "write" => written = flat[pos - 1] /\ out_len = Len(flat[Len(text)])

PassInv ==
    /\ at = "resolve" => pos = 1 /\ out_len = 0 /\ written = <<>>
    /\ at \in {"measure", "write"} =>
          \E begins \in SUBSET Places(Str) : \E flat \in [0..Len(Str) -> Text] :
             Turn(Str, begins, flat)

\* The strings before the one in work are replaced, the others as they were.
ReplacedInv ==
    /\ Len(strings) = Len(op.strings)
    /\ at = "resolve" => strings = op.strings
    /\ at \in {"measure", "write"} =>
          \A s \in 1..Len(strings) : IF s < cur THEN IsReplaced(op.strings[s], strings[s])
                                     ELSE strings[s] = op.strings[s]
    /\ at = "resolved" => \A s \in 1..Len(strings) : IsReplaced(op.strings[s], strings[s])

-----------------------------------------------------------------------------
LEMMA ChosenExists ==
    ASSUME NEW text \in Text
    PROVE  \E begins \in SUBSET Places(text) : Chosen(text, begins)
  <1> DEFINE Upto(n) == {p \in Places(text) : p <= n}
             Ok(n, begins) == \A p \in Upto(n) :
                                 p \in begins <=> ~\E q \in begins : Inside(text, p, q)
             P(n) == \E begins \in SUBSET Upto(n) : Ok(n, begins)
             T == {n \in Nat : P(n)}
  <1>1. Len(text) \in Nat /\ Places(text) \subseteq 1..Len(text)
    BY DEF Text, Places
  <1>2. \A p, q : Inside(text, p, q) => q < p
    BY DEF Inside
  <1>3. P(0)
    <2>1. Upto(0) = {}
      BY <1>1
    <2>2. QED
      BY <2>1
  <1>4. ASSUME NEW n \in Nat, P(n)
        PROVE  P(n + 1)
    <2>1. PICK begins \in SUBSET Upto(n) : Ok(n, begins)
      BY <1>4
    <2>2. PICK m \in Nat : m = n + 1 /\ n < m
      OBVIOUS
    <2>3. \A p \in Upto(m) : p = m \/ (p \in Upto(n) /\ p < m)
      BY <1>1, <2>2
    <2>4. \A q \in begins : q \in Upto(m) /\ q < m
      BY <1>1, <2>1, <2>2
    <2>5. CASE m \in Places(text) /\ ~\E q \in begins : Inside(text, m, q)
      <3> DEFINE more == begins \cup {m}
      <3>1. more \in SUBSET Upto(m)
        BY <2>4, <2>5, <2>2
      <3>2. ASSUME NEW p \in Upto(m)
            PROVE  p \in more <=> ~\E q \in more : Inside(text, p, q)
        <4>1. CASE p = m
          BY <1>2, <2>2, <2>5, <4>1
        <4>2. CASE p \in Upto(n) /\ p < m
          <5>1. ~Inside(text, p, m)
            BY <1>1, <1>2, <2>2, <4>2
          <5>2. QED
            BY <2>1, <4>2, <5>1, <2>2
        <4>3. QED
          BY <2>3, <4>1, <4>2
      <3>3. Ok(m, more)
        BY <3>2
      <3>4. QED
        BY <2>2, <3>1, <3>3
    <2>6. CASE ~(m \in Places(text) /\ ~\E q \in begins : Inside(text, m, q))
      <3>1. begins \in SUBSET Upto(m)
        BY <2>4
      <3>2. ASSUME NEW p \in Upto(m)
            PROVE  p \in begins <=> ~\E q \in begins : Inside(text, p, q)
        <4>1. CASE p = m
          BY <2>2, <2>4, <2>6, <4>1
        <4>2. CASE p \in Upto(n) /\ p < m
          BY <2>1, <4>2
        <4>3. QED
          BY <2>3, <4>1, <4>2
      <3>3. Ok(m, begins)
        BY <3>2
      <3>4. QED
        BY <2>2, <3>1, <3>3
    <2>7. QED
      BY <2>5, <2>6
  <1>5. P(Len(text))
    <2> HIDE DEF P
    <2>1. T \in SUBSET Nat /\ 0 \in T /\ \A n \in T : n + 1 \in T
      BY <1>3, <1>4
    <2>2. T = Nat
      <3> HIDE DEF T
      <3>1. QED
        BY <2>1, Induction
    <2>3. QED
      BY <1>1, <2>2
  <1>6. Upto(Len(text)) = Places(text)
    BY <1>1
  <1>7. QED
    BY <1>5, <1>6 DEF Chosen

\* What a loop matches is the token the document speaks of.
LEMMA TokenIsPrefix ==
    ASSUME NEW text \in Text, NEW p \in 1..Len(text),
           NEW token \in Text \ {<<>>}
    PROVE  IsPrefix(token, SubSeq(text, p, Len(text))) <=>
              /\ p + Len(token) - 1 <= Len(text)
              /\ SubSeq(text, p, p + Len(token) - 1) = token
  <1>1. /\ Len(text) \in Nat /\ Len(token) \in Nat \ {0}
        /\ text \in Seq(Char) /\ token \in Seq(Char)
    BY EmptySeq DEF Text
  <1>2. Len(SubSeq(text, p, Len(text))) = Len(text) - p + 1
    BY <1>1
  <1>3. SubSeq(token, 1, Len(token)) = token
    BY <1>1, SubSeqFull
  <1>4. ASSUME p + Len(token) - 1 <= Len(text)
        PROVE  SubSeq(SubSeq(text, p, Len(text)), 1, Len(token))
                  = SubSeq(text, p, p + Len(token) - 1)
    <2>1. /\ Len(text) \in 1..Len(text)
          /\ 1 \in 1..(Len(text) - p + 1) /\ Len(token) \in 1..(Len(text) - p + 1)
          /\ p + 1 - 1 = p
      BY <1>1, <1>4
    <2>2. QED
      BY <1>1, <2>1, SubSeqOfSubSeq
  <1>5. Len(token) <= Len(text) - p + 1 <=> p + Len(token) - 1 <= Len(text)
    BY <1>1
  <1>6. IsPrefix(token, SubSeq(text, p, Len(text))) <=>
           /\ Len(token) <= Len(text) - p + 1
           /\ token = SubSeq(SubSeq(text, p, Len(text)), 1, Len(token))
    BY <1>2, <1>3 DEF IsPrefix
  <1>7. QED
    BY <1>4, <1>5, <1>6

LEMMA MatchIsToken ==
    ASSUME BatchTypeOK, BindingsInv, Len(bindings) = Len(op.vars),
           NEW text \in Text, NEW p \in 1..Len(text),
           NEW b \in 0..Len(bindings), match_binding(text, p, b)
    PROVE  /\ b = 0 => p \notin Places(text)
           /\ b # 0 => /\ p \in Places(text) /\ TokenFor(text, p) = b
                       /\ Len(op.vars[b].token) \in Nat \ {0}
                       /\ p + Len(op.vars[b].token) - 1 <= Len(text)
  <1>1. /\ op.vars \in Seq(Var \cup {None}) /\ Len(op.vars) \in Nat
        /\ DOMAIN op.vars = 1..Len(bindings)
    BY DEF BatchTypeOK, Operation
  <1>2. \A d \in 1..Len(bindings) : /\ op.vars[d] # None
                                    /\ bindings[d].token = op.vars[d].token
    BY DEF BindingsInv, Holds
  <1>3. \A d \in 1..Len(bindings) : op.vars[d].token \in Text \ {<<>>}
    BY <1>1, <1>2 DEF Var
  <1>4. \A d \in 1..Len(bindings) : Len(op.vars[d].token) \in Nat \ {0}
    BY <1>3, EmptySeq DEF Text
  <1>5. \A d \in 1..Len(bindings) :
           IsPrefix(op.vars[d].token, SubSeq(text, p, Len(text))) <=> TokenAt(text, p, d)
    BY <1>2, <1>3, TokenIsPrefix DEF TokenAt
  <1>6. Matching(text, p) = TokensAt(text, p)
    BY <1>1, <1>5 DEF Matching, TokensAt
  <1>7. CASE b = 0
    BY <1>6, <1>7 DEF match_binding, Places
  <1>8. CASE b # 0
    <2>1. /\ b \in TokensAt(text, p) /\ b \in 1..Len(bindings)
          /\ \A d \in TokensAt(text, p) :
                \/ Len(op.vars[d].token) < Len(op.vars[b].token)
                \/ Len(op.vars[d].token) = Len(op.vars[b].token) /\ b <= d
      <3>1. TokensAt(text, p) \subseteq 1..Len(bindings)
        BY <1>1 DEF TokensAt
      <3>2. QED
        BY <1>2, <1>6, <1>8, <3>1 DEF match_binding
    <2> DEFINE Best(v) == \A w \in TokensAt(text, p) \ {v} :
                             \/ Len(op.vars[w].token) < Len(op.vars[v].token)
                             \/ op.vars[w].token = op.vars[v].token /\ v < w
    <2>2. TokensAt(text, p) \subseteq 1..Len(bindings)
      BY <1>1 DEF TokensAt
    <2>3. Best(b)
      <3>1. SUFFICES ASSUME NEW w \in TokensAt(text, p), w # b,
                            ~(Len(op.vars[w].token) < Len(op.vars[b].token))
                     PROVE  op.vars[w].token = op.vars[b].token /\ b < w
        OBVIOUS
      <3>2. Len(op.vars[w].token) = Len(op.vars[b].token) /\ b <= w
        BY <2>1, <3>1
      <3>3. TokenAt(text, p, w) /\ TokenAt(text, p, b)
        BY <1>6, <2>1 DEF Matching
      <3>4. op.vars[w].token = op.vars[b].token
        BY <1>2, <2>1, <2>2, <3>2, <3>3 DEF TokenAt
      <3>5. QED
        BY <2>1, <2>2, <3>1, <3>2, <3>4
    <2>4. ASSUME NEW v \in TokensAt(text, p), Best(v)
          PROVE  v = b
      <3>1. SUFFICES ASSUME v # b
                     PROVE  FALSE
        OBVIOUS
      <3>2. \/ Len(op.vars[b].token) < Len(op.vars[v].token)
            \/ op.vars[b].token = op.vars[v].token /\ v < b
        BY <2>1, <2>4, <3>1
      <3>3. \/ Len(op.vars[v].token) < Len(op.vars[b].token)
            \/ Len(op.vars[v].token) = Len(op.vars[b].token) /\ b <= v
        BY <2>1
      <3>4. Len(op.vars[v].token) \in Nat /\ Len(op.vars[b].token) \in Nat /\ v \in Nat
        BY <1>4, <2>1, <2>2
      <3>5. QED
        BY <2>1, <3>2, <3>3, <3>4, SMTT(40)
    <2>5. TokenFor(text, p) = b
      <3>1. TokenFor(text, p) = CHOOSE v \in TokensAt(text, p) : Best(v)
        BY DEF TokenFor
      <3> HIDE DEF Best
      <3>2. QED
        BY <2>1, <2>3, <2>4, <3>1
    <2>6. p + Len(op.vars[b].token) - 1 <= Len(text)
      BY <1>2, <1>6, <2>1 DEF Matching, TokenAt
    <2>7. QED
      BY <1>4, <1>8, <2>1, <2>5, <2>6 DEF Places
  <1>9. QED
    BY <1>7, <1>8

-----------------------------------------------------------------------------
\* There is always a turn: one of the tokens at a place is the longest, and the
\* first of those.
LEMMA SomeMatch ==
    ASSUME bindings \in Seq(Binding), NEW text \in Text, NEW p \in 1..Len(text)
    PROVE  \E b \in 0..Len(bindings) : match_binding(text, p, b)
  <1> DEFINE M == Matching(text, p)
             Length(d) == Len(bindings[d].token)
  <1>1. Len(bindings) \in Nat /\ Len(text) \in Nat /\ M \subseteq 1..Len(bindings)
    BY DEF Text, Matching
  <1>2. \A d \in M : Length(d) \in Nat /\ Length(d) <= Len(text)
    <2>1. ASSUME NEW d \in M
          PROVE  bindings[d].token \in Text
      <3>1. bindings[d] \in Binding
        BY <1>1
      <3>2. QED
        BY <3>1 DEF Binding
    <2>2. \A d \in M : Length(d) \in Nat /\ p + Length(d) - 1 <= Len(text)
      BY <2>1 DEF Matching, TokenAt, Text
    <2>3. QED
      BY <1>1, <2>2
  <1>3. CASE M = {}
    <2>1. 0 \in 0..Len(bindings) /\ match_binding(text, p, 0)
      BY <1>1, <1>3 DEF match_binding
    <2>2. QED
      BY <2>1
  <1>4. CASE M # {}
    <2> DEFINE T == {n \in Nat : \E d \in M : n = Len(text) - Length(d)}
    <2>1. T \in SUBSET Nat /\ T # {}
      <3>1. PICK d \in M : TRUE
        BY <1>4
      <3>2. Len(text) - Length(d) \in T
        BY <1>1, <1>2, <3>1, SMTT(40)
      <3>3. QED
        BY <3>2
    <2>2. PICK n \in T : \A m \in T : n <= m
      <3> HIDE DEF T
      <3>1. QED
        BY <2>1, LeastElement
    <2> DEFINE U == {d \in M : n = Len(text) - Length(d)}
    <2>3. U \in SUBSET Nat /\ U # {}
      <3>1. M \subseteq Nat
        BY <1>1
      <3>2. U \subseteq M
        OBVIOUS
      <3>3. PICK d \in M : n = Len(text) - Length(d)
        BY <2>2
      <3>4. d \in U
        BY <3>3
      <3>5. QED
        BY <3>1, <3>2, <3>4
    <2>4. PICK b \in U : \A d \in U : b <= d
      <3> HIDE DEF U
      <3>1. QED
        BY <2>3, LeastElement
    <2>5. ASSUME NEW d \in M
          PROVE  Length(d) < Length(b) \/ (Length(d) = Length(b) /\ b <= d)
      <3>1. Len(text) - Length(d) \in T
        <4>1. Len(text) - Length(d) \in Nat
          BY <1>1, <1>2
        <4>2. QED
          BY <4>1
      <3>2. n <= Len(text) - Length(d) /\ n = Len(text) - Length(b)
        BY <2>2, <2>4, <3>1
      <3>3. Length(d) \in Nat /\ Length(b) \in Nat /\ n \in Nat
        BY <1>2, <2>4
      <3>4. Length(d) <= Length(b)
        BY <1>1, <3>2, <3>3
      <3>5. Length(d) = Length(b) => b <= d
        BY <2>4, <3>2
      <3>6. QED
        BY <3>3, <3>4, <3>5, SMTT(40)
    <2>6. b \in 1..Len(bindings) /\ b \in M
      BY <1>1, <2>4
    <2>7. match_binding(text, p, b)
      BY <2>5, <2>6 DEF match_binding
    <2>8. QED
      BY <1>1, <2>6, <2>7
  <1>5. QED
    BY <1>3, <1>4

\* The pieces of a text are texts.
LEMMA PiecesAreTexts ==
    ASSUME BatchTypeOK, BindingsInv, Len(bindings) = Len(op.vars),
           NEW text \in Text, NEW begins \in SUBSET Places(text)
    PROVE  Pieces(text, begins) \in Seq(Text) /\ Len(Pieces(text, begins)) = Len(text)
  <1>1. Len(text) \in Nat /\ \A p \in 1..Len(text) : text[p] \in Char
    BY DEF Text
  <1>2. ASSUME NEW p \in begins
        PROVE  Field(op.vars[TokenFor(text, p)]).text \in Text
    <2>1. TokensAt(text, p) # {} /\ p \in 1..Len(text)
      BY DEF Places
    <2>2. PICK b \in 0..Len(bindings) : match_binding(text, p, b)
      BY <2>1, SomeMatch DEF BatchTypeOK
    <2>3. b # 0 /\ TokenFor(text, p) = b
      BY <2>1, <2>2, MatchIsToken
    <2>4. bindings[b] \in Binding /\ bindings[b].value = Field(op.vars[b]).text
      BY <2>3 DEF BatchTypeOK, BindingsInv
    <2>5. QED
      BY <2>3, <2>4 DEF Binding
  <1>3. \A p \in 1..Len(text) : Pieces(text, begins)[p] \in Text
    BY <1>1, <1>2 DEF Pieces, Text
  <1>4. QED
    BY <1>1, <1>3 DEF Pieces

\* A turn of either loop goes from one such place to the next.
LEMMA TurnEnds ==
    ASSUME BatchTypeOK, BindingsInv, Len(bindings) = Len(op.vars),
           NEW text \in Text, text = Str, pos <= Len(text),
           NEW begins \in SUBSET Places(text), NEW flat \in [0..Len(text) -> Text],
           Chosen(text, begins), Joins(Char, Pieces(text, begins), flat),
           ~\E q \in begins : Inside(text, pos, q),
           NEW b \in 0..Len(bindings), match_binding(text, pos, b)
    PROVE  /\ pos + Step(b) \in 1..(Len(text) + 1)
           /\ ~\E q \in begins : Inside(text, pos + Step(b), q)
           /\ flat[pos + Step(b) - 1] = flat[pos - 1] \o Piece(b)
  <1> DEFINE pieces == Pieces(text, begins)
             Reach(q) == q + Len(op.vars[TokenFor(text, q)].token)
  <1>1. /\ Len(text) \in Nat /\ pos \in 1..Len(text) /\ text \in Seq(Char)
        /\ begins \subseteq 1..Len(text)
    BY DEF BatchTypeOK, Text, Places
  <1>2. pieces \in Seq(Text) /\ Len(pieces) = Len(text) /\ pieces \in Seq(Seq(Char))
    BY PiecesAreTexts DEF Text
  <1>3. Joins(Char, pieces, flat)
    OBVIOUS
  <1>4. \A p, q : Inside(text, p, q) <=> q < p /\ p < Reach(q)
    BY DEF Inside
  <1>5. \A p \in 1..Len(text) :
           pieces[p] = IF p \in begins THEN Field(op.vars[TokenFor(text, p)]).text
                       ELSE IF \E q \in begins : Inside(text, p, q) THEN <<>>
                       ELSE <<text[p]>>
    BY <1>1 DEF Pieces
  <1>6. \A q \in begins : Reach(q) \in Nat
    <2>1. SUFFICES ASSUME NEW q \in begins
                   PROVE  Reach(q) \in Nat
      OBVIOUS
    <2>2. q \in 1..Len(text) /\ q \in Places(text)
      BY <1>1
    <2>3. PICK d \in 0..Len(bindings) : match_binding(text, q, d)
      BY <2>2, SomeMatch DEF BatchTypeOK
    <2>4. d # 0 /\ TokenFor(text, q) = d /\ Len(op.vars[d].token) \in Nat
      BY <2>2, <2>3, MatchIsToken
    <2>5. QED
      BY <2>2, <2>4
  <1>7. \A q \in begins : q < pos => Reach(q) <= pos
    BY <1>1, <1>4, <1>6, SMTT(40)
  <1>8. flat[pos] = flat[pos - 1] \o pieces[pos]
    BY <1>1, <1>2, <1>3 DEF Joins
  <1> HIDE DEF pieces, Reach
  <1>9. CASE b = 0
    <2>1. pos \notin begins /\ pieces[pos] = <<text[pos]>>
      <3>1. pos \notin Places(text)
        BY <1>1, <1>9, MatchIsToken
      <3>2. QED
        BY <1>1, <1>5, <3>1
    <2>2. Step(b) = 1 /\ Piece(b) = <<text[pos]>>
      BY <1>9 DEF Step, Piece
    <2>3. ~\E q \in begins : Inside(text, pos + 1, q)
      <3>1. SUFFICES ASSUME NEW q \in begins, q < pos + 1, pos + 1 < Reach(q)
                     PROVE  FALSE
        BY <1>4
      <3>2. q < pos
        BY <1>1, <2>1, <3>1
      <3>3. QED
        BY <1>1, <1>6, <1>7, <3>1, <3>2
    <2>4. pos + 1 - 1 = pos /\ pos + 1 \in 1..(Len(text) + 1)
      BY <1>1
    <2>5. QED
      BY <1>8, <2>1, <2>2, <2>3, <2>4
  <1>10. CASE b # 0
    <2>1. /\ pos \in Places(text) /\ TokenFor(text, pos) = b
          /\ Len(op.vars[b].token) \in Nat \ {0}
          /\ pos + Len(op.vars[b].token) - 1 <= Len(text)
      BY <1>1, <1>10, MatchIsToken
    <2>2. bindings[b].token = op.vars[b].token /\ bindings[b].value = Field(op.vars[b]).text
      BY <1>10 DEF BindingsInv
    <2>3. PICK next \in Nat : next = pos + Step(b) /\ Step(b) \in Nat
      <3>1. Step(b) = Len(op.vars[b].token)
        BY <1>10, <2>2 DEF Step
      <3>2. QED
        BY <1>1, <2>1, <3>1
    <2>4. /\ next = Reach(pos) /\ next \in 1..(Len(text) + 1)
          /\ pos < next
      BY <1>1, <1>10, <2>1, <2>2, <2>3 DEF Step, Reach
    <2>5. pos \in begins
      BY <2>1 DEF Chosen
    <2>6. pieces[pos] = Piece(b)
      BY <1>1, <1>5, <1>10, <2>1, <2>2, <2>5 DEF Piece
    <2>7. ASSUME NEW p \in (pos + 1)..(next - 1)
          PROVE  p \notin begins /\ pieces[p] = <<>>
      <3>1. Inside(text, p, pos) /\ p \in 1..Len(text)
        BY <1>1, <1>4, <2>4
      <3>2. p \notin begins
        BY <2>5, <3>1 DEF Chosen
      <3>3. QED
        BY <1>5, <2>5, <3>1, <3>2
    <2>8. ~\E q \in begins : Inside(text, next, q)
      <3>1. SUFFICES ASSUME NEW q \in begins, q < next, next < Reach(q)
                     PROVE  FALSE
        BY <1>4
      <3>2. CASE q < pos
        BY <1>1, <1>6, <1>7, <2>4, <3>1, <3>2
      <3>3. CASE q = pos
        BY <2>4, <3>1, <3>3
      <3>4. CASE q > pos
        BY <1>1, <2>4, <2>7, <3>1, <3>4
      <3>5. QED
        BY <1>1, <3>2, <3>3, <3>4
    <2>9. flat[next - 1] = flat[pos]
      <3>1. pos \in 0..Len(pieces) /\ next - 1 \in pos..Len(pieces)
        BY <1>1, <1>2, <2>4
      <3>2. \A k \in (pos + 1)..(next - 1) : pieces[k] = <<>>
        BY <2>7
      <3>3. QED
        BY ONLY <1>3, <3>1, <3>2, JoinsNothing, SMTT(40)
    <2>10. flat[next - 1] = flat[pos - 1] \o Piece(b)
      BY <1>8, <2>6, <2>9
    <2>11. pos + Step(b) = next /\ pos + Step(b) - 1 = next - 1
      BY <1>1, <2>3
    <2>12. QED
      BY <2>4, <2>8, <2>10, <2>11
  <1>11. QED
    BY <1>9, <1>10

-----------------------------------------------------------------------------
\* Every text has a pass.
LEMMA PassExists ==
    ASSUME BatchTypeOK, BindingsInv, Len(bindings) = Len(op.vars), NEW text \in Text
    PROVE  \E begins \in SUBSET Places(text) : \E flat \in [0..Len(text) -> Text] :
              Chosen(text, begins) /\ Joins(Char, Pieces(text, begins), flat)
  <1>1. PICK begins \in SUBSET Places(text) : Chosen(text, begins)
    BY ChosenExists
  <1>2. Pieces(text, begins) \in Seq(Seq(Char)) /\ Len(Pieces(text, begins)) = Len(text)
    BY PiecesAreTexts DEF Text
  <1>3. PICK flat \in [0..Len(Pieces(text, begins)) -> Seq(Char)] :
           Joins(Char, Pieces(text, begins), flat)
    BY <1>2, JoinsExist
  <1>4. flat \in [0..Len(text) -> Text]
    BY <1>2 DEF Text
  <1>5. QED
    BY <1>1, <1>3, <1>4

\* A pass begins at the first character.
LEMMA NoneBefore ==
    ASSUME NEW text, NEW begins \in SUBSET Places(text)
    PROVE  ~\E q \in begins : Inside(text, 1, q)
  BY DEF Inside, Places

\* A pass that has come to the end has replaced the text.
LEMMA PassReplaces ==
    ASSUME NEW text \in Text, NEW begins \in SUBSET Places(text), NEW flat,
           Chosen(text, begins), Joins(Char, Pieces(text, begins), flat)
    PROVE  IsReplaced(text, flat[Len(text)])
  <1>1. Len(Pieces(text, begins)) = Len(text)
    BY DEF Pieces, Text
  <1>2. FlattenSeq(Pieces(text, begins)) = flat[Len(text)]
    BY <1>1, FlattenJoins
  <1>3. QED
    BY <1>2 DEF IsReplaced

\* Without vars every string stays as it is.
LEMMA NothingToReplace ==
    ASSUME op.vars = <<>>, NEW text \in Text
    PROVE  IsReplaced(text, text)
  <1>1. Places(text) = {}
    BY DEF Places, TokensAt
  <1>2. Len(text) \in Nat /\ text \in Seq(Char)
    BY DEF Text
  <1>3. Pieces(text, {}) = [p \in 1..Len(text) |-> <<text[p]>>]
    BY DEF Pieces
  <1>4. Pieces(text, {}) \in Seq(Seq(Char)) /\ Len(Pieces(text, {})) = Len(text)
    <2>1. \A p \in 1..Len(text) : <<text[p]>> \in Seq(Char)
      BY <1>2
    <2>2. [p \in 1..Len(text) |-> <<text[p]>>] \in Seq(Seq(Char))
      BY <1>2, <2>1
    <2>3. Len(Pieces(text, {})) = Len(text)
      BY <1>2 DEF Pieces
    <2>4. QED
      BY <1>3, <2>2, <2>3
  <1> DEFINE flat == [n \in 0..Len(text) |-> SubSeq(text, 1, n)]
  <1>5. Joins(Char, Pieces(text, {}), flat)
    <2>1. \A n \in 0..Len(text) : SubSeq(text, 1, n) \in Seq(Char)
      BY <1>2
    <2>2. flat \in [0..Len(Pieces(text, {})) -> Seq(Char)]
      BY <1>4, <2>1
    <2>3. flat[0] = <<>>
      BY <1>2, SubSeqEmpty
    <2>4. ASSUME NEW n \in 1..Len(text)
          PROVE  flat[n] = flat[n - 1] \o Pieces(text, {})[n]
      <3>1. SubSeq(text, 1, n) = SubSeq(text, 1, n - 1) \o <<text[n]>>
        BY <1>2, SubSeqRecursiveSecond
      <3>2. flat[n] = SubSeq(text, 1, n) /\ flat[n - 1] = SubSeq(text, 1, n - 1)
        BY <1>2
      <3>3. QED
        BY <1>3, <3>1, <3>2
    <2> HIDE DEF flat
    <2>5. QED
      BY <1>4, <2>2, <2>3, <2>4 DEF Joins
  <1>6. flat[Len(text)] = text
    BY <1>2, SubSeqFull
  <1>7. Chosen(text, {})
    BY <1>1 DEF Chosen
  <1> HIDE DEF flat
  <1>8. IsReplaced(text, flat[Len(text)])
    BY <1>5, <1>7, PassReplaces
  <1>9. QED
    BY <1>6, <1>8

\* What is said of a text depends on the operation only.
LEMMA SameOperation ==
    ASSUME op' = op, NEW text
    PROVE  /\ Places(text)' = Places(text)
           /\ \A begins : /\ Chosen(text, begins)' <=> Chosen(text, begins)
                          /\ Pieces(text, begins)' = Pieces(text, begins)
                          /\ \A p, q : Inside(text, p, q)' <=> Inside(text, p, q)
           /\ \A result : IsReplaced(text, result)' <=> IsReplaced(text, result)
  <1>1. \A p : TokensAt(text, p)' = TokensAt(text, p)
    BY DEF TokensAt
  <1>2. \A p : TokenFor(text, p)' = TokenFor(text, p)
    BY Zenon DEF TokenFor, TokensAt
  <1>3. Places(text)' = Places(text)
    BY <1>1 DEF Places
  <1>4. \A p, q : Inside(text, p, q)' <=> Inside(text, p, q)
    BY <1>2 DEF Inside
  <1>5. ASSUME NEW begins
        PROVE  /\ Chosen(text, begins)' <=> Chosen(text, begins)
               /\ Pieces(text, begins)' = Pieces(text, begins)
    <2>1. Chosen(text, begins)' <=> Chosen(text, begins)
      BY <1>3, <1>4 DEF Chosen
    <2>2. Pieces(text, begins)' = Pieces(text, begins)
      BY <1>2, <1>4 DEF Pieces, Field
    <2>3. QED
      BY <2>1, <2>2
  <1>6. \A result : IsReplaced(text, result)' <=> IsReplaced(text, result)
    BY <1>3, <1>5 DEF IsReplaced
  <1>7. QED
    BY <1>3, <1>4, <1>5, <1>6

-----------------------------------------------------------------------------
\* A var that refers to something is one that holds.
LEMMA ReferredHolds ==
    ASSUME NEW var \in Var \cup {None}, Referred(var) # None
    PROVE  Holds(var) /\ Referred(var) = Field(var).text
  <1>1. var # None /\ ~(var.index >= Len(Results))
    BY DEF Referred
  <1>2. var.index < Len(Results)
    BY <1>1 DEF Var
  <1> DEFINE body == Results[var.index + 1]
  <1>3. body # None /\ var.key \in DOMAIN body
    BY <1>1 DEF Referred
  <1>4. body[var.key].is = "text" /\ Referred(var) = body[var.key].text
    BY <1>1, <1>3 DEF Referred
  <1>5. QED
    BY <1>1, <1>2, <1>3, <1>4 DEF Holds, Field

LEMMA BindingsStep ==
    ASSUME BatchInv, BindingsInv, BatchNext
    PROVE  BindingsInv'
  <1>0. bindings \in Seq(Binding) /\ Len(bindings) \in Nat
    BY DEF BatchInv, BatchTypeOK
  <1>1. CASE Bind
    <2> DEFINE var == op.vars[Len(bindings) + 1]
    <2>1. CASE Referred(var) = None
      <3>1. at' = "refused" /\ op' = op /\ bindings' = bindings
        BY <1>1, <2>1 DEF Bind, Refuse
      <3>2. \A v : (Holds(v)' <=> Holds(v)) /\ Field(v)' = Field(v)
        BY DEF Holds, Field
      <3>3. QED
        BY <3>1, <3>2 DEF BindingsInv
    <2>2. CASE Referred(var) # None
      <3>1. /\ bindings' = Append(bindings, [token |-> var.token, value |-> Referred(var)])
            /\ at = "resolve" /\ at' = at /\ op' = op /\ Len(bindings) < Len(op.vars)
        BY <1>1, <2>2 DEF Bind
      <3>2. Holds(var) /\ Referred(var) = Field(var).text
        <4>1. op.vars \in Seq(Var \cup {None})
          BY DEF BatchInv, BatchTypeOK, Operation
        <4>2. Len(bindings) + 1 \in 1..Len(op.vars)
          BY <1>0, <3>1, <4>1
        <4>3. var \in Var \cup {None}
          BY <4>1, <4>2
        <4> HIDE DEF var
        <4>4. QED
          BY <2>2, <4>3, ReferredHolds
      <3>3. /\ Len(bindings') = Len(bindings) + 1
            /\ \A b \in 1..Len(bindings) : bindings'[b] = bindings[b]
            /\ bindings'[Len(bindings) + 1] = [token |-> var.token, value |-> Referred(var)]
        BY <1>0, <3>1
      <3>4. Len(bindings') <= Len(op.vars)
        <4>1. Len(op.vars) \in Nat
          BY DEF BatchInv, BatchTypeOK, Operation
        <4>2. QED
          BY <1>0, <3>1, <3>3, <4>1
      <3>5. \A b \in 1..Len(bindings') : b \in 1..Len(bindings) \/ b = Len(bindings) + 1
        BY <1>0, <3>3
      <3>6. \A b \in 1..Len(bindings') :
               /\ Holds(op.vars[b])
               /\ bindings'[b].token = op.vars[b].token
               /\ bindings'[b].value = Field(op.vars[b]).text
        BY <3>2, <3>3, <3>5 DEF BindingsInv
      <3>7. QED
        BY <3>1, <3>4, <3>6 DEF BindingsInv, Holds, Field
    <2>3. QED
      BY <2>1, <2>2
  <1>2. CASE Bound
    BY <1>2 DEF Bound, BindingsInv, Holds, Field
  <1>3. CASE Measure \/ Measured \/ Write \/ Written
    <2>1. /\ UNCHANGED <<op, bindings>> /\ at \in {"measure", "write"}
      BY <1>3 DEF Measure, Measured, Write, Written
    <2>2. QED
      BY <2>1 DEF BindingsInv, Holds, Field
  <1>4. CASE VarsAllocFails
    BY <1>4 DEF VarsAllocFails, Refuse, BindingsInv, Holds, Field
  <1>5. QED
    BY <1>1, <1>2, <1>3, <1>4 DEF BatchNext, BatchWork

-----------------------------------------------------------------------------
\* What the invariants say of the string in work.
LEMMA StringInWork ==
    ASSUME BatchInv, at \in {"measure", "write"}
    PROVE  /\ Str \in Text /\ Len(Str) \in Nat /\ cur \in 1..Len(strings)
           /\ Len(strings) \in Nat /\ pos \in Nat \ {0}
  BY DEF BatchInv, BatchTypeOK, StringsBound, Str, Text

\* A pass over a string may begin.
LEMMA PassBegins ==
    ASSUME BatchTypeOK, BindingsInv, Len(bindings) = Len(op.vars), op' = op,
           Str' \in Text, at' = "measure", pos' = 1, out_len' = 0, written' = <<>>
    PROVE  PassInv'
  <1>1. PICK text : text = Str'
    OBVIOUS
  <1>2. PICK begins \in SUBSET Places(text) : \E flat \in [0..Len(text) -> Text] :
           Chosen(text, begins) /\ Joins(Char, Pieces(text, begins), flat)
    BY <1>1, PassExists
  <1>3. PICK flat \in [0..Len(text) -> Text] :
           Chosen(text, begins) /\ Joins(Char, Pieces(text, begins), flat)
    BY <1>2
  <1>4. ~\E q \in begins : Inside(text, 1, q)
    BY NoneBefore
  <1>5. Len(text) \in Nat
    BY <1>1 DEF Text
  <1>6. Len(flat[0]) = 0
    BY <1>3 DEF Joins
  <1>7. Turn(text, begins, flat)'
    <2>1. pos' <= Len(text) + 1 /\ pos' - 1 = 0
      BY <1>5
    <2>2. /\ Chosen(text, begins)' /\ Joins(Char, Pieces(text, begins)', flat)
          /\ ~\E q \in begins : Inside(text, 1, q)'
      BY <1>3, <1>4, SameOperation
    <2>3. (~\E q \in begins : Inside(text, pos, q))'
      BY <2>2 DEF Inside
    <2>4. QED
      BY <1>6, <2>1, <2>2, <2>3 DEF Turn
  <1>8. begins \in SUBSET Places(text)'
    BY SameOperation
  <1>9. QED
    BY <1>1, <1>7, <1>8 DEF PassInv

LEMMA PassStep ==
    ASSUME BatchInv, BatchInv', BindingsInv, PassInv, BatchNext, ReplacedInv
    PROVE  PassInv' /\ ReplacedInv'
  <1>0. BatchTypeOK /\ strings \in Seq(Text) /\ Len(strings) \in Nat
    BY DEF BatchInv, BatchTypeOK
  <1>1. CASE Bind
    BY <1>1 DEF Bind, Refuse, PassInv, ReplacedInv
  <1>2. CASE Bound
    <2>1. /\ at = "resolve" /\ Len(bindings) = Len(op.vars)
          /\ UNCHANGED <<op, bindings, strings, cur, pos, out_len, written>>
          /\ at' = IF op.vars = <<>> THEN "resolved" ELSE "measure"
      BY <1>2 DEF Bound
    <2>2. pos = 1 /\ out_len = 0 /\ written = <<>> /\ strings = op.strings /\ cur = 1
      BY <2>1 DEF PassInv, ReplacedInv, BatchInv, StringsBound
    <2>3. CASE op.vars = <<>>
      <3>1. ASSUME NEW s \in 1..Len(strings)
            PROVE  IsReplaced(op.strings[s], strings[s])'
        <4>1. PICK text \in Text : text = strings[s]
          BY <1>0
        <4>2. IsReplaced(text, text)'
          BY <2>1, <2>3, NothingToReplace, SameOperation
        <4>3. QED
          BY <2>1, <2>2, <4>1, <4>2
      <3>2. PassInv'
        BY <2>1, <2>3 DEF PassInv
      <3>3. QED
        BY <2>1, <2>2, <2>3, <3>1, <3>2 DEF ReplacedInv
    <2>4. CASE op.vars # <<>>
      <3>1. Str' \in Text
        <4>1. cur \in 1..Len(strings)
          BY <1>0, <2>2 DEF BatchInv, StringsBound
        <4>2. QED
          BY <1>0, <2>1, <4>1 DEF Str
      <3>2. PassInv'
        BY <1>0, <2>1, <2>2, <2>4, <3>1, PassBegins
      <3>3. QED
        BY <2>1, <2>2, <2>4, <3>2 DEF ReplacedInv
    <2>5. QED
      BY <2>3, <2>4
  <1>3. CASE Measure \/ Write
    <2>1. PICK b \in 0..Len(bindings) :
             /\ match_binding(Str, pos, b)
             /\ pos' = pos + Step(b)
             /\ \/ /\ at = "measure" /\ out_len' = out_len + Len(Piece(b))
                   /\ written' = written
                \/ /\ at = "write" /\ written' = written \o Piece(b)
                   /\ out_len' = out_len
      BY <1>3 DEF Measure, Write
    <2>2. /\ at \in {"measure", "write"} /\ pos <= Len(Str)
          /\ UNCHANGED <<op, at, bindings, strings, cur>>
      BY <1>3 DEF Measure, Write
    <2>3. PICK text : text = Str /\ text = Str'
      BY <2>2 DEF Str
    <2>4. /\ text \in Text /\ Len(text) \in Nat /\ pos \in 1..Len(text)
          /\ Len(bindings) = Len(op.vars)
      BY <2>2, <2>3, StringInWork DEF BindingsInv
    <2>5. PICK begins \in SUBSET Places(text), flat \in [0..Len(text) -> Text] :
             Turn(text, begins, flat)
      BY <2>2, <2>3 DEF PassInv
    <2>6. /\ Chosen(text, begins) /\ Joins(Char, Pieces(text, begins), flat)
          /\ ~\E q \in begins : Inside(text, pos, q)
      BY <2>5 DEF Turn
    <2>7. /\ pos' \in 1..(Len(text) + 1)
          /\ ~\E q \in begins : Inside(text, pos', q)
          /\ flat[pos' - 1] = flat[pos - 1] \o Piece(b)
      <3>1. match_binding(text, pos, b) /\ pos <= Len(text)
        BY <2>1, <2>2, <2>3
      <3>2. /\ pos + Step(b) \in 1..(Len(text) + 1)
            /\ ~\E q \in begins : Inside(text, pos + Step(b), q)
            /\ flat[pos + Step(b) - 1] = flat[pos - 1] \o Piece(b)
        BY <1>0, <2>3, <2>4, <2>6, <3>1, TurnEnds, ZenonT(40)
      <3>3. Step(b) \in Nat
        BY <2>1, <2>2, PieceIsText
      <3>4. PICK next : next = pos + Step(b)
        OBVIOUS
      <3>5. /\ next \in 1..(Len(text) + 1)
            /\ ~\E q \in begins : Inside(text, next, q)
            /\ flat[next - 1] = flat[pos - 1] \o Piece(b)
        <4>1. pos + Step(b) - 1 = next - 1 /\ pos + Step(b) = next
          BY <2>4, <3>3, <3>4
        <4>2. flat[next - 1] = flat[pos - 1] \o Piece(b)
          BY <3>2, <4>1, Zenon
        <4>3. QED
          BY <3>2, <4>1, <4>2, Zenon
      <3>6. QED
        BY <2>1, <3>4, <3>5
    <2>8. Piece(b) \in Seq(Char) /\ flat[pos - 1] \in Seq(Char)
      <3>1. Piece(b) \in Text
        BY <2>1, <2>2, PieceIsText
      <3>2. pos - 1 \in 0..Len(text)
        BY <2>4
      <3>3. flat[pos - 1] \in Text
        BY <3>2
      <3>4. QED
        BY <3>1, <3>3 DEF Text
    <2>9. Len(flat[pos' - 1]) = Len(flat[pos - 1]) + Len(Piece(b))
      BY <2>7, <2>8
    <2>10. Turn(text, begins, flat)'
      <3>1. Chosen(text, begins)' /\ Joins(Char, Pieces(text, begins)', flat)
        BY <2>2, <2>6, SameOperation
      <3>6. (~\E q \in begins : Inside(text, pos, q))'
        <4>1. PICK next : next = pos'
          OBVIOUS
        <4>2. ~\E q \in begins : Inside(text, next, q)'
          BY <2>2, <2>7, <4>1, SameOperation
        <4>3. QED
          BY <4>1, <4>2 DEF Inside
      <3>2. pos' <= Len(text) + 1
        BY <2>4, <2>7
      <3>3. at' = "measure" => written' = <<>> /\ out_len' = Len(flat[pos' - 1])
        BY <2>1, <2>2, <2>5, <2>9 DEF Turn
      <3>4. at' = "write" => written' = flat[pos' - 1] /\ out_len' = Len(flat[Len(text)])
        BY <2>1, <2>2, <2>5, <2>7 DEF Turn
      <3>5. QED
        BY <3>1, <3>2, <3>3, <3>4, <3>6 DEF Turn
    <2>11. begins \in SUBSET Places(text)'
      BY <2>2, SameOperation
    <2>12. PassInv'
      BY <2>2, <2>3, <2>10, <2>11 DEF PassInv
    <2>13. ReplacedInv'
      BY <2>2, SameOperation DEF ReplacedInv
    <2>14. QED
      BY <2>12, <2>13
  <1>4. CASE Measured
    <2>1. /\ at = "measure" /\ at' = "write" /\ pos > Len(Str) /\ pos' = 1
          /\ UNCHANGED <<op, bindings, strings, cur, out_len, written>>
      BY <1>4 DEF Measured
    <2>2. PICK text : text = Str /\ text = Str'
      BY <2>1 DEF Str
    <2>3. text \in Text /\ Len(text) \in Nat /\ pos \in Nat
      BY <2>1, <2>2, StringInWork
    <2>4. PICK begins \in SUBSET Places(text), flat \in [0..Len(text) -> Text] :
             Turn(text, begins, flat)
      BY <2>1, <2>2 DEF PassInv
    <2>5. pos - 1 = Len(text)
      BY <2>1, <2>2, <2>3, <2>4 DEF Turn
    <2>6. written' = flat[pos' - 1] /\ out_len' = Len(flat[Len(text)])
      <3>1. written = <<>> /\ flat[0] = <<>> /\ pos' - 1 = 0
        BY <2>1, <2>4 DEF Turn, Joins
      <3>2. QED
        BY <2>1, <2>4, <2>5, <3>1 DEF Turn
    <2>7. Turn(text, begins, flat)'
      <3>1. Chosen(text, begins)' /\ Joins(Char, Pieces(text, begins)', flat)
        BY <2>1, <2>4, SameOperation DEF Turn
      <3>4. (~\E q \in begins : Inside(text, pos, q))'
        <4>1. ~\E q \in begins : Inside(text, 1, q)'
          BY <2>1, NoneBefore, SameOperation
        <4>2. QED
          BY <2>1, <4>1 DEF Inside
      <3>2. pos' <= Len(text) + 1
        BY <2>1, <2>3
      <3>3. QED
        BY <2>1, <2>6, <3>1, <3>2, <3>4 DEF Turn
    <2>8. begins \in SUBSET Places(text)'
      BY <2>1, SameOperation
    <2>9. PassInv'
      BY <2>1, <2>2, <2>7, <2>8 DEF PassInv
    <2>10. ReplacedInv'
      BY <2>1, SameOperation DEF ReplacedInv
    <2>11. QED
      BY <2>9, <2>10
  <1>5. CASE Written
    <2>1. /\ at = "write" /\ pos > Len(Str) /\ strings' = [strings EXCEPT ![cur] = written]
          /\ at' = IF cur = Len(strings) THEN "resolved" ELSE "measure"
          /\ cur' = cur + 1 /\ pos' = 1 /\ out_len' = 0 /\ written' = <<>>
          /\ UNCHANGED <<op, bindings>>
      BY <1>5 DEF Written
    <2>2. /\ Len(bindings) = Len(op.vars) /\ cur \in 1..Len(strings)
          /\ Str \in Text /\ Len(Str) \in Nat /\ pos \in Nat
      BY <2>1, StringInWork DEF BindingsInv
    <2>3. PICK text : text = Str
      OBVIOUS
    <2>4. PICK begins \in SUBSET Places(text), flat \in [0..Len(text) -> Text] :
             Turn(text, begins, flat)
      BY <2>1, <2>3 DEF PassInv
    <2>5. written = flat[Len(text)]
      <3>1. pos - 1 = Len(text)
        BY <2>1, <2>2, <2>3, <2>4 DEF Turn
      <3>2. QED
        BY <2>1, <2>4, <3>1 DEF Turn
    <2>6. IsReplaced(text, written)
      BY <2>2, <2>3, <2>4, <2>5, PassReplaces DEF Turn
    <2>7. /\ Len(strings') = Len(strings)
          /\ \A s \in 1..Len(strings) :
                strings'[s] = IF s = cur THEN written ELSE strings[s]
      BY <1>0, <2>1, <2>2
    <2>8. ASSUME NEW s \in 1..Len(strings)
          PROVE  IF s < cur + 1 THEN IsReplaced(op.strings[s], strings'[s])
                 ELSE strings'[s] = op.strings[s]
      <3>1. IF s < cur THEN IsReplaced(op.strings[s], strings[s])
            ELSE strings[s] = op.strings[s]
        BY <2>1 DEF ReplacedInv
      <3>2. CASE s = cur
        <4>1. text = op.strings[s] /\ strings'[s] = written /\ s < cur + 1
          BY <2>2, <2>3, <2>7, <3>1, <3>2 DEF Str
        <4>2. QED
          BY <2>6, <4>1
      <3>3. CASE s # cur
        <4>1. strings'[s] = strings[s] /\ (s < cur + 1 <=> s < cur)
          BY <2>2, <2>7, <3>3
        <4>2. QED
          BY <3>1, <4>1
      <3>4. QED
        BY <3>2, <3>3
    <2>9. ASSUME NEW s \in 1..Len(strings)
          PROVE  IF s < cur + 1 THEN IsReplaced(op.strings[s], strings[s])'
                 ELSE strings'[s] = op.strings[s]
      BY <2>1, <2>8, SameOperation
    <2>10. ReplacedInv'
      <3>1. Len(strings') = Len(op.strings)
        BY <2>7 DEF ReplacedInv
      <3>2. CASE cur = Len(strings)
        <4>1. \A s \in 1..Len(strings) : s < cur + 1
          BY <1>0, <3>2
        <4>2. QED
          BY <2>1, <2>7, <2>9, <3>1, <3>2, <4>1 DEF ReplacedInv
      <3>3. CASE cur # Len(strings)
        BY <2>1, <2>7, <2>9, <3>1, <3>3 DEF ReplacedInv
      <3>4. QED
        BY <3>2, <3>3
    <2>11. PassInv'
      <3>1. CASE cur = Len(strings)
        BY <2>1, <3>1 DEF PassInv
      <3>2. CASE cur # Len(strings)
        <4>1. Str' \in Text
          BY <2>1, <3>2, StringInWork DEF BatchInv, BatchTypeOK, StringsBound, Str
        <4>2. QED
          BY <1>0, <2>1, <2>2, <3>2, <4>1, PassBegins
      <3>3. QED
        BY <3>1, <3>2
    <2>12. QED
      BY <2>10, <2>11
  <1>6. CASE VarsAllocFails
    BY <1>6 DEF VarsAllocFails, Refuse, PassInv, ReplacedInv
  <1>7. QED
    BY <1>1, <1>2, <1>3, <1>4, <1>5, <1>6 DEF BatchNext, BatchWork

-----------------------------------------------------------------------------
PassesInv == BindingsInv /\ PassInv /\ ReplacedInv

LEMMA PassesStart == Init => PassesInv
  <1> SUFFICES ASSUME Init
               PROVE  PassesInv
    OBVIOUS
  <1>1. op \in Operation /\ at = "resolve" /\ bindings = <<>> /\ strings = op.strings
        /\ pos = 1 /\ out_len = 0 /\ written = <<>>
    BY DEF Init, BatchInit
  <1>2. Len(bindings) = 0 /\ Len(op.vars) \in Nat
    BY <1>1 DEF Operation
  <1>3. BindingsInv
    BY <1>1, <1>2 DEF BindingsInv
  <1>4. QED
    BY <1>1, <1>3 DEF PassesInv, PassInv, ReplacedInv

LEMMA PassesStep ==
    ASSUME Invariant, Invariant', PassesInv, [Next]_vars
    PROVE  PassesInv'
  <1>1. BatchInv /\ BatchInv'
    BY DEF Invariant, TypeOK, BatchInv
  <1>2. CASE UNCHANGED batch_vars
    <2>1. UNCHANGED <<op, at, bindings, strings, cur, pos, out_len, written>>
      BY <1>2 DEF batch_vars
    <2>2. BindingsInv'
      BY <2>1 DEF PassesInv, BindingsInv, Holds, Field
    <2>3. ReplacedInv'
      BY <2>1, SameOperation DEF PassesInv, ReplacedInv
    <2>4. PassInv'
      <3>1. CASE at \in {"measure", "write"}
        <4>1. PICK text : text = Str /\ text = Str'
          BY <2>1 DEF Str
        <4>2. PICK begins \in SUBSET Places(text), flat \in [0..Len(text) -> Text] :
                 Turn(text, begins, flat)
          BY <3>1, <4>1 DEF PassesInv, PassInv
        <4>3. begins \in SUBSET Places(text)' /\ Chosen(text, begins)'
              /\ Pieces(text, begins)' = Pieces(text, begins)
          BY <2>1, <4>2, SameOperation DEF Turn
        <4>4. (~\E q \in begins : Inside(text, pos, q))'
          <5>1. PICK p : p = pos
            OBVIOUS
          <5>2. ~\E q \in begins : Inside(text, p, q)'
            BY <2>1, <4>2, <5>1, SameOperation DEF Turn
          <5>3. QED
            BY <2>1, <5>1, <5>2 DEF Inside
        <4>5. Turn(text, begins, flat)'
          BY <2>1, <4>2, <4>3, <4>4 DEF Turn
        <4>6. QED
          BY <2>1, <3>1, <4>1, <4>3, <4>5 DEF PassInv
      <3>2. CASE at \notin {"measure", "write"}
        BY <2>1, <3>2 DEF PassesInv, PassInv
      <3>3. QED
        BY <3>1, <3>2
    <2>5. QED
      BY <2>2, <2>3, <2>4 DEF PassesInv
  <1>3. CASE BatchNext
    BY <1>1, <1>3, BindingsStep, PassStep DEF PassesInv
  <1>4. QED
    BY <1>2, <1>3 DEF Next, Ended, vars

LEMMA PassesInvariance == Spec => []PassesInv
  BY Invariance, PassesStart, PassesStep, PTL DEF Spec

\* What the second pass of substitute_string writes is what the first has
\* measured: never more on the way, and exactly that at the end.
THEOREM MeasuredFits == Spec => []MeasuredIsWritten
  <1>1. Invariant /\ PassesInv => MeasuredIsWritten
    <2> SUFFICES ASSUME Invariant, PassesInv, at = "write"
                 PROVE  /\ Len(written) <= out_len
                        /\ pos > Len(Str) => Len(written) = out_len
      BY DEF MeasuredIsWritten
    <2>1. PICK text : text = Str
      OBVIOUS
    <2>2. text \in Text /\ Len(text) \in Nat /\ pos \in Nat \ {0}
      BY <2>1, StringInWork DEF Invariant, TypeOK, BatchInv
    <2>3. PICK begins \in SUBSET Places(text), flat \in [0..Len(text) -> Text] :
             Turn(text, begins, flat)
      BY <2>1 DEF PassesInv, PassInv
    <2>4. /\ Joins(Char, Pieces(text, begins), flat) /\ pos <= Len(text) + 1
          /\ written = flat[pos - 1] /\ out_len = Len(flat[Len(text)])
      BY <2>3 DEF Turn
    <2>5. Len(Pieces(text, begins)) = Len(text)
      BY <2>2 DEF Pieces
    <2>6. PICK n \in 0..Len(text) : n = pos - 1
      BY <2>2, <2>4
    <2>7. Len(flat[n]) <= Len(flat[Len(text)])
      BY <2>4, <2>5, JoinsGrow
    <2>8. pos > Len(text) => n = Len(text)
      BY <2>2, <2>6
    <2>9. QED
      BY <2>1, <2>4, <2>6, <2>7, <2>8
  <1>2. QED
    BY <1>1, Invariance, PassesInvariance, PTL

\* Whatever the tokens are, and however they overlap: the path and every string
\* of the body are replaced as documented.
THEOREM Replaced == Spec => []ReplacedAsDocumented
  <1>1. Invariant /\ PassesInv => ReplacedAsDocumented
    <2> SUFFICES ASSUME Invariant, PassesInv, at = "resolved"
                 PROVE  /\ \A v \in DOMAIN op.vars : Holds(op.vars[v])
                        /\ Len(strings) = Len(op.strings)
                        /\ \A s \in DOMAIN strings : IsReplaced(op.strings[s], strings[s])
      BY DEF ReplacedAsDocumented
    <2>1. /\ op.vars \in Seq(Var \cup {None}) /\ strings \in Seq(Text)
      BY DEF Invariant, TypeOK, BatchTypeOK, Operation
    <2>2. DOMAIN op.vars = 1..Len(bindings) /\ DOMAIN strings = 1..Len(strings)
      BY <2>1 DEF PassesInv, BindingsInv
    <2>3. QED
      BY <2>2 DEF PassesInv, BindingsInv, ReplacedInv
  <1>2. QED
    BY <1>1, Invariance, PassesInvariance, PTL

-----------------------------------------------------------------------------
\* The decoder has the beginning of a name, and what is left of its text stands
\* for the rest.
DecodesTo(name) ==
    \E ends \in [0..Len(name) -> 0..Len(src)] :
        /\ Spells(src, name, ends)
        /\ Len(out) <= Len(name)
        /\ \A n \in 1..Len(out) : out[n] = name[n]
        /\ i = ends[Len(out)] + 1

MemberMeant ==
    \/ stage = "segment" /\ names = <<>> /\ from = 1
    \/ stage = "decode" /\ names = <<>> /\ src = param /\ DecodesTo(op.meant[1])
    \/ stage = "named" /\ IF Len(op.meant[1]) < NameCap
                          THEN verdict = "OK" /\ names = op.meant
                          ELSE verdict = "INVALID_PARAM"

\* The first names are decoded, and the next one stands between two dots.
QueryMeant ==
    \/ stage = "count" /\ names = <<>> /\ from = 1
    \/ stage \in {"segment", "decode"} /\
       \E dots \in [0..Len(op.meant) -> 0..(Len(param) + 1)] :
          /\ SpellsPath(param, op.meant, dots)
          /\ Len(names) < Len(op.meant)
          /\ \A n \in 1..Len(names) : names[n] = op.meant[n]
          /\ stage = "segment" => from = dots[Len(names)] + 1
          /\ stage = "decode" => /\ src = Between(param, dots, Len(names) + 1)
                                 /\ from = dots[Len(names) + 1] + 1
                                 /\ DecodesTo(op.meant[Len(names) + 1])
    \/ stage = "named" /\ \/ verdict = "MEMORY"
                          \/ verdict = "OK" /\ names = op.meant

MeaningInv ==
    /\ stage = "away" => names = <<>> /\ from = 1
    /\ stage # "away" => /\ at = "resolved"
                         /\ kind = op.kind
                         /\ param = route_params_get(kind, strings[1])
    /\ stage # "away" /\ IsEncoded =>
          IF kind = "query" THEN QueryMeant ELSE MemberMeant

\* One turn of the decoder.
LEMMA DecodeTurn ==
    ASSUME NEW name \in Text, NameTypeOK, DecodesTo(name), Decode
    PROVE  DecodesTo(name)'
  <1>1. PICK ends \in [0..Len(name) -> 0..Len(src)] :
            /\ Spells(src, name, ends)
            /\ Len(out) <= Len(name)
            /\ \A n \in 1..Len(out) : out[n] = name[n]
            /\ i = ends[Len(out)] + 1
    BY DEF DecodesTo
  <1>2. /\ Len(name) \in Nat /\ Len(src) \in Nat /\ Len(out) \in Nat
        /\ out \in Seq(Char) /\ src \in Seq(Char) /\ name \in Seq(Char)
    BY DEF NameTypeOK, Text
  <1>3. i <= Len(src) /\ src' = src
    BY DEF Decode
  <1> DEFINE n == Len(out) + 1
  <1>4. n \in 1..Len(name) /\ ends[n - 1] + 1 = i
    <2>1. ends[Len(name)] = Len(src)
      BY <1>1 DEF Spells
    <2>2. Len(out) # Len(name)
      BY <1>1, <1>2, <1>3, <2>1
    <2>3. QED
      BY <1>1, <1>2, <2>2
  <1>5. \/ /\ ends[n] = i
           /\ name[n] # Percent /\ src[i] = name[n]
        \/ /\ ends[n] = i + 2
           /\ src[i] = Percent
           /\ {src[i + 1], src[i + 2]} \subseteq Hex
           /\ name[n] = Byte[<<src[i + 1], src[i + 2]>>]
    BY <1>1, <1>4, ZenonT(40) DEF Spells
  <1>6. ends[n] \in 0..Len(src) /\ i \in Nat
    BY <1>4 DEF NameTypeOK
  <1>7. out' = Append(out, name[n]) /\ i' = ends[n] + 1
    <2>1. CASE ends[n] = i /\ name[n] # Percent /\ src[i] = name[n]
      BY <2>1 DEF Decode, IsEscape
    <2>2. CASE /\ ends[n] = i + 2
               /\ src[i] = Percent
               /\ {src[i + 1], src[i + 2]} \subseteq Hex
               /\ name[n] = Byte[<<src[i + 1], src[i + 2]>>]
      <3>1. IsEscape
        BY <1>6, <2>2 DEF IsEscape
      <3>2. i' = i + 3
        BY <3>1 DEF Decode
      <3>3. i' = ends[n] + 1
        BY <1>6, <2>2, <3>2
      <3>4. QED
        BY <2>2, <3>1, <3>3 DEF Decode
    <2>3. QED
      BY <1>5, <2>1, <2>2
  <1>8. name[n] \in Char
    BY <1>2, <1>4
  <1>9. Len(out') = n /\ \A k \in 1..n : out'[k] = IF k = n THEN name[n] ELSE out[k]
    BY <1>2, <1>7, <1>8
  <1>10. \A k \in 1..n : out'[k] = name[k]
    <2>1. \A k \in 1..n : k = n \/ k \in 1..Len(out)
      BY <1>2
    <2>2. QED
      BY <1>1, <1>9, <2>1
  <1>11. Len(out') <= Len(name) /\ i' = ends[Len(out')] + 1
    BY <1>4, <1>7, <1>9
  <1>12. QED
    BY <1>1, <1>3, <1>9, <1>10, <1>11 DEF DecodesTo

\* Where the decoder ends it has the name.
LEMMA DecodedIsName ==
    ASSUME NEW name \in Text, NameTypeOK, DecodesTo(name), i > Len(src)
    PROVE  out = name
  <1>1. PICK ends \in [0..Len(name) -> 0..Len(src)] :
            /\ Spells(src, name, ends)
            /\ Len(out) <= Len(name)
            /\ \A n \in 1..Len(out) : out[n] = name[n]
            /\ i = ends[Len(out)] + 1
    BY DEF DecodesTo
  <1>2. /\ Len(name) \in Nat /\ Len(src) \in Nat /\ Len(out) \in Nat
        /\ out \in Seq(Char) /\ name \in Seq(Char)
    BY DEF NameTypeOK, Text
  <1>3. Len(out) = Len(name)
    <2>1. SUFFICES ASSUME Len(out) < Len(name)
                   PROVE  FALSE
      BY <1>1, <1>2
    <2>2. Len(out) + 1 \in 1..Len(name) /\ Len(out) + 1 - 1 = Len(out)
      BY <1>2, <2>1
    <2>3. ends[Len(out) + 1] \in 0..Len(src) /\ ends[Len(out)] \in 0..Len(src)
      BY <1>2, <2>1
    <2>4. \A n \in 1..Len(name) :
             \/ ends[n] = ends[n - 1] + 1
             \/ ends[n] = ends[n - 1] + 1 + 2
      BY <1>1 DEF Spells
    <2>5. ends[Len(out) + 1] > ends[Len(out)]
      BY <2>2, <2>3, <2>4
    <2>6. QED
      BY <1>1, <1>2, <2>3, <2>5
  <1>4. QED
    BY <1>1, <1>2, <1>3, SeqEqual

\* While there is text, there is more of the name.
LEMMA MoreToDecode ==
    ASSUME NEW name \in Text, NameTypeOK, DecodesTo(name), i <= Len(src)
    PROVE  Len(out) < Len(name)
  <1>1. PICK ends \in [0..Len(name) -> 0..Len(src)] :
            /\ Spells(src, name, ends)
            /\ Len(out) <= Len(name)
            /\ i = ends[Len(out)] + 1
    BY DEF DecodesTo
  <1>2. Len(name) \in Nat /\ Len(src) \in Nat /\ Len(out) \in Nat
    BY DEF NameTypeOK, Text
  <1>3. ends[Len(name)] = Len(src)
    BY <1>1 DEF Spells
  <1>4. QED
    BY <1>1, <1>2, <1>3

\* A decoder that starts has a name to decode to, if its text encodes it.
LEMMA DecoderStarts ==
    ASSUME NEW name \in Text, Encodes(src, name)', i' = 1, out' = <<>>
    PROVE  DecodesTo(name)'
  <1>1. PICK ends \in [0..Len(name) -> 0..Len(src')] : Spells(src', name, ends)
    BY DEF Encodes
  <1>2. Len(out') = 0 /\ ends[0] = 0 /\ Len(name) \in Nat
    BY <1>1 DEF Spells, Text
  <1>3. QED
    BY <1>1, <1>2 DEF DecodesTo

-----------------------------------------------------------------------------
\* What IsEncoded says of the names that are meant.
LEMMA MeantNames ==
    ASSUME BatchTypeOK, StringsBound, IsEncoded
    PROVE  /\ op.meant \in Seq(Text) /\ Len(op.meant) \in Nat \ {0}
           /\ \A n \in 1..Len(op.meant) : /\ op.meant[n] \in Text
                                         /\ Nul \notin ToSet(op.meant[n])
           /\ strings[1] \in Text /\ op.kind \in Kinds
           /\ route_params_get(op.kind, strings[1]) = strings[1]
  <1>1. op.meant \in Seq(Text) /\ op.kind \in Kinds
    BY DEF IsEncoded, BatchTypeOK, Operation, Kinds
  <1>2. Len(op.meant) \in Nat \ {0}
    BY <1>1 DEF IsEncoded
  <1>3. strings[1] \in Text
    BY DEF BatchTypeOK, StringsBound
  <1>4. Len(strings[1]) \in Nat /\ ParamCap[op.kind] \in Nat
    BY <1>1, <1>3 DEF Text
  <1>5. route_params_get(op.kind, strings[1]) = strings[1]
    BY <1>4 DEF IsEncoded, route_params_get
  <1>6. \A n \in 1..Len(op.meant) : Nul \notin ToSet(op.meant[n])
    BY <1>1 DEF IsEncoded
  <1>7. QED
    BY <1>1, <1>2, <1>3, <1>5, <1>6

\* Of a name without a zero, all is used.
LEMMA AllIsUsed ==
    ASSUME NEW name \in Text, Nul \notin ToSet(name),
           NEW length \in 0..Len(name), EndsAt(name, 1, Nul, length)
    PROVE  SubSeq(name, 1, length) = name
  <1>1. Len(name) \in Nat /\ name \in Seq(Char)
    BY DEF Text
  <1>2. \A n \in 1..Len(name) : name[n] # Nul
    BY <1>1 DEF ToSet
  <1>3. length = Len(name)
    <2>1. SUFFICES ASSUME length < Len(name)
                   PROVE  FALSE
      BY <1>1
    <2>2. name[length + 1] = Nul /\ length + 1 \in 1..Len(name)
      BY <1>1, <2>1 DEF EndsAt
    <2>3. QED
      BY <1>2, <2>2
  <1>4. /\ SubSeq(name, 1, length) \in Seq(Char) /\ Len(SubSeq(name, 1, length)) = length
        /\ \A n \in 1..length : SubSeq(name, 1, length)[n] = name[n]
    BY <1>1, <1>3
  <1>5. QED
    BY <1>1, <1>3, <1>4, SeqEqual

LEMMA MemberStep ==
    ASSUME Invariant, kind = "member", NameNext, UNCHANGED batch_vars, IsEncoded,
           op.kind = "member", param = strings[1], MemberMeant
    PROVE  MemberMeant'
  <1>0. PICK name : name = op.meant[1]
    OBVIOUS
  <1>1. /\ NameTypeOK /\ DecoderBound
        /\ op' = op
    BY DEF Invariant, TypeOK, batch_vars
  <1>2. /\ name \in Text /\ Nul \notin ToSet(name) /\ Len(op.meant) = 1
        /\ op.meant \in Seq(Text) /\ Encodes(param, name)
    <2>1. Len(op.meant) = 1 /\ Encodes(param, name)
      BY <1>0 DEF IsEncoded
    <2>2. QED
      BY <1>0, <2>1, MeantNames DEF Invariant, TypeOK
  <1>3. Len(name) \in Nat /\ Len(param) \in Nat /\ Len(out) \in Nat /\ Len(src) \in Nat
    BY <1>1, <1>2 DEF NameTypeOK, Text
  <1>4. CASE Segment
    <2>1. /\ stage = "segment" /\ from = 1 /\ names = <<>>
          /\ stage' = "decode" /\ i' = 1 /\ out' = <<>> /\ names' = names /\ param' = param
          /\ src' = SubSeq(param, 1, Len(param))
      BY <1>4 DEF Segment, MemberMeant
    <2>2. src' = param
      BY <1>1, <2>1 DEF NameTypeOK, Text
    <2>3. Encodes(src, name)'
      BY <1>0, <1>1, <1>2, <2>2
    <2>4. DecodesTo(name)'
      BY <1>2, <2>1, <2>3, DecoderStarts
    <2>5. QED
      BY <1>0, <1>1, <2>1, <2>2, <2>4 DEF MemberMeant
  <1>5. ASSUME stage = "decode"
        PROVE  names = <<>> /\ src = param /\ DecodesTo(name)
    BY <1>0, <1>5 DEF MemberMeant
  <1>6. CASE Decode
    <2>1. /\ stage = "decode" /\ stage' = stage /\ names' = names /\ src' = src
          /\ param' = param
      BY <1>6 DEF Decode
    <2>2. DecodesTo(name)'
      BY <1>1, <1>2, <1>5, <1>6, <2>1, DecodeTurn
    <2>3. QED
      BY <1>0, <1>1, <1>5, <2>1, <2>2 DEF MemberMeant
  <1>7. CASE DecodeFails
    <2>1. /\ stage = "decode" /\ i <= Len(src) /\ Len(out) >= NameCap - 1
          /\ stage' = "named" /\ verdict' = "INVALID_PARAM"
      BY <1>7 DEF DecodeFails, Named, IsFull, out_buf_size
    <2>2. Len(out) < Len(name)
      BY <1>1, <1>2, <1>5, <2>1, MoreToDecode
    <2>3. ~(Len(name) < NameCap)
      BY <1>3, <2>1, <2>2
    <2>4. QED
      BY <1>0, <1>1, <2>1, <2>3 DEF MemberMeant
  <1>8. CASE Decoded
    <2>1. PICK length \in 0..Len(out) :
             /\ EndsAt(out, 1, Nul, length)
             /\ names' = Append(names, SubSeq(out, 1, length))
      BY <1>8 DEF Decoded
    <2>2. /\ stage = "decode" /\ i > Len(src)
          /\ stage' = "named" /\ verdict' = "OK"
      BY <1>8 DEF Decoded
    <2>3. out = name
      BY <1>1, <1>2, <1>5, <2>2, DecodedIsName
    <2>4. names' = <<name>>
      BY <1>2, <1>5, <2>1, <2>2, <2>3, AllIsUsed
    <2>5. names' = op.meant
      BY <1>0, <1>2, <2>4
    <2>6. Len(name) < NameCap
      BY <1>1, <2>2, <2>3 DEF DecoderBound, out_buf_size
    <2>7. QED
      BY <1>0, <1>1, <2>2, <2>5, <2>6 DEF MemberMeant
  <1>9. CASE CountSegments
    BY <1>9 DEF CountSegments, MemberMeant
  <1>10. QED
    BY <1>4, <1>6, <1>7, <1>8, <1>9 DEF NameNext, NameWork, SegmentAllocFails

-----------------------------------------------------------------------------
\* The names of a path leave no segment empty.
LEMMA NoneIsEmpty ==
    ASSUME NEW path \in Seq(Text), path # <<>>, NameTypeOK,
           NEW dots \in [0..Len(path) -> 0..(Len(param) + 1)],
           SpellsPath(param, path, dots)
    PROVE  ~HasEmptySegment
  <1>1. Len(path) \in Nat \ {0} /\ Len(param) \in Nat /\ param \in Seq(Char)
    BY EmptySeq DEF NameTypeOK, Text
  <1>2. /\ dots[0] = 0 /\ dots[Len(path)] = Len(param) + 1
        /\ \A n \in 1..Len(path) : dots[n - 1] + 1 < dots[n]
        /\ \A n \in 1..Len(path) :
              \A m \in (dots[n - 1] + 1)..(dots[n] - 1) : param[m] # Dot
    BY DEF SpellsPath
  <1>3. \A n \in 0..Len(path) : dots[n] \in Nat /\ dots[n] <= Len(param) + 1
    BY <1>1
  <1>4. \A n \in 1..Len(path) : n - 1 \in 0..Len(path) /\ n \in 0..Len(path)
    BY <1>1
  <1>5. Len(param) >= 1 /\ param[1] # Dot
    <2>1. dots[1 - 1] + 1 < dots[1] /\ dots[1] \in Nat /\ dots[1] <= Len(param) + 1
      BY <1>1, <1>2, <1>3
    <2>2. 1 \in (dots[1 - 1] + 1)..(dots[1] - 1)
      BY <1>2, <2>1
    <2>3. QED
      BY <1>1, <1>2, <2>1, <2>2
  <1>6. param[Len(param)] # Dot
    <2>1. dots[Len(path) - 1] + 1 < dots[Len(path)] /\ dots[Len(path) - 1] \in Nat
      <3>1. Len(path) \in 1..Len(path)
        BY <1>1
      <3>2. Len(path) - 1 \in 0..Len(path)
        BY <1>1
      <3>3. QED
        BY <1>2, <1>3, <3>1, <3>2
    <2>2. Len(param) \in (dots[Len(path) - 1] + 1)..(dots[Len(path)] - 1)
      BY <1>1, <1>2, <2>1
    <2>3. QED
      BY <1>1, <1>2, <2>2
  <1>7. ASSUME NEW m \in 1..(Len(param) - 1), param[m] = Dot
        PROVE  param[m + 1] # Dot
    <2> DEFINE T == {n \in 0..Len(path) : m <= dots[n]}
    <2>1. T \in SUBSET Nat /\ Len(path) \in T
      BY <1>1, <1>2
    <2>2. PICK n \in T : \A k \in T : n <= k
      <3> HIDE DEF T
      <3>1. QED
        BY <2>1, LeastElement
    <2>3. n \in 1..Len(path) /\ n - 1 \in 0..Len(path)
      BY <1>1, <1>2, <2>2
    <2>4. dots[n - 1] < m /\ m <= dots[n] /\ dots[n - 1] \in Nat /\ dots[n] \in Nat
      BY <1>3, <2>2, <2>3
    <2>5. m = dots[n]
      <3>1. SUFFICES ASSUME m < dots[n]
                     PROVE  FALSE
        BY <2>4
      <3>2. m \in (dots[n - 1] + 1)..(dots[n] - 1)
        BY <2>4, <3>1
      <3>3. QED
        BY <1>2, <1>7, <2>3, <3>2
    <2>6. n + 1 \in 1..Len(path) /\ n + 1 - 1 = n
      BY <1>1, <1>2, <2>3, <2>5
    <2>7. dots[n] + 1 < dots[n + 1] /\ dots[n + 1] \in Nat
      BY <1>2, <1>3, <2>6
    <2>8. m + 1 \in (dots[n + 1 - 1] + 1)..(dots[n + 1] - 1)
      BY <2>4, <2>5, <2>6, <2>7
    <2>9. QED
      BY <1>2, <2>6, <2>8
  <1>8. QED
    BY <1>1, <1>5, <1>6, <1>7 DEF HasEmptySegment

\* The segment that is cut out is what stands between two dots.
LEMMA CutAtDots ==
    ASSUME NEW path \in Seq(Text), NameTypeOK,
           NEW dots \in [0..Len(path) -> 0..(Len(param) + 1)],
           SpellsPath(param, path, dots), NEW n \in 1..Len(path),
           from = dots[n - 1] + 1,
           NEW last \in (from - 1)..Len(param), EndsAt(param, from, Dot, last)
    PROVE  last = dots[n] - 1
  <1>1. /\ Len(path) \in Nat /\ Len(param) \in Nat
        /\ dots[n - 1] \in Nat /\ dots[n] \in Nat /\ dots[n] <= Len(param) + 1
    <2>1. Len(path) \in Nat /\ Len(param) \in Nat
      BY SMTT(40) DEF NameTypeOK, Text
    <2>2. n - 1 \in 0..Len(path) /\ n \in 0..Len(path)
      BY <2>1
    <2>3. dots[n - 1] \in 0..(Len(param) + 1) /\ dots[n] \in 0..(Len(param) + 1)
      BY <2>2
    <2>4. QED
      BY <2>1, <2>3
  <1>2. /\ dots[n - 1] + 1 < dots[n]
        /\ \A m \in (dots[n - 1] + 1)..(dots[n] - 1) : param[m] # Dot
    BY DEF SpellsPath
  <1>3. last \in Int /\ dots[n] - 1 \in Int
    BY <1>1
  <1>4. ~(last < dots[n] - 1)
    <2>1. SUFFICES ASSUME last < dots[n] - 1
                   PROVE  FALSE
      OBVIOUS
    <2>2. last + 1 \in (dots[n - 1] + 1)..(dots[n] - 1)
      BY <1>1, <1>3, <2>1
    <2>3. param[last + 1] = Dot
      BY <1>1, <1>3, <2>1 DEF EndsAt
    <2>4. QED
      BY <1>2, <2>2, <2>3
  <1>5. ~(last > dots[n] - 1)
    <2>1. SUFFICES ASSUME last > dots[n] - 1
                   PROVE  FALSE
      OBVIOUS
    <2>2. dots[n] \in from..last /\ dots[n] # Len(param) + 1
      BY <1>1, <1>2, <1>3, <2>1
    <2>3. n # Len(path)
      BY <2>2 DEF SpellsPath
    <2>4. n \in 1..(Len(path) - 1)
      BY <1>1, <2>3
    <2>5. param[dots[n]] = Dot
      BY <2>4 DEF SpellsPath
    <2>6. QED
      BY <2>2, <2>5 DEF EndsAt
  <1>6. QED
    BY <1>3, <1>4, <1>5

LEMMA QueryStep ==
    ASSUME Invariant, Invariant', kind = "query", NameNext, UNCHANGED batch_vars,
           IsEncoded, op.kind = "query", param = strings[1], QueryMeant
    PROVE  QueryMeant'
  <1>0. PICK meant : meant = op.meant
    OBVIOUS
  <1>1. /\ NameTypeOK /\ NameTypeOK' /\ DecoderBound /\ SegmentsAlwaysDecode'
        /\ op' = op
    BY DEF Invariant, TypeOK, batch_vars
  <1>2. /\ meant \in Seq(Text) /\ Len(meant) \in Nat \ {0} /\ meant # <<>>
        /\ \A n \in 1..Len(meant) : meant[n] \in Text /\ Nul \notin ToSet(meant[n])
    BY <1>0, MeantNames DEF Invariant, TypeOK
  <1>3. /\ names \in Seq(Text) /\ Len(names) \in Nat
        /\ Len(param) \in Nat /\ Len(src) \in Nat /\ Len(out) \in Nat
    BY <1>1 DEF NameTypeOK, Text
  <1>4. CASE stage = "count"
    <2>1. CountSegments
      BY <1>4 DEF NameNext, NameWork, CountSegments, Segment, Decode, DecodeFails,
                  Decoded, SegmentAllocFails
    <2>2. PICK dots \in [0..Len(meant) -> 0..(Len(param) + 1)] :
             SpellsPath(param, meant, dots)
      BY <1>0 DEF IsEncoded, EncodesPath
    <2>3. ~HasEmptySegment
      BY <1>1, <1>2, <2>2, NoneIsEmpty
    <2>4. stage' = "segment" /\ names = <<>> /\ from = 1 /\ UNCHANGED <<param, names, from>>
      BY <1>4, <2>1, <2>3 DEF CountSegments, QueryMeant
    <2>5. Len(names) = 0 /\ dots[0] = 0
      BY <2>2, <2>4 DEF SpellsPath
    <2>6. QED
      BY <1>0, <1>1, <1>2, <2>2, <2>4, <2>5, SMTT(40) DEF QueryMeant
  <1>5. CASE stage \in {"segment", "decode"}
    <2>1. PICK dots \in [0..Len(meant) -> 0..(Len(param) + 1)] :
             /\ SpellsPath(param, meant, dots)
             /\ Len(names) < Len(meant)
             /\ \A n \in 1..Len(names) : names[n] = meant[n]
             /\ stage = "segment" => from = dots[Len(names)] + 1
             /\ stage = "decode" => /\ src = Between(param, dots, Len(names) + 1)
                                    /\ from = dots[Len(names) + 1] + 1
                                    /\ DecodesTo(meant[Len(names) + 1])
      BY <1>0, <1>5 DEF QueryMeant
    <2>2. PICK n : n = Len(names) + 1
      OBVIOUS
    <2>3. n \in 1..Len(meant) /\ n - 1 = Len(names)
      BY <1>2, <1>3, <2>1, <2>2
    <2>4. PICK name : name = meant[n]
      OBVIOUS
    <2>5. name \in Text /\ Nul \notin ToSet(name)
      BY <1>2, <2>3, <2>4
    <2>6. dots[n] \in Nat /\ dots[n] <= Len(param) + 1 /\ dots[n - 1] \in Nat
      BY <1>2, <1>3, <2>3
    <2>7. CASE Segment
      <3>1. PICK last \in (from - 1)..Len(param) :
               /\ EndsAt(param, from, Dot, last)
               /\ src' = SubSeq(param, from, last)
               /\ from' = last + 2
        BY <2>7 DEF Segment
      <3>2. /\ stage = "segment" /\ stage' = "decode" /\ i' = 1 /\ out' = <<>>
            /\ UNCHANGED <<param, names>>
        BY <2>7 DEF Segment
      <3>3. from = dots[n - 1] + 1
        BY <2>1, <2>3, <3>2
      <3>4. last = dots[n] - 1
        BY <1>1, <1>2, <2>1, <2>3, <3>1, <3>3, CutAtDots, ZenonT(40)
      <3>5. src' = Between(param, dots, n) /\ from' = dots[n] + 1
        BY <2>6, <3>1, <3>3, <3>4 DEF Between
      <3>6. Encodes(src', name)
        BY <2>1, <2>3, <2>4, <3>5 DEF SpellsPath
      <3>7. DecodesTo(name)'
        BY <2>5, <3>2, <3>6, DecoderStarts
      <3>8. QED
        BY <1>0, <1>1, <2>1, <2>2, <2>4, <3>2, <3>5, <3>7 DEF QueryMeant
    <2>8. ASSUME stage = "decode"
          PROVE  /\ src = Between(param, dots, n) /\ from = dots[n] + 1
                 /\ DecodesTo(name)
      BY <2>1, <2>2, <2>4, <2>8
    <2>9. CASE Decode
      <3>1. stage = "decode" /\ UNCHANGED <<stage, param, from, src, names>>
        BY <2>9 DEF Decode
      <3>2. DecodesTo(name)'
        BY <1>1, <2>5, <2>8, <2>9, <3>1, DecodeTurn
      <3>3. QED
        BY <1>0, <1>1, <2>1, <2>2, <2>4, <2>8, <3>1, <3>2 DEF QueryMeant
    <2>10. CASE Decoded
      <3>1. PICK length \in 0..Len(out) :
               /\ EndsAt(out, 1, Nul, length)
               /\ names' = Append(names, SubSeq(out, 1, length))
        BY <2>10 DEF Decoded
      <3>2. stage = "decode" /\ i > Len(src) /\ UNCHANGED <<param, from>>
        BY <2>10 DEF Decoded
      <3>3. out = name
        BY <1>1, <2>5, <2>8, <3>2, DecodedIsName
      <3>4. names' = Append(names, name)
        BY <2>5, <3>1, <3>3, AllIsUsed
      <3>5. Len(names') = n /\ \A k \in 1..n : names'[k] = meant[k]
        <4>1. /\ Len(names') = n
              /\ \A k \in 1..n : names'[k] = IF k = n THEN name ELSE names[k]
          BY <1>3, <2>2, <2>5, <3>4
        <4>2. \A k \in 1..n : k = n \/ k \in 1..Len(names)
          BY <1>3, <2>2
        <4>3. QED
          BY <2>1, <2>4, <4>1, <4>2
      <3>6. CASE n = Len(meant)
        <4>1. from = Len(param) + 2
          BY <1>3, <2>1, <2>8, <3>2, <3>6 DEF SpellsPath
        <4>2. stage' = "named" /\ verdict' = "OK"
          BY <1>3, <2>10, <4>1 DEF Decoded
        <4>3. names' = meant
          BY <1>1, <1>2, <3>5, <3>6, SeqEqual DEF NameTypeOK
        <4>4. QED
          BY <1>0, <1>1, <4>2, <4>3 DEF QueryMeant
      <3>7. CASE n # Len(meant)
        <4>1. n + 1 \in 1..Len(meant) /\ n + 1 - 1 = n
          BY <1>2, <2>3, <3>7
        <4>2. dots[n] + 1 < dots[n + 1]
          <5>1. \A m \in 1..Len(meant) : dots[m - 1] + 1 < dots[m]
            BY <2>1 DEF SpellsPath
          <5>2. dots[n + 1 - 1] + 1 < dots[n + 1]
            BY <2>3, <4>1, <5>1
          <5>3. QED
            BY <4>1, <5>2
        <4>3. dots[n + 1] \in Nat /\ dots[n + 1] <= Len(param) + 1
          BY <1>2, <1>3, <4>1
        <4>4. from <= Len(param)
          BY <1>3, <2>6, <2>8, <3>2, <4>2, <4>3
        <4>5. stage' = "segment"
          BY <2>10, <4>4 DEF Decoded
        <4>6. Len(names') < Len(meant)
          BY <1>2, <2>3, <3>5, <3>7
        <4>7. QED
          BY <1>0, <1>1, <2>1, <2>8, <3>2, <3>5, <4>5, <4>6 DEF QueryMeant
      <3>8. QED
        BY <3>6, <3>7
    <2>11. CASE DecodeFails
      <3>1. verdict' = "PATH_URL_DECODE"
        BY <2>11 DEF DecodeFails, Named
      <3>2. QED
        BY <1>1, <3>1 DEF SegmentsAlwaysDecode
    <2>12. CASE SegmentAllocFails
      <3>1. stage' = "named" /\ verdict' = "MEMORY"
        BY <2>12 DEF SegmentAllocFails, Named
      <3>2. QED
        BY <1>1, <3>1 DEF QueryMeant
    <2>13. QED
      BY <1>5, <2>7, <2>9, <2>10, <2>11, <2>12
         DEF NameNext, NameWork, CountSegments
  <1>6. CASE stage = "named"
    BY <1>6 DEF NameNext, NameWork, CountSegments, Segment, Decode, DecodeFails,
                Decoded, SegmentAllocFails
  <1>7. QED
    BY <1>4, <1>5, <1>6 DEF QueryMeant

-----------------------------------------------------------------------------
LEMMA MeaningStep ==
    ASSUME Invariant, Invariant', MeaningInv, [Next]_vars
    PROVE  MeaningInv'
  <1>1. CASE BatchNext /\ UNCHANGED name_vars
    <2>1. stage = "away"
      BY <1>1 DEF BatchNext, BatchWork, VarsAllocFails, Bind, Bound, Measure, Measured,
                  Write, Written, MeaningInv
    <2>2. QED
      BY <1>1, <2>1 DEF MeaningInv, name_vars
  <1>2. CASE Dispatch /\ UNCHANGED batch_vars
    <2>1. /\ stage = "away" /\ at = "resolved" /\ names = <<>> /\ from = 1
          /\ stage' = IF op.kind = "query" THEN "count" ELSE "segment"
          /\ kind' = op.kind /\ param' = route_params_get(op.kind, strings[1])
          /\ UNCHANGED <<names, from, op, at, strings>>
      BY <1>2 DEF Dispatch, TakeParam, MeaningInv, batch_vars
    <2>2. QED
      <3>1. ASSUME IsEncoded'
            PROVE  /\ kind' = "query" => QueryMeant'
                   /\ kind' # "query" => MemberMeant'
        BY <2>1 DEF QueryMeant, MemberMeant
      <3>2. param' = route_params_get(kind, strings[1])'
        BY <2>1 DEF route_params_get
      <3>3. QED
        <4>1. stage' # "away" /\ at' = "resolved" /\ kind' = op'.kind
          BY <2>1
        <4>2. QED
          BY <3>1, <3>2, <4>1 DEF MeaningInv
  <1>3. CASE NameNext /\ UNCHANGED batch_vars
    <2>1. /\ stage # "away" /\ stage' # "away" /\ UNCHANGED <<kind, param>>
          /\ UNCHANGED <<op, at, strings>>
      BY <1>3 DEF NameNext, NameWork, CountSegments, Segment, Decode, DecodeFails,
                  Decoded, SegmentAllocFails, Named, batch_vars
    <2>2. IsEncoded' <=> IsEncoded
      BY <2>1 DEF IsEncoded
    <2>3. ASSUME IsEncoded
          PROVE  /\ kind = "query" => QueryMeant'
                 /\ kind # "query" => MemberMeant'
      <3>1. kind = op.kind /\ op.kind \in Kinds
        BY <2>1, <2>3, MeantNames DEF MeaningInv, Invariant, TypeOK
      <3>2. param = strings[1]
        BY <2>1, <2>3, <3>1, MeantNames DEF MeaningInv, Invariant, TypeOK
      <3>3. CASE kind = "query"
        BY <1>3, <2>1, <2>3, <3>1, <3>2, <3>3, QueryStep DEF MeaningInv
      <3>4. CASE kind = "member"
        BY <1>3, <2>1, <2>3, <3>1, <3>2, <3>4, MemberStep DEF MeaningInv
      <3>5. QED
        BY <3>1, <3>3, <3>4 DEF Kinds
    <2>4. /\ at' = "resolved" /\ kind' = op'.kind
          /\ param' = route_params_get(kind, strings[1])'
      BY <2>1 DEF MeaningInv, route_params_get
    <2>5. QED
      BY <2>1, <2>2, <2>3, <2>4 DEF MeaningInv
  <1>4. CASE UNCHANGED vars
    <2>1. UNCHANGED <<kind, param, stage, from, src, i, out, names, verdict, op, at, strings>>
      BY <1>4 DEF vars, name_vars, batch_vars
    <2>2. (IsEncoded' <=> IsEncoded) /\ (QueryMeant' <=> QueryMeant)
          /\ (MemberMeant' <=> MemberMeant)
      BY <2>1 DEF IsEncoded, QueryMeant, MemberMeant, DecodesTo
    <2>3. QED
      BY <2>1, <2>2 DEF MeaningInv, route_params_get
  <1>5. QED
    BY <1>1, <1>2, <1>3, <1>4 DEF Next, Ended

\* The names that a client has encoded are those the handler works on, for
\* names and texts of any length, and whatever vars have been replaced before.
THEOREM NamesMeant == Spec => []NamesAreMeant
  <1>1. Init => MeaningInv
    BY DEF Init, NameInit, MeaningInv
  <1>2. Invariant /\ Invariant' /\ MeaningInv /\ [Next]_vars => MeaningInv'
    BY MeaningStep
  <1>3. Invariant /\ MeaningInv => NamesAreMeant
    <2> SUFFICES ASSUME Invariant, MeaningInv, stage = "named", verdict # "MEMORY", IsEncoded
                 PROVE  IF Short THEN verdict = "OK" /\ names = op.meant
                        ELSE verdict = "INVALID_PARAM"
      BY DEF NamesAreMeant
    <2>1. kind = op.kind
      BY DEF MeaningInv
    <2>2. CASE kind = "query"
      BY <2>1, <2>2 DEF MeaningInv, QueryMeant, Short
    <2>3. CASE kind # "query"
      BY <2>1, <2>3 DEF MeaningInv, MemberMeant, Short
    <2>4. QED
      BY <2>2, <2>3
  <1>4. QED
    BY <1>1, <1>2, <1>3, Invariance, PTL DEF Spec

=============================================================================
