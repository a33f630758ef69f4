----------------------------- MODULE MemberName -----------------------------
(***************************************************************************)
(* From the text in a URL to the names it stands for: the parameter that   *)
(* the router has cut out is copied into a buffer (route_params_get), and  *)
(* url_decode turns it into the name of a member, or, for a query, each of *)
(* its segments.  The decoder is modelled with one step for each turn of   *)
(* its loop.                                                               *)
(*                                                                         *)
(* The text of a query is the part after its pointer and first dot; what   *)
(* else segments_parse refuses is the subject of QueryPath.                *)
(***************************************************************************)
EXTENDS Characters

CONSTANTS
    ParamCap,   \* what the buffer of a parameter holds: 1023 characters, of which
                \* 35 go to the pointer and dot of a query
    NameCap     \* sizeof member_name: 512

Kinds == {"member", "query"}
Verdicts == {"OK", "INVALID_PARAM", "PATH_PARSE", "PATH_URL_DECODE", "MEMORY"}

ASSUME NameAssumption ==
    /\ ParamCap \in [Kinds -> Nat]
    /\ NameCap \in Nat \ {0}
    /\ None \notin Verdicts

VARIABLES
    kind,       \* a member route, or a query
    param,      \* the parameter as the handler has it
    stage,      \* "away", "count", "segment", "decode" or "named"
    from,       \* where the next segment begins
    src,        \* what url_decode is given
    i,          \* the character it looks at
    out,        \* what it has written
    names,      \* the names that are decoded
    verdict     \* "OK", or why there is no name

name_vars == <<kind, param, stage, from, src, i, out, names, verdict>>

NameInit ==
    /\ kind = None /\ param = <<>> /\ stage = "away" /\ from = 1
    /\ src = <<>> /\ i = 1 /\ out = <<>> /\ names = <<>> /\ verdict = None

-----------------------------------------------------------------------------
\* Mutant: a parameter that is too long is cut one character early.
CutShort(k, text) ==
    IF Len(text) >= ParamCap[k] THEN SubSeq(text, 1, ParamCap[k] - 1) ELSE text

\* What is copied: a parameter that is too long is cut, and nobody is told.
route_params_get(k, text) ==
    IF Len(text) > ParamCap[k] THEN SubSeq(text, 1, ParamCap[k]) ELSE text

\* n is the last place before the first c at or after first, or the end of text.
EndsAt(text, first, c, n) ==
    /\ \A m \in first..n : text[m] # c
    /\ n < Len(text) => text[n + 1] = c

\* A handler asks for its parameter.
TakeParam(k, text) ==
    /\ stage = "away"
    /\ stage' = IF k = "query" THEN "count" ELSE "segment"
    /\ kind' = k
    /\ param' = route_params_get(k, text)
    /\ UNCHANGED <<from, src, i, out, names, verdict>>

Named(v) ==
    /\ stage' = "named"
    /\ verdict' = v
    /\ UNCHANGED <<kind, param, from, src, i, out, names>>

HasEmptySegment ==
    \/ param = <<>>
    \/ Dot \in {param[1], param[Len(param)]}
    \/ \E n \in 1..(Len(param) - 1) : param[n] = Dot /\ param[n + 1] = Dot

\* segments_parse looks at all segments before it decodes the first one.
CountSegments ==
    /\ stage = "count"
    /\ IF HasEmptySegment THEN Named("PATH_PARSE")
       ELSE /\ stage' = "segment"
            /\ UNCHANGED <<kind, param, from, src, i, out, names, verdict>>

\* Mutant: a path is decoded first, and cut at its dots then.
SegmentWhole ==
    /\ stage = "segment"
    /\ src' = param
    /\ from' = Len(param) + 2
    /\ i' = 1 /\ out' = <<>>
    /\ stage' = "decode"
    /\ UNCHANGED <<kind, param, names, verdict>>

\* url_decode is called: with the next segment, or with the whole parameter.
Segment ==
    /\ stage = "segment"
    /\ \E last \in (from - 1)..Len(param) :
          /\ IF kind = "query" THEN EndsAt(param, from, Dot, last)
             ELSE last = Len(param)
          /\ src' = SubSeq(param, from, last)
          /\ from' = last + 2
    /\ i' = 1 /\ out' = <<>>
    /\ stage' = "decode"
    /\ UNCHANGED <<kind, param, names, verdict>>

\* Mutant: no byte for the end of a segment.
SizeOfText == IF kind = "query" THEN Len(src) ELSE NameCap

\* out_buf_size: a segment is decoded into one byte more than it has.
out_buf_size == IF kind = "query" THEN Len(src) + 1 ELSE NameCap

\* Mutant: an escape at the very end is not seen.
IsEscapeInside ==
    /\ src[i] = Percent /\ i + 2 < Len(src)
    /\ src[i + 1] \in Hex /\ src[i + 2] \in Hex

\* hex_char_to_int of both characters behind a percent sign, if there are two.
IsEscape ==
    /\ src[i] = Percent /\ i + 2 <= Len(src)
    /\ src[i + 1] \in Hex /\ src[i + 2] \in Hex

\* Mutant: no byte is kept for the end of the string.
IsFullAtEnd == Len(out) >= out_buf_size

IsFull == Len(out) >= out_buf_size - 1

\* One turn of the loop: an escape, or any other character as it is.
Decode ==
    /\ stage = "decode" /\ i <= Len(src) /\ ~IsFull
    /\ IF IsEscape
       THEN out' = Append(out, Byte[<<src[i + 1], src[i + 2]>>]) /\ i' = i + 3
       ELSE out' = Append(out, src[i]) /\ i' = i + 1
    /\ UNCHANGED <<kind, param, stage, from, src, names, verdict>>

\* The buffer is full.
DecodeFails ==
    /\ stage = "decode" /\ i <= Len(src) /\ IsFull
    /\ Named(IF kind = "query" THEN "PATH_URL_DECODE" ELSE "INVALID_PARAM")

\* The name is complete; it is used as far as strlen sees it.
Decoded ==
    /\ stage = "decode" /\ i > Len(src)
    /\ \E length \in 0..Len(out) :
          /\ EndsAt(out, 1, Nul, length)
          /\ names' = Append(names, SubSeq(out, 1, length))
    /\ IF kind = "query" /\ from <= Len(param)
       THEN stage' = "segment" /\ UNCHANGED verdict
       ELSE stage' = "named" /\ verdict' = "OK"
    /\ UNCHANGED <<kind, param, from, src, i, out>>

NameWork == CountSegments \/ Segment \/ Decode \/ DecodeFails \/ Decoded

\* No memory for a segment, or for the array of them.
SegmentAllocFails ==
    /\ kind = "query" /\ stage = "segment"
    /\ Named("MEMORY")

NameNext == NameWork \/ SegmentAllocFails

=============================================================================
