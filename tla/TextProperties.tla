--------------------------- MODULE TextProperties ---------------------------
(***************************************************************************)
(* What replacing and decoding promise.                                    *)
(***************************************************************************)
EXTENDS TextPath, SequencesExt

\* What the second pass writes is what the first has measured.
MeasuredIsWritten ==
    at = "write" => /\ Len(written) <= out_len
                    /\ pos > Len(Str) => Len(written) = out_len

-----------------------------------------------------------------------------
\* The field that a var names, as documented: of an operation before this one,
\* and a string or a number.
Field(var) == Results[var.index + 1][var.key]
Holds(var) ==
    /\ var # None /\ var.index < Len(Results)
    /\ Results[var.index + 1] # None
    /\ var.key \in DOMAIN Results[var.index + 1]
    /\ Field(var).is = "text"

\* Replacing as API_REFERENCE.md describes it, without a word on how: a token
\* that stands somewhere in the text is replaced (the longest one, if several
\* begin there) unless that place is inside an earlier one that is replaced; and
\* nothing is replaced in what has been put there.
TokensAt(text, p) ==
    {v \in DOMAIN op.vars :
        IsPrefix(op.vars[v].token, SubSeq(text, p, Len(text)))}

TokenFor(text, p) ==
    CHOOSE v \in TokensAt(text, p) :
        \A w \in TokensAt(text, p) \ {v} :
            \/ Len(op.vars[w].token) < Len(op.vars[v].token)
            \/ op.vars[w].token = op.vars[v].token /\ v < w

Places(text) == {p \in 1..Len(text) : TokensAt(text, p) # {}}

\* Place p is inside the token that begins at q.
Inside(text, p, q) == q < p /\ p < q + Len(op.vars[TokenFor(text, q)].token)

\* What stands for each character when the tokens at these places are replaced.
Pieces(text, begins) ==
    [p \in 1..Len(text) |->
        IF p \in begins THEN Field(op.vars[TokenFor(text, p)]).text
        ELSE IF \E q \in begins : Inside(text, p, q) THEN <<>>
        ELSE <<text[p]>>]

\* A token is replaced unless it begins inside an earlier one that is.
Chosen(text, begins) ==
    \A p \in Places(text) : p \in begins <=> ~\E q \in begins : Inside(text, p, q)

IsReplaced(text, result) ==
    \E begins \in SUBSET Places(text) :
        Chosen(text, begins) /\ result = FlattenSeq(Pieces(text, begins))

\* The path and every string of the body are replaced as documented, and an
\* operation with a reference that does not hold never gets that far.
ReplacedAsDocumented ==
    at = "resolved" =>
        /\ \A v \in DOMAIN op.vars : Holds(op.vars[v])
        /\ Len(strings) = Len(op.strings)
        /\ \A s \in DOMAIN strings : IsReplaced(op.strings[s], strings[s])

-----------------------------------------------------------------------------
\* How a client may write a name: every character as it is, unless it is a
\* percent sign, or as an escape.  ends[n] is the end of what stands for the
\* first n characters.
Spells(text, name, ends) ==
    /\ ends[0] = 0 /\ ends[Len(name)] = Len(text)
    /\ \A n \in 1..Len(name) :
          LET first == ends[n - 1] + 1
          IN \/ /\ ends[n] = first
                /\ name[n] # Percent /\ text[first] = name[n]
             \/ /\ ends[n] = first + 2
                /\ text[first] = Percent
                /\ {text[first + 1], text[first + 2]} \subseteq Hex
                /\ name[n] = Byte[<<text[first + 1], text[first + 2]>>]

Encodes(text, name) ==
    \E ends \in [0..Len(name) -> 0..Len(text)] : Spells(text, name, ends)

\* In a query the names stand between dots, and dots inside them are escaped.
Between(text, dots, n) == SubSeq(text, dots[n - 1] + 1, dots[n] - 1)

SpellsPath(text, path, dots) ==
    /\ dots[0] = 0 /\ dots[Len(path)] = Len(text) + 1
    /\ \A n \in 1..Len(path) : dots[n - 1] + 1 < dots[n]
    /\ \A n \in 1..(Len(path) - 1) : text[dots[n]] = Dot
    /\ \A n \in 1..Len(path) :
          /\ \A m \in (dots[n - 1] + 1)..(dots[n] - 1) : text[m] # Dot
          /\ Encodes(Between(text, dots, n), path[n])

EncodesPath(text, path) ==
    \E dots \in [0..Len(path) -> 0..(Len(text) + 1)] : SpellsPath(text, path, dots)

\* The parameter is what a client makes of the names it means, none of which has
\* a zero inside, and it is not so long that it is cut.
IsEncoded ==
    LET text == strings[1]
    IN /\ op.meant # None /\ Len(op.meant) >= 1
       /\ \A n \in DOMAIN op.meant : Nul \notin ToSet(op.meant[n])
       /\ Len(text) <= ParamCap[op.kind]
       /\ IF op.kind = "query" THEN EncodesPath(text, op.meant)
          ELSE Len(op.meant) = 1 /\ Encodes(text, op.meant[1])

Short == op.kind = "query" \/ Len(op.meant[1]) < NameCap

\* The names that a client has encoded, in whichever way, are those the handler
\* works on; a member's name that is too long is refused, not shortened.
NamesAreMeant ==
    stage = "named" /\ verdict # "MEMORY" /\ IsEncoded =>
        IF Short THEN verdict = "OK" /\ names = op.meant
        ELSE verdict = "INVALID_PARAM"

\* lmjcore_web.md, section 8, promises names of up to 493 bytes: this is the
\* same for texts of any length, which the parameter's buffer may cut.
LongNamesAreMeant ==
    stage = "named" /\ verdict = "OK" /\ op.meant # None =>
        \/ names = op.meant
        \/ \E n \in DOMAIN op.meant : Nul \in ToSet(op.meant[n])

\* Every operation comes to its names or to a refusal.
TextEnds == <>(stage = "named" \/ at = "refused")

=============================================================================
