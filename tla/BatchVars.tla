----------------------------- MODULE BatchVars ------------------------------
(***************************************************************************)
(* The vars of one operation of a batch (resolve_vars): each token is      *)
(* bound to a field of the response of an earlier operation, and then the  *)
(* tokens in the path and in the strings of the body are replaced.         *)
(* substitute_string goes over a string twice, to measure the result and   *)
(* to write it into a buffer of that size; each turn of its loops is a     *)
(* step here.                                                              *)
(***************************************************************************)
EXTENDS Characters

CONSTANTS
    Keys,           \* the fields of responses
    Results,        \* the responses of the operations that were executed
    Operations      \* the operations that may come next

\* A value is text if it is a string or a number.  A response without a body is
\* None.
Value == [is: {"text", "other"}, text: Text]
IsResponse(r) ==
    r # None => DOMAIN r \subseteq Keys /\ \A key \in DOMAIN r : r[key] \in Value

\* A var that parse_var_ref refuses, or whose token is empty, is None.  index is
\* counted from 0.  The strings of an operation are the last parameter of its
\* path and then those of its body, in the order of substitute_walk.  What the
\* client means by the parameter is no part of the operation.
Var == [token: Text \ {<<>>}, index: Nat, key: Keys]
Operation == [kind: {"member", "query"}, vars: Seq(Var \cup {None}),
              strings: Seq(Text) \ {<<>>}, meant: Seq(Text) \cup {None}]

ASSUME VarsAssumption ==
    /\ DOMAIN Results = 1..Len(Results) /\ Len(Results) \in Nat
    /\ \A n \in DOMAIN Results : IsResponse(Results[n])
    /\ Operations \subseteq Operation

VARIABLES
    op,         \* the operation
    at,         \* "resolve", "measure", "write", "resolved" or "refused"
    bindings,   \* the tokens that have their value
    strings,    \* the strings as far as they are replaced
    cur,        \* which of them is due
    pos,        \* the character that is next
    out_len,    \* what the first pass has measured
    written,    \* what the second pass has written
    status      \* of a refusal

batch_vars == <<op, at, bindings, strings, cur, pos, out_len, written, status>>

BatchInit ==
    /\ op \in Operations
    /\ at = "resolve"
    /\ bindings = <<>>
    /\ strings = op.strings
    /\ cur = 1 /\ pos = 1 /\ out_len = 0 /\ written = <<>>
    /\ status = None

-----------------------------------------------------------------------------
Refuse(s) ==
    /\ at' = "refused"
    /\ status' = s
    /\ UNCHANGED <<op, bindings, strings, cur, pos, out_len, written>>

\* Mutant: a field that is neither string nor number is printed all the same.
ReferredAny(var) ==
    IF var = None \/ var.index >= Len(Results) THEN None
    ELSE LET body == Results[var.index + 1]
         IN IF body = None \/ var.key \notin DOMAIN body THEN None
            ELSE body[var.key].text

\* What a var refers to, or None: the operation has to be executed, its body has
\* to have the field, and the field has to be a string or a number.
Referred(var) ==
    IF var = None \/ var.index >= Len(Results) THEN None
    ELSE LET body == Results[var.index + 1]
         IN IF body = None \/ var.key \notin DOMAIN body THEN None
            ELSE IF body[var.key].is # "text" THEN None
            ELSE body[var.key].text

\* One turn of the loop over vars.
Bind ==
    /\ at = "resolve" /\ Len(bindings) < Len(op.vars)
    /\ LET var == op.vars[Len(bindings) + 1]
       IN IF Referred(var) = None THEN Refuse(400)
          ELSE /\ bindings' = Append(bindings, [token |-> var.token,
                                                value |-> Referred(var)])
               /\ UNCHANGED <<op, at, strings, cur, pos, out_len, written, status>>

\* All tokens are bound.  Without vars there is nothing to replace.
Bound ==
    /\ at = "resolve" /\ Len(bindings) = Len(op.vars)
    /\ at' = IF op.vars = <<>> THEN "resolved" ELSE "measure"
    /\ UNCHANGED <<op, bindings, strings, cur, pos, out_len, written, status>>

-----------------------------------------------------------------------------
TokenAt(text, p, b) ==
    LET token == bindings[b].token
    IN /\ p + Len(token) - 1 <= Len(text)
       /\ SubSeq(text, p, p + Len(token) - 1) = token

Matching(text, p) == {b \in 1..Len(bindings) : TokenAt(text, p, b)}

\* Mutant: the first token that matches is taken.
FirstBinding(text, p, b) ==
    IF b = 0 THEN Matching(text, p) = {}
    ELSE b \in Matching(text, p) /\ \A d \in Matching(text, p) : b <= d

\* match_binding finds b: the longest token at this place, and the first of equal
\* ones; 0 stands for none.
match_binding(text, p, b) ==
    LET Length(d) == Len(bindings[d].token)
    IN IF b = 0 THEN Matching(text, p) = {}
       ELSE /\ b \in Matching(text, p)
            /\ \A d \in Matching(text, p) :
                  Length(d) < Length(b) \/ (Length(d) = Length(b) /\ b <= d)

Str == strings[cur]

\* How far one turn of a loop goes, and what it puts there.
Step(b) == IF b = 0 THEN 1 ELSE Len(bindings[b].token)
Piece(b) == IF b = 0 THEN <<Str[pos]>> ELSE bindings[b].value

\* Mutant: a token counts as what it was, not as what it becomes.
MeasureToken ==
    /\ at = "measure" /\ pos <= Len(Str)
    /\ \E b \in 0..Len(bindings) :
          /\ match_binding(Str, pos, b)
          /\ out_len' = out_len + Step(b)
          /\ pos' = pos + Step(b)
    /\ UNCHANGED <<op, at, bindings, strings, cur, written, status>>

\* Mutant: a token is passed by the length of its value.
MeasureByValue ==
    /\ at = "measure" /\ pos <= Len(Str)
    /\ \E b \in 0..Len(bindings) :
          /\ match_binding(Str, pos, b)
          /\ out_len' = out_len + Len(Piece(b))
          /\ pos' = pos + Len(Piece(b))
    /\ UNCHANGED <<op, at, bindings, strings, cur, written, status>>

Measure ==
    /\ at = "measure" /\ pos <= Len(Str)
    /\ \E b \in 0..Len(bindings) :
          /\ match_binding(Str, pos, b)
          /\ out_len' = out_len + Len(Piece(b))
          /\ pos' = pos + Step(b)
    /\ UNCHANGED <<op, at, bindings, strings, cur, written, status>>

\* The buffer is allocated.
Measured ==
    /\ at = "measure" /\ pos > Len(Str)
    /\ at' = "write"
    /\ pos' = 1
    /\ UNCHANGED <<op, bindings, strings, cur, out_len, written, status>>

Write ==
    /\ at = "write" /\ pos <= Len(Str)
    /\ \E b \in 0..Len(bindings) :
          /\ match_binding(Str, pos, b)
          /\ written' = written \o Piece(b)
          /\ pos' = pos + Step(b)
    /\ UNCHANGED <<op, at, bindings, strings, cur, out_len, status>>

\* Mutant: only the path is replaced.
WrittenPath ==
    /\ at = "write" /\ pos > Len(Str)
    /\ strings' = [strings EXCEPT ![cur] = written]
    /\ at' = "resolved"
    /\ cur' = cur + 1 /\ pos' = 1 /\ out_len' = 0 /\ written' = <<>>
    /\ UNCHANGED <<op, bindings, status>>

\* The string is replaced; the next one, if there is one.
Written ==
    /\ at = "write" /\ pos > Len(Str)
    /\ strings' = [strings EXCEPT ![cur] = written]
    /\ at' = IF cur = Len(strings) THEN "resolved" ELSE "measure"
    /\ cur' = cur + 1 /\ pos' = 1 /\ out_len' = 0 /\ written' = <<>>
    /\ UNCHANGED <<op, bindings, status>>

BatchWork == Bind \/ Bound \/ Measure \/ Measured \/ Write \/ Written

\* No memory for the bindings, for a value, or for a string.
VarsAllocFails ==
    /\ \/ at = "resolve" /\ op.vars # <<>>
       \/ at = "measure" /\ pos > Len(Str)
    /\ Refuse(500)

BatchNext == BatchWork \/ VarsAllocFails

=============================================================================
