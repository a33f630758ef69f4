----------------------------- MODULE Characters -----------------------------
(***************************************************************************)
(* Texts, as far as URLs and tokens tell their characters apart.           *)
(***************************************************************************)
EXTENDS Integers, Sequences

CONSTANTS
    None,
    Char,               \* the characters
    Percent, Dot, Nul,
    Hex,                \* the characters that are hexadecimal digits
    Byte                \* the character of two digits

ASSUME CharacterAssumption ==
    /\ {Percent, Dot, Nul} \cup Hex \subseteq Char
    /\ Byte \in [Hex \X Hex -> Char]

Text == Seq(Char)

=============================================================================
