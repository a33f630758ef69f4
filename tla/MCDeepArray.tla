---------------------------- MODULE MCDeepArray -----------------------------
(***************************************************************************)
(* An instance of NestedQuery with the limits of the program: an array in  *)
(* an array and so on, one level deeper than LMJCORE_NEST_DEPTH_MAX.  The  *)
(* JSON nodes are named by their level.                                    *)
(***************************************************************************)
EXTENDS NestedProperties, TLC

CONSTANT a

MCNames == {a}
MCRaw == {Null}
MCKeyLen == [k \in MCNames |-> 1]
MCNodes == 0..(NestMax + 1)
MCType == [n \in MCNodes |-> "array"]
MCText == [n \in MCNodes |-> Null]
MCKids == [n \in MCNodes |-> IF n \in 0..NestMax THEN <<[key |-> a, node |-> n + 1]>>
                             ELSE <<>>]
MCObjPtr == {"object"} \X MCNodes
MCSetPtr == {"array"} \X MCNodes
MCFresh == [i \in 1..(NestMax + 1) |-> [object |-> <<"object", i>>,
                                        array |-> <<"array", i>>]]
MCSize == [v \in MCRaw \cup MCObjPtr \cup MCSetPtr |-> IF v = Null THEN 1 ELSE 18]
MCRequests == {[route |-> "array", body |-> 0, shared |-> FALSE]}

\* "nesting depth exceeds max 64" has 28 characters; the reasons of a name have
\* 30 at most, and so have, as the longest, the others here.
MCReasonLen == [c \in Causes |-> IF c = "depth" THEN 28 ELSE 30]

=============================================================================
