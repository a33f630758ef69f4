------------------------------ MODULE TextPath ------------------------------
(***************************************************************************)
(* An operation from its vars to the names in its path: what resolve_vars  *)
(* has put into the path is what the handler decodes.  A request that is   *)
(* no part of a batch is an operation without vars.                        *)
(***************************************************************************)
EXTENDS MemberName, BatchVars

vars == <<name_vars, batch_vars>>

Init == NameInit /\ BatchInit

\* The router finds the parameter in the path, and a handler asks for it.
Dispatch ==
    /\ at = "resolved"
    /\ TakeParam(op.kind, strings[1])

Ended == (stage = "named" \/ at = "refused") /\ UNCHANGED vars

Next ==
    \/ BatchNext /\ UNCHANGED name_vars
    \/ (Dispatch \/ NameNext) /\ UNCHANGED batch_vars
    \/ Ended

Spec == Init /\ [][Next]_vars

\* The thread is scheduled, and memory does not have to run out.
FairSpec ==
    /\ Spec
    /\ WF_vars(BatchWork /\ UNCHANGED name_vars)
    /\ WF_vars((Dispatch \/ NameWork) /\ UNCHANGED batch_vars)

-----------------------------------------------------------------------------
Binding == [token: Text, value: Text]

NameTypeOK ==
    /\ kind \in Kinds \cup {None}
    /\ stage \in {"away", "count", "segment", "decode", "named"}
    /\ stage # "away" => kind \in Kinds
    /\ param \in Text /\ src \in Text /\ out \in Text
    /\ from \in Nat \ {0} /\ i \in Nat \ {0}
    /\ names \in Seq(Text)
    /\ verdict \in Verdicts \cup {None}

BatchTypeOK ==
    /\ op \in Operation
    /\ at \in {"resolve", "measure", "write", "resolved", "refused"}
    /\ bindings \in Seq(Binding)
    /\ strings \in Seq(Text)
    /\ cur \in Nat /\ pos \in Nat \ {0} /\ out_len \in Nat
    /\ written \in Text
    /\ IF at = "refused" THEN status \in {400, 500} ELSE status = None

TypeOK == NameTypeOK /\ BatchTypeOK

\* Whatever is sent, broken escapes and all: the decoder never writes past its
\* buffer, nor takes for an escape what stands behind the end of its text.
DecodeStaysInside ==
    stage = "decode" => Len(out) < out_buf_size /\ i <= Len(src) + 1

\* One byte more than it has is always enough for a segment: PATH_URL_DECODE is
\* never answered.
SegmentsAlwaysDecode == verdict # "PATH_URL_DECODE"

=============================================================================
