------------------------ MODULE MCEndpointRetirement ------------------------
(***************************************************************************)
(* EndpointRetirement as TLC checks it.                                    *)
(***************************************************************************)
EXTENDS EndpointRetirement

CONSTANTS h1, h2, a1, a2, n1

Plain == [is |-> "accepts", sup |-> FALSE]
Withdrawing == [is |-> "accepts", sup |-> TRUE]
Absent == [is |-> "absent", sup |-> TRUE]

MCWithdrawing == {<<Withdrawing>>}
MCUpgraded == {<<Plain>>, <<Absent>>}
MCAny == {<<Plain>>, <<Absent>>, <<Withdrawing>>}
MCTwo == {<<Absent, Withdrawing>>, <<Absent, Plain>>}
=============================================================================
