-------------------------- MODULE WithdrawalDuty --------------------------
(***************************************************************************)
(* What the endpoint controller and the sources promise together about the *)
(* hostname/address pairs of one EndpointRecordSet: a pair that was        *)
(* published is released only by capturing it in a RecordWithdrawal, and   *)
(* publishing it again owes a new one.                                     *)
(***************************************************************************)
CONSTANT Pairs
VARIABLE duty

DutyStates == {"none", "owed", "captured"}

Init == duty = [p \in Pairs |-> "none"]

\* Publish, capture, publish again.
Advances == {<<"none", "owed">>, <<"owed", "captured">>, <<"captured", "owed">>}

\* One write may publish, or capture, several pairs.
Next ==
    \E new \in [Pairs -> DutyStates] :
        /\ \A p \in Pairs : new[p] = duty[p] \/ <<duty[p], new[p]>> \in Advances
        /\ duty' = new

Spec == Init /\ [][Next]_duty
=============================================================================
