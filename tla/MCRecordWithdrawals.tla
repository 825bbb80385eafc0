------------------------ MODULE MCRecordWithdrawals -------------------------
(* Values for the constants of RecordWithdrawals. *)
EXTENDS RecordWithdrawals, TLC

MCOneConfig == {[views |-> {"v1"}, min |-> 1]}
MCTwoConfigs == {[views |-> {"v1"}, min |-> 1], [views |-> {"v1", "v2"}, min |-> 1]}
MCMinima == {[views |-> {"v1"}, min |-> 1], [views |-> {"v1"}, min |-> 0]}
=============================================================================
