--------------------------- MODULE MCErrorControl ----------------------------
(* One command of each effect, and one for another node. *)
EXTENDS ErrorControl

MCSent == {<<"ResetNode", "this">>, <<"StartRemoteNode", "broadcast">>,
           <<"StopRemoteNode", "this">>, <<"EnterPreOperational", "this">>,
           <<"ResetCommunication", "other">>}
=============================================================================
