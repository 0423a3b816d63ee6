-------------------------------- MODULE MCMqtt --------------------------------
(* Instances of Mqtt for TLC: a message shorter than, as long as, and longer   *)
(* than the buffer.                                                            *)
EXTENDS Mqtt

OneClient  == {0}
TwoClients == {0, 1}
Three      == <<2, 1, 3>>
Two        == <<1, 3>>
=============================================================================
