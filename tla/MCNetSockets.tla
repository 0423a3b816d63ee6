----------------------------- MODULE MCNetSockets -----------------------------
(* Instances of NetSockets for TLC: two slots; peers may send more than a ring *)
(* holds before Java reads, as with TCP_WND and TCP_RECV_BUF_SIZE.             *)
EXTENDS NetSockets

TwoSlots  == {0, 1}
ThreePcbs == {1, 2, 3}
TwoPcbs   == {1, 2}
OneSlot   == {0}
=============================================================================
