----------------------------- MODULE MCStartup -----------------------------
(* Startup and FlashDriver for TLC: two dies, the second from segment 2 on.  *)
EXTENDS Startup

TwoDies == <<0, 2>>
=============================================================================
