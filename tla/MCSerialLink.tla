---------------------------- MODULE MCSerialLink ----------------------------
(* SerialLink for TLC.  Packets of four bytes: two of the bodies fit one with  *)
(* their header; what follows the first packet of the third looks like headers,*)
(* one of them with a size that is refused.                                    *)
EXTENDS SerialLink

HostBodies == { <<1, 2>>, <<5>>, <<3, 4, 9, 8, 9, 1, 9>> }
=============================================================================
