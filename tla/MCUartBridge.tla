---------------------------- MODULE MCUartBridge ----------------------------
(* The line codings of the run of UartBridge: c3 is one that the UART does  *)
(* not have.                                                               *)
EXTENDS UartBridge

CONSTANTS c1, c2, c3
=============================================================================
