--------------------------- MODULE MCCmsisDapUsb ---------------------------
(* The request packets of the runs of CmsisDapUsb. *)
EXTENDS CmsisDapUsb

Cmd(n) == [size |-> n, stops |-> FALSE]
Bad(n) == [size |-> n, stops |-> TRUE]

(* With MaxPacket = 4: one command, two that share a packet with a third   *)
(* that does not, and a command that ends its packet.                      *)
TwoPackets == {<<Cmd(3)>>, <<Cmd(1), Cmd(1), Cmd(3)>>, <<Cmd(1), Bad(2), Cmd(1)>>}
ASSUME TwoPacketsAssumption == \A cmds \in TwoPackets : FitsTwoPackets(cmds)

OneCommand == {<<Cmd(3)>>}
=============================================================================
