----------------------------- MODULE MCSwjWire -----------------------------
(* Instances of SwjWire for TLC.                                           *)
EXTENDS SwjWire

TwoAddrs == {<<0, 1, 0>>, <<1, 0, 0>>}
TwoWords == {<<0, 1>>, <<1, 1>>}
TwoChains == {<<2>>, <<3, 2>>}
=============================================================================
