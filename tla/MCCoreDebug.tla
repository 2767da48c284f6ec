---------------------------- MODULE MCCoreDebug ----------------------------
EXTENDS CoreDebug

MCClobbered == <<"r0", "pc">>
=============================================================================
