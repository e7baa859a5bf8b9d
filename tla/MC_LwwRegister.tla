---------------------------- MODULE MC_LwwRegister ----------------------------
EXTENDS LwwRegister
=============================================================================
