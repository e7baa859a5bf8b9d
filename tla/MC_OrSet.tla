------------------------------ MODULE MC_OrSet ------------------------------
EXTENDS OrSet
=============================================================================
