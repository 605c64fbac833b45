------------------------------ MODULE MC_DLiteCopy ------------------------------
EXTENDS DLiteCopy
=============================================================================
