------------------------------ MODULE MCReader ------------------------------
EXTENDS Reader
=============================================================================
