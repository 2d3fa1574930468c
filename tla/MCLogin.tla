------------------------------ MODULE MCLogin ------------------------------
EXTENDS Login
=============================================================================
