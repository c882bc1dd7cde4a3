------------------------------ MODULE MCRlcAm ------------------------------
EXTENDS RlcAm
=============================================================================
