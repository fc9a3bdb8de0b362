------------------------------ MODULE MCRepository ------------------------------
EXTENDS Repository
=============================================================================
