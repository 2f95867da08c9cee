----------------------------- MODULE MCDthread ------------------------------
EXTENDS Dthread
=============================================================================
