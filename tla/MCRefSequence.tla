---------------------------- MODULE MCRefSequence ----------------------------
EXTENDS RefSequence
=============================================================================
