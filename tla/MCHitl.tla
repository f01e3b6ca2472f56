------------------------------- MODULE MCHitl -------------------------------
EXTENDS Hitl
=============================================================================
