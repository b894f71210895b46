---------------------------- MODULE MCAgentTurns ----------------------------
EXTENDS TurnProperties
=============================================================================
