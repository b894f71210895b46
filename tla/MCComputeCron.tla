---------------------------- MODULE MCComputeCron ----------------------------
EXTENDS RowProperties
=============================================================================
