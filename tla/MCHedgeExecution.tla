--------------------------- MODULE MCHedgeExecution ---------------------------
EXTENDS HedgeExecution
=============================================================================
