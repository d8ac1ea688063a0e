------------------------- MODULE MCFiberScheduler -------------------------
EXTENDS FiberScheduler, TLC
===========================================================================
