----------------------------- MODULE MCLibHydra -----------------------------
EXTENDS LibHydra
============================================================================
