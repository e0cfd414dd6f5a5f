----------------------------- MODULE MCCompare -----------------------------
EXTENDS Compare
=============================================================================
