------------------------------ MODULE MCRanges ------------------------------
EXTENDS Ranges, TLC
=============================================================================
