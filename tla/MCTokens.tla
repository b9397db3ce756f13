------------------------------ MODULE MCTokens ------------------------------
EXTENDS Tokens

CONSTANTS c1, b1, b2, l1
=============================================================================
