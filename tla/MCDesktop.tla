----------------------------- MODULE MCDesktop -----------------------------
EXTENDS Desktop

CONSTANTS p1, p2, p3, p4, p5, u1, u2
=============================================================================
