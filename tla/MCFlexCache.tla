----------------------------- MODULE MCFlexCache -----------------------------
EXTENDS FlexCache

CONSTANTS c1, c2, f1, f2
=============================================================================
