--------------------------- MODULE MCTagGeometry ---------------------------
\* Two static configurations that are interchangeable, and commands that follow
\* each other and meet the radio's and the estimator's task at every access.
EXTENDS TagGeometry

CONSTANTS A, B

MCStatics == {A, B}
MCSymmetry == Permutations(MCStatics)
=============================================================================
