------------------------------ MODULE MCWebConsole ------------------------------
EXTENDS WebConsole, TLC
Symmetry == Permutations(Browsers)
===============================================================================
