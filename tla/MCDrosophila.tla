---------------------------- MODULE MCDrosophila ----------------------------
EXTENDS Drosophila
=============================================================================
