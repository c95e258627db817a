------------------------------ MODULE MCCortes ------------------------------
EXTENDS Cortes
=============================================================================
