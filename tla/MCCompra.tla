------------------------------ MODULE MCCompra ------------------------------
EXTENDS Compra, TLC

Pestanas == Permutations(Pestana)
=============================================================================
