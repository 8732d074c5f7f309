-------------------------- MODULE MCCircuitBreaker --------------------------
EXTENDS CircuitBreaker
CONSTANTS c1, c2, c3, c4
=============================================================================
