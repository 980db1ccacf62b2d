----------------------- MODULE MCFunctionTraceHistory -----------------------
EXTENDS FunctionTraceHistory, TLC

\* Threads are interchangeable: no action and no property names one.
Symmetry == Permutations(Threads)

=============================================================================
