-------------------------------- MODULE MCLss --------------------------------
EXTENDS LssCommissioning

CONSTANTS n1, n2, n3

\* The addresses within one bit of all zeros or all ones: nodes that part at any
\* bit of any value, the first and the last included.
Ones(identity) == {place \in Sub \X Bit : identity[place[1]][place[2]] = 1}
MCAddresses ==
    {identity \in LssAddress :
        LET n == Cardinality(Ones(identity)) IN n <= 1 \/ n >= W * (LastSub + 1) - 1}
=============================================================================
