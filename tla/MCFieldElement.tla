---------------------------- MODULE MCFieldElement --------------------------
EXTENDS FieldElement

\* The shorts at the edges, plain and in the form of Montgomery, and such longs.
ShortOperands ==
    {[shortVal |-> s, long |-> FALSE, montgomery |-> m,
      longVal |-> IF m THEN (s * Radix) % Prime ELSE 0] : s \in {-4, -1, 0, 3}, m \in BOOLEAN}
LongOperands ==
    {[shortVal |-> 0, long |-> TRUE, montgomery |-> m,
      longVal |-> IF m THEN (n * Radix) % Prime ELSE n] :
        n \in {1, half, half + 1, Prime - nBits, Prime - 3}, m \in BOOLEAN}
MCOperand == ShortOperands \cup LongOperands

MCGarbage == {[shortVal |-> 1, long |-> TRUE, montgomery |-> TRUE, longVal |-> Radix - 1]}

=============================================================================
