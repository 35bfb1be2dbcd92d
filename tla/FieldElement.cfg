CONSTANTS
    Prime = 67
    Word = 64
    Limbs = 2
    ShortBits = 3
    Operand <- MCOperand
    Garbage <- MCGarbage

SPECIFICATION Spec

INVARIANTS
    
    ConversionsExact
