CONSTANT Designs <- MCDesigns
SPECIFICATION Spec
INVARIANTS TypeOK NeverStuck
PROPERTY ComesRound
