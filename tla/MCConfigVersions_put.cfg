\* Three administrators store configurations.
SPECIFICATION Spec
CONSTANTS
    Admin = {a1, a2, a3}
    MaxVersion = 6
SYMMETRY Symmetry
PROPERTIES
    PutsInTurn
    NeverReactivated
