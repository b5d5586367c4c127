--------------------------- MODULE MC_StoreValidate ---------------------------
EXTENDS StoreValidate

CONSTANTS s1, p1, o1, g1

MC_InitQuads == {[s |-> s1, p |-> p1, o |-> o1, g |-> g1],
                 [s |-> s1, p |-> p1, o |-> o1, g |-> DefaultGraph]}
=============================================================================
