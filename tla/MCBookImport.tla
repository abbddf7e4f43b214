----------------------------- MODULE MCBookImport -----------------------------
EXTENDS BookImport, TLC

CONSTANTS i1, i2, c1, txt, epub

===============================================================================
