---------------------------- MODULE MCReaderLayout ----------------------------
EXTENDS ReaderLayout, TLC
===============================================================================
