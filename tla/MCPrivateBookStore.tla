-------------------------- MODULE MCPrivateBookStore --------------------------
\* PrivateBookStore on two stores of one book.
EXTENDS PrivateBookStore

CONSTANTS s1, s2, b1

MCBook == [s \in Stores |-> b1]
==============================================================================
