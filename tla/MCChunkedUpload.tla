--------------------------- MODULE MCChunkedUpload ---------------------------
EXTENDS ChunkedUpload, TLC

\* Every object has the same content: all requests meet on one lock.
OneContent == [o \in Object |-> CHOOSE h \in Hash : TRUE]

Symmetric == Permutations(Request \ Library) \cup Permutations(Media) \cup Permutations(Object)
=============================================================================
