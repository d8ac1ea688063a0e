------------------------ MODULE MCAsyncSocketStream ------------------------
EXTENDS AsyncSocketStream, TLC

\* Requests and session ids are interchangeable.
Symmetry == Permutations(Requests) \cup Permutations(Sessions)
============================================================================
