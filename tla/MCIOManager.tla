---------------------------- MODULE MCIOManager ----------------------------
EXTENDS IOManager, TLC

CONSTANTS r, w, x, k

\* A reader and a writer of one descriptor, alone or with a reader of a second one.
PairFd    == r :> 50 @@ w :> 50
PairEvent == r :> "READ" @@ w :> "WRITE"
ThreeFd    == x :> 32 @@ PairFd
ThreeEvent == x :> "READ" @@ PairEvent

\* One reader alone.
LoneFd    == r :> 50
LoneEvent == r :> "READ"

\* A task that closes a descriptor others read and write, and a second descriptor.
CloseFd    == k :> 50 @@ ThreeFd
CloseEvent == k :> "READ" @@ ThreeEvent

Symmetry == Permutations(Workers)
=============================================================================
