---------------------------- MODULE SharedMemory ----------------------------
(***************************************************************************)
(* Pages of blocks in System V shared memory                               *)
(* (src/game_server/common/shared_memory.cc): SharedMemoryBase objects of  *)
(* several processes, each for one module id, and the segments of the      *)
(* operating system, which outlive a process that crashes.                 *)
(*                                                                         *)
(* A manager's mutex makes its operations exclude each other; NewPage,     *)
(* inside Allocate, takes several system calls, between which other        *)
(* processes run, and so does the destructor.  The status of a block       *)
(* decides nothing here; of its time CleanExpiredData only asks whether it *)
(* is old, which any block may be.                                         *)
(*                                                                         *)
(* Segments are external: IPC_RMID takes a segment's key away, and the     *)
(* segment goes when nobody is attached to it.                             *)
(***************************************************************************)
EXTENDS Integers, Sequences, FiniteSets

CONSTANTS
  Managers,
  Users,       \* holders of blocks
  ModuleOf,    \* module_id_ of a manager
  CountPerPage,
  Stride,      \* pages a module has keys for: 10 in the code
  Projects,    \* keys are numbers modulo this: 255 in the code
  Retries,     \* attempts to create a segment: 3 in the code
  MaxPages, MaxSegments, MaxCrashes,
  None

ASSUME ModuleAssumption == ModuleOf \in [Managers -> Nat]
ASSUME SizeAssumption   == {CountPerPage, Stride, Projects, Retries} \subseteq Nat \ {0}
ASSUME BoundAssumption  == {MaxPages, MaxSegments, MaxCrashes} \subseteq Nat

VARIABLES
  running,   \* managers that exist
  call,      \* what a manager is doing with its mutex held across system calls
  pages,     \* pages_: the segment of each page
  inUse,     \* blocks with in_use set
  used,      \* used_blocks_
  held,      \* the block each user has got
  expired,   \* managers CleanExpiredData has freed a block of
  segments,  \* the system's segments: key (0: taken away), creator, processes attached
  crashed    \* the processes that have crashed, in order

manager == <<running, call, pages>>
blocks  == <<inUse, used, held, expired>>
vars    == <<manager, blocks, segments, crashed>>

Idle == [pc |-> "idle"]

Init ==
  /\ running = Managers
  /\ call = [m \in Managers |-> Idle]
  /\ pages = [m \in Managers |-> <<>>]
  /\ inUse = [m \in Managers |-> {}] /\ used = [m \in Managers |-> 0]
  /\ held = [u \in Users |-> None]
  /\ expired = {}
  /\ segments = <<>>
  /\ crashed = <<>>

\* proj_id, of which ftok makes the key.
Key(m, page) == LET id == (ModuleOf[m] * Stride + page) % Projects IN IF id = 0 THEN 1 ELSE id

Blocks(m)  == 1..(Len(pages[m]) * CountPerPage)
Holders(m) == {u \in Users : held[u] # None /\ held[u][1] = m}
MutexFree(m) == m \in running /\ call[m] = Idle
At(m, pc)  == m \in running /\ call[m].pc = pc
NextKey(m) == Key(m, Len(pages[m]))
Under(k)   == {i \in DOMAIN segments : segments[i].key = k}
Exists(s)  == s.key # 0 \/ s.attached # {}

Unkeyed(I) == [i \in DOMAIN segments |-> IF i \in I THEN [segments[i] EXCEPT !.key = 0] ELSE segments[i]]
Reset(m)   == /\ inUse' = [inUse EXCEPT ![m] = {}] /\ used' = [used EXCEPT ![m] = 0]
              /\ expired' = expired \ {m}

---------------------------------------------------------------------------
(* Allocate *)

Take(m, u, b) ==
  /\ inUse' = [inUse EXCEPT ![m] = @ \cup {b}]
  /\ used' = [used EXCEPT ![m] = @ + 1]
  /\ held' = [held EXCEPT ![u] = <<m, b>>]
  /\ UNCHANGED expired

\* The first block that is not in use.
AllocateBlock(m, u) ==
  /\ MutexFree(m) /\ held[u] = None
  /\ \E b \in Blocks(m) \ inUse[m] : 1..(b - 1) \subseteq inUse[m] /\ Take(m, u, b)
  /\ UNCHANGED <<manager, segments, crashed>>

\* Without one, NewPage, which goes through the steps below.
AllocatePage(m, u) ==
  /\ MutexFree(m) /\ held[u] = None
  /\ Blocks(m) \subseteq inUse[m] /\ Len(pages[m]) < MaxPages
  /\ call' = [call EXCEPT ![m] = [pc |-> "find", user |-> u, tries |-> 0, segment |-> 0]]
  /\ UNCHANGED <<running, pages, blocks, segments, crashed>>

\* After the last attempt Allocate returns nullptr.
Attempt(m) == IF call[m].tries < Retries THEN [call[m] EXCEPT !.pc = "create"] ELSE Idle

\* CreateShareMemory looks for a segment under the key ...
FindOld(m) ==
  /\ At(m, "find")
  /\ call' = [call EXCEPT ![m] = IF Under(NextKey(m)) = {} THEN Attempt(m)
                                 ELSE [@ EXCEPT !.pc = "remove", !.segment = CHOOSE i \in Under(NextKey(m)) : TRUE]]
  /\ UNCHANGED <<running, pages, blocks, segments, crashed>>

\* ... removes it, whose ever it is ...
RemoveOld(m) ==
  /\ At(m, "remove")
  /\ segments' = Unkeyed({call[m].segment})
  /\ call' = [call EXCEPT ![m] = Attempt(m)]
  /\ UNCHANGED <<running, pages, blocks, crashed>>

Created(m, s) == [call EXCEPT ![m].pc = "attach", ![m].segment = s]

\* Variant: shmget without IPC_EXCL, which returns a segment that is there.
CreateOrJoin(m) ==
  /\ At(m, "create")
  /\ IF Under(NextKey(m)) # {}
     THEN call' = Created(m, CHOOSE i \in Under(NextKey(m)) : TRUE) /\ UNCHANGED segments
     ELSE /\ Len(segments) < MaxSegments
          /\ segments' = Append(segments, [key |-> NextKey(m), creator |-> m, attached |-> {}])
          /\ call' = Created(m, Len(segments'))
  /\ UNCHANGED <<running, pages, blocks, crashed>>

\* ... and creates one, which fails while another is under the key.
Create(m) ==
  /\ At(m, "create")
  /\ IF Under(NextKey(m)) # {}
     THEN call' = [call EXCEPT ![m].pc = "find", ![m].tries = @ + 1] /\ UNCHANGED segments
     ELSE /\ Len(segments) < MaxSegments
          /\ segments' = Append(segments, [key |-> NextKey(m), creator |-> m, attached |-> {}])
          /\ call' = Created(m, Len(segments'))
  /\ UNCHANGED <<running, pages, blocks, crashed>>

\* Variant: the first block of the first page is taken.
AttachTakeFirst(m) ==
  LET s == call[m].segment IN
  /\ At(m, "attach")
  /\ IF Exists(segments[s])
     THEN /\ segments' = [segments EXCEPT ![s].attached = @ \cup {m}]
          /\ pages' = [pages EXCEPT ![m] = Append(@, s)]
          /\ Take(m, call[m].user, 1)
     ELSE UNCHANGED <<segments, pages, blocks>>
  /\ call' = [call EXCEPT ![m] = Idle]
  /\ UNCHANGED <<running, crashed>>

\* NewPage attaches to the segment and the first block of the page is taken; a
\* segment that was removed in the meantime is gone, and Allocate returns nullptr.
Attach(m) ==
  LET s == call[m].segment IN
  /\ At(m, "attach")
  /\ IF Exists(segments[s])
     THEN /\ segments' = [segments EXCEPT ![s].attached = @ \cup {m}]
          /\ pages' = [pages EXCEPT ![m] = Append(@, s)]
          /\ Take(m, call[m].user, Len(pages[m]) * CountPerPage + 1)
     ELSE UNCHANGED <<segments, pages, blocks>>
  /\ call' = [call EXCEPT ![m] = Idle]
  /\ UNCHANGED <<running, crashed>>

---------------------------------------------------------------------------
(* Free, CleanExpiredData, the destructor *)

\* Variant: used_blocks_ is counted down whether or not the block is in use.
FreeUnchecked(u) ==
  /\ held[u] # None
  /\ LET m == held[u][1]  b == held[u][2] IN
     /\ MutexFree(m)
     /\ inUse' = [inUse EXCEPT ![m] = @ \ {b}]
     /\ used' = [used EXCEPT ![m] = @ - 1]
  /\ held' = [held EXCEPT ![u] = None]
  /\ UNCHANGED <<manager, expired, segments, crashed>>

\* Nothing tells the block's user from one whose block has expired since.
Free(u) ==
  /\ held[u] # None
  /\ LET m == held[u][1]  b == held[u][2] IN
     /\ MutexFree(m)
     /\ inUse' = [inUse EXCEPT ![m] = @ \ {b}]
     /\ used' = [used EXCEPT ![m] = @ - (IF b \in inUse[m] THEN 1 ELSE 0)]
  /\ held' = [held EXCEPT ![u] = None]
  /\ UNCHANGED <<manager, expired, segments, crashed>>

CleanExpiredData(m) ==
  /\ MutexFree(m)
  /\ \E old \in SUBSET inUse[m] \ {{}} :
       /\ inUse' = [inUse EXCEPT ![m] = @ \ old]
       /\ used' = [used EXCEPT ![m] = @ - Cardinality(old)]
  /\ expired' = expired \cup {m}
  /\ UNCHANGED <<manager, held, segments, crashed>>

\* The destructor runs when nobody holds a block.
Destroy(m) ==
  /\ MutexFree(m) /\ Holders(m) = {}
  /\ call' = [call EXCEPT ![m] = [pc |-> "destroy"]]
  /\ Reset(m)
  /\ UNCHANGED <<running, pages, held, segments, crashed>>

\* Variant: a page is unmapped but its segment not removed.
UnmapPage(m) ==
  /\ At(m, "destroy") /\ pages[m] # <<>>
  /\ segments' = [segments EXCEPT ![Head(pages[m])].attached = @ \ {m}]
  /\ pages' = [pages EXCEPT ![m] = Tail(@)]
  /\ UNCHANGED <<running, call, blocks, crashed>>

\* It unmaps and removes one page after the other.  (The two system calls are one
\* step: a segment between them is about to be removed by who unmapped it.)
DestroyPage(m) ==
  /\ At(m, "destroy") /\ pages[m] # <<>>
  /\ segments' = [segments EXCEPT ![Head(pages[m])].key = 0, ![Head(pages[m])].attached = @ \ {m}]
  /\ pages' = [pages EXCEPT ![m] = Tail(@)]
  /\ UNCHANGED <<running, call, blocks, crashed>>

Destroyed(m) ==
  /\ At(m, "destroy") /\ pages[m] = <<>>
  /\ running' = running \ {m}
  /\ call' = [call EXCEPT ![m] = Idle]
  /\ UNCHANGED <<pages, blocks, segments, crashed>>

---------------------------------------------------------------------------
(* Processes *)

\* The system detaches a process that ends; its segments keep their keys.
Crash(m) ==
  /\ m \in running /\ Len(crashed) < MaxCrashes
  /\ running' = running \ {m}
  /\ call' = [call EXCEPT ![m] = Idle]
  /\ pages' = [pages EXCEPT ![m] = <<>>]
  /\ Reset(m)
  /\ held' = [u \in Users |-> IF u \in Holders(m) THEN None ELSE held[u]]
  /\ segments' = [i \in DOMAIN segments |-> [segments[i] EXCEPT !.attached = @ \ {m}]]
  /\ crashed' = Append(crashed, m)

\* A new manager has no page, whatever segments are there.
Start(m) ==
  /\ m \notin running
  /\ running' = running \cup {m}
  /\ UNCHANGED <<call, pages, blocks, segments, crashed>>

Next ==
  \/ \E m \in Managers, u \in Users : AllocateBlock(m, u) \/ AllocatePage(m, u)
  \/ \E m \in Managers : FindOld(m) \/ RemoveOld(m) \/ Create(m) \/ Attach(m)
  \/ \E u \in Users : Free(u)
  \/ \E m \in Managers : \/ CleanExpiredData(m)
                         \/ Destroy(m) \/ DestroyPage(m) \/ Destroyed(m)
                         \/ Crash(m) \/ Start(m)

Spec == Init /\ [][Next]_vars

---------------------------------------------------------------------------
(* Correctness *)

Calls == {Idle, [pc |-> "destroy"]}
           \cup [pc : {"find", "remove", "create", "attach"}, user : Users, tries : 0..Retries, segment : Nat]

\* Types; and the segment of a call that removes or attaches, and of every
\* page, is one the system has handed out (CreateShareMemory's shmid).
TypeOK ==
  /\ running \in SUBSET Managers
  /\ call \in [Managers -> Calls]
  /\ pages \in [Managers -> Seq(DOMAIN segments)]
  /\ inUse \in [Managers -> SUBSET Nat] /\ used \in [Managers -> Int]
  /\ held \in [Users -> {None} \cup (Managers \X Nat)]
  /\ expired \in SUBSET Managers
  /\ segments \in Seq([key : Nat, creator : Managers, attached : SUBSET Managers])
  /\ crashed \in Seq(Managers)
  /\ \A m \in Managers : call[m].pc \in {"remove", "attach"} => call[m].segment \in DOMAIN segments

\* used_blocks_ counts the blocks in use, through every order of Allocate, Free,
\* CleanExpiredData and the Free of a block that has expired (shared_memory.cc:214-218, :255-272).
UsedExact == \A m \in Managers : used[m] = Cardinality(inUse[m]) /\ inUse[m] \subseteq Blocks(m)

\* A block has one holder, and stays in use while it has one, in a manager that
\* has expired none: the Free of an expired block may be of one that somebody
\* else was given since (shared_memory.cc:196-219).
SoleHolder ==
  \A u \in Users :
    held[u] # None /\ held[u][1] \notin expired
      => held[u][2] \in inUse[held[u][1]] /\ \A v \in Users \ {u} : held[v] # held[u]

\* Every page is mapped, and no two pages, of the same manager or of others, are
\* in the same memory, though managers take each other's keys away while a page
\* is being made or in use and a restarted one meets the segments of its
\* predecessor (CreateShareMemory, shared_memory.cc:303-345; NewPage, :127-137).
OwnPages ==
  \A m \in Managers : \A p \in DOMAIN pages[m] :
    /\ segments[pages[m][p]].attached = {m}
    /\ \A n \in Managers : \A q \in DOMAIN pages[n] : pages[m][p] = pages[n][q] => m = n /\ p = q

\* A segment that nobody maps is about to be mapped, or a crash left it
\* (~SharedMemoryBase, shared_memory.cc:108-119; NewPage, :132-136).
LeftByCrash ==
  \A i \in DOMAIN segments :
    segments[i].key # 0 /\ segments[i].attached = {}
      => \/ \E m \in Managers : At(m, "attach") /\ call[m].segment = i
         \/ \E c \in DOMAIN crashed : crashed[c] = segments[i].creator

=============================================================================
