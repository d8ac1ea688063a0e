------------------------- MODULE SharedMemoryProofs -------------------------
(***************************************************************************)
(* Proofs about SharedMemory: its types, the count of blocks in use, and   *)
(* that every page has a segment of its own, whatever managers take the    *)
(* keys of each other's segments away, crash and start again.              *)
(***************************************************************************)
EXTENDS SharedMemory, FiniteSetTheorems, SequenceTheorems, TLAPS

Segment == [key : Nat, creator : Managers, attached : SUBSET Managers]
InPage  == [pc : {"find", "remove", "create", "attach"}, user : Users, tries : 0..Retries, segment : Nat]

\* A manager creates while it has attempts left, attaches to a segment it has
\* made and nobody is attached to, and is destroyed without a block in use.
CallInv ==
  \A m \in Managers :
    /\ call[m].pc = "create" => call[m].tries < Retries
    /\ call[m].pc = "attach" =>
         segments[call[m].segment].creator = m /\ segments[call[m].segment].attached = {}
    /\ call[m].pc = "destroy" => inUse[m] = {}

\* A manager alone is attached to the segments of its pages, one for each.
OwnInv ==
  \A m \in Managers : \A p \in DOMAIN pages[m] :
    /\ segments[pages[m][p]].attached = {m}
    /\ \A q \in DOMAIN pages[m] : pages[m][p] = pages[m][q] => p = q

IInv == TypeOK /\ CallInv /\ OwnInv /\ UsedExact

\* A call that makes a page has the fields it needs.
LEMMA CallFields ==
  ASSUME TypeOK, NEW m \in Managers
  PROVE  /\ call[m] \in Calls
         /\ call[m].pc \in {"find", "remove", "create", "attach"} => call[m] \in InPage
         /\ call[m] \in InPage => call[m].pc \in {"find", "remove", "create", "attach"}
  BY DEF TypeOK, Calls, Idle, InPage

\* Functions over 1..n are the sequences of length n.
LEMMA FunctionIsSeq ==
  ASSUME NEW S, NEW n \in Nat, NEW f \in [1..n -> S]
  PROVE  f \in Seq(S) /\ Len(f) = n
  OBVIOUS

\* Taking keys away changes neither creators nor processes attached.
LEMMA UnkeyedKeeps ==
  ASSUME segments \in Seq(Segment), NEW I
  PROVE  /\ Unkeyed(I) \in Seq(Segment) /\ Len(Unkeyed(I)) = Len(segments)
         /\ \A i \in DOMAIN segments : /\ Unkeyed(I)[i].creator = segments[i].creator
                                       /\ Unkeyed(I)[i].attached = segments[i].attached
<1>1. DOMAIN segments = 1..Len(segments) /\ Len(segments) \in Nat
  OBVIOUS
<1>2. \A i \in DOMAIN segments : segments[i] \in Segment
  OBVIOUS
<1>3. \A i \in DOMAIN segments : [segments[i] EXCEPT !.key = 0] \in Segment
  BY <1>2 DEF Segment
<1>4. Unkeyed(I) \in [1..Len(segments) -> Segment]
  BY <1>1, <1>2, <1>3 DEF Unkeyed
<1>5. \A i \in DOMAIN segments : /\ Unkeyed(I)[i].creator = segments[i].creator
                                 /\ Unkeyed(I)[i].attached = segments[i].attached
  BY <1>2 DEF Unkeyed, Segment
<1>6. QED
  BY <1>1, <1>4, <1>5, FunctionIsSeq

\* A shorter interval is in a longer one.
LEMMA IntervalGrows == ASSUME NEW a \in Nat, NEW b \in Nat, a <= b PROVE 1..a \subseteq 1..b
  OBVIOUS

\* It holds at the start.
LEMMA InitIInv == Init => IInv
<1> SUFFICES ASSUME Init PROVE IInv
  OBVIOUS
<1>1. call \in [Managers -> Calls] /\ \A m \in Managers : call[m].pc = "idle"
  BY DEF Init, Idle, Calls
<1>2. pages \in [Managers -> Seq(DOMAIN segments)] /\ \A m \in Managers : pages[m] = <<>>
  BY DEF Init
<1>3. TypeOK
  BY <1>1, <1>2 DEF Init, TypeOK
<1>4. CallInv /\ OwnInv
  BY <1>1, <1>2 DEF CallInv, OwnInv
<1>5. UsedExact
  BY FS_EmptySet DEF UsedExact, Init
<1>6. QED
  BY <1>3, <1>4, <1>5 DEF IInv

---------------------------------------------------------------------------
(* Types *)

\* A process that ends is attached to nothing any more.
LEMMA CrashSegments ==
  ASSUME segments \in Seq(Segment), NEW m \in Managers, Crash(m)
  PROVE  /\ segments' \in Seq(Segment) /\ Len(segments') = Len(segments)
         /\ \A i \in DOMAIN segments : /\ segments'[i].creator = segments[i].creator
                                       /\ segments'[i].attached = segments[i].attached \ {m}
<1>1. DOMAIN segments = 1..Len(segments) /\ Len(segments) \in Nat
  OBVIOUS
<1>2. \A i \in DOMAIN segments : segments[i] \in Segment
  OBVIOUS
<1>3. segments' = [i \in DOMAIN segments |-> [segments[i] EXCEPT !.attached = @ \ {m}]]
  BY DEF Crash
<1>4. \A i \in DOMAIN segments : [segments[i] EXCEPT !.attached = @ \ {m}] \in Segment
  BY <1>2 DEF Segment
<1>5. segments' \in [1..Len(segments) -> Segment]
  BY <1>1, <1>3, <1>4
<1>6. \A i \in DOMAIN segments : /\ segments'[i].creator = segments[i].creator
                                 /\ segments'[i].attached = segments[i].attached \ {m}
  BY <1>2, <1>3 DEF Segment
<1>7. QED
  BY <1>1, <1>5, <1>6, FunctionIsSeq

\* A new segment is the last one; the others stay as they are.
LEMMA CreateSegments ==
  ASSUME segments \in Seq(Segment), NEW m \in Managers, NextKey(m) \in Nat,
         segments' = Append(segments, [key |-> NextKey(m), creator |-> m, attached |-> {}])
  PROVE  /\ segments' \in Seq(Segment) /\ Len(segments') = Len(segments) + 1
         /\ \A i \in DOMAIN segments : segments'[i] = segments[i]
         /\ segments'[Len(segments')].creator = m /\ segments'[Len(segments')].attached = {}
<1>1. [key |-> NextKey(m), creator |-> m, attached |-> {}] \in Segment
  BY DEF Segment
<1>2. QED
  BY <1>1, AppendProperties

\* Keys are numbers.
LEMMA KeyIsNat == ASSUME TypeOK, NEW m \in Managers PROVE NextKey(m) \in Nat
<1>1. ModuleOf[m] \in Nat /\ Stride \in Nat /\ Projects \in Nat \ {0} /\ Len(pages[m]) \in Nat
  BY ModuleAssumption, SizeAssumption DEF TypeOK
<1>2. ModuleOf[m] * Stride \in Nat
  BY <1>1
<1>3. (ModuleOf[m] * Stride + Len(pages[m])) % Projects \in Nat
  BY <1>1, <1>2
<1>4. QED
  BY <1>3 DEF NextKey, Key

\* The system's segments keep their numbers; a step changes who is attached to
\* one only for the segment and the manager it is about.
LEMMA SegmentsType ==
  ASSUME IInv, [Next]_vars
  PROVE  segments' \in Seq(Segment) /\ DOMAIN segments \subseteq DOMAIN segments'
<1>1. segments \in Seq(Segment) /\ DOMAIN segments = 1..Len(segments) /\ Len(segments) \in Nat
  BY DEF IInv, TypeOK, Segment
<1>2. ASSUME NEW m \in Managers, RemoveOld(m) PROVE segments' \in Seq(Segment) /\ Len(segments') = Len(segments)
  BY <1>1, <1>2, UnkeyedKeeps DEF RemoveOld
<1>3. ASSUME NEW m \in Managers, Create(m) PROVE segments' \in Seq(Segment) /\ Len(segments') \in {Len(segments), Len(segments) + 1}
  BY <1>1, <1>3, CreateSegments, KeyIsNat DEF Create, IInv
<1>4. ASSUME NEW m \in Managers, Attach(m) PROVE segments' \in Seq(Segment) /\ Len(segments') = Len(segments)
  <2> DEFINE s == call[m].segment
  <2>1. s \in DOMAIN segments
    BY <1>4 DEF Attach, At, IInv, TypeOK
  <2>2. segments[s] \in Segment
    BY <1>1, <2>1
  <2>3. [segments[s] EXCEPT !.attached = @ \cup {m}] \in Segment
    BY <2>2 DEF Segment
  <2>4. segments' = [segments EXCEPT ![s] = [segments[s] EXCEPT !.attached = @ \cup {m}]] \/ segments' = segments
    BY <1>4 DEF Attach
  <2>5. QED
    BY <1>1, <2>1, <2>3, <2>4, ExceptSeq
<1>5. ASSUME NEW m \in Managers, DestroyPage(m) PROVE segments' \in Seq(Segment) /\ Len(segments') = Len(segments)
  <2> DEFINE s == Head(pages[m])
  <2>1. s \in DOMAIN segments
    BY <1>5, HeadTailProperties DEF DestroyPage, IInv, TypeOK
  <2>2. segments[s] \in Segment
    BY <1>1, <2>1
  <2>3. [segments[s] EXCEPT !.key = 0, !.attached = @ \ {m}] \in Segment
    BY <2>2 DEF Segment
  <2>4. segments' = [segments EXCEPT ![s] = [segments[s] EXCEPT !.key = 0, !.attached = @ \ {m}]]
    BY <1>1, <1>5, <2>1, <2>2 DEF DestroyPage, Segment
  <2>5. QED
    BY <1>1, <2>1, <2>3, <2>4, ExceptSeq
<1>6. ASSUME NEW m \in Managers, Crash(m) PROVE segments' \in Seq(Segment) /\ Len(segments') = Len(segments)
  BY <1>1, <1>6, CrashSegments
<1>7. CASE UNCHANGED segments
  BY <1>1, <1>7
<1>8. \/ \E m \in Managers : RemoveOld(m) \/ Create(m) \/ Attach(m) \/ DestroyPage(m) \/ Crash(m)
      \/ UNCHANGED segments
  BY DEF Next, vars, AllocateBlock, AllocatePage, FindOld, Free, CleanExpiredData, Destroy, Destroyed, Start
<1>9. segments' \in Seq(Segment) /\ Len(segments') \in {Len(segments), Len(segments) + 1}
  BY <1>1, <1>2, <1>3, <1>4, <1>5, <1>6, <1>7, <1>8
<1>10. DOMAIN segments' = 1..Len(segments')
  BY <1>9
<1>11. Len(segments) \in Nat /\ Len(segments') \in {Len(segments), Len(segments) + 1}
  BY <1>1, <1>9
<1>12. Len(segments') \in Nat /\ Len(segments) <= Len(segments')
  BY <1>11
<1>13. QED
  BY <1>1, <1>9, <1>10, <1>11, <1>12, IntervalGrows

\* Pages are segments the system has handed out.
LEMMA PagesType ==
  ASSUME IInv, [Next]_vars
  PROVE  pages' \in [Managers -> Seq(DOMAIN segments')]
<1> DEFINE D == DOMAIN segments'
<1>1. pages \in [Managers -> Seq(D)]
  <2>1. \A m \in Managers : pages[m] \in Seq(DOMAIN segments)
    BY DEF IInv, TypeOK
  <2>2. \A m \in Managers : pages[m] \in Seq(D)
    BY <2>1, SegmentsType, SeqMonotonic
  <2>3. QED
    BY <2>2 DEF IInv, TypeOK
<1>2. ASSUME NEW m \in Managers, Attach(m) PROVE pages' \in [Managers -> Seq(D)]
  <2>1. call[m].segment \in D
    BY <1>2, SegmentsType DEF Attach, At, IInv, TypeOK
  <2>2. Append(pages[m], call[m].segment) \in Seq(D)
    BY <1>1, <2>1, AppendProperties
  <2>3. pages' = [pages EXCEPT ![m] = Append(pages[m], call[m].segment)] \/ pages' = pages
    BY <1>2 DEF Attach
  <2> HIDE DEF D
  <2>4. QED
    BY <1>1, <2>2, <2>3
<1>3. ASSUME NEW m \in Managers, DestroyPage(m) PROVE pages' \in [Managers -> Seq(D)]
  <2>1. Tail(pages[m]) \in Seq(D)
    BY <1>1, <1>3, HeadTailProperties DEF DestroyPage
  <2>2. pages' = [pages EXCEPT ![m] = Tail(pages[m])]
    BY <1>3 DEF DestroyPage
  <2> HIDE DEF D
  <2>3. QED
    BY <1>1, <2>1, <2>2
<1>4. ASSUME NEW m \in Managers, Crash(m) PROVE pages' \in [Managers -> Seq(D)]
  <2>1. pages' = [pages EXCEPT ![m] = <<>>] /\ <<>> \in Seq(D)
    BY <1>4 DEF Crash
  <2> HIDE DEF D
  <2>2. QED
    BY <1>1, <2>1
<1>5. CASE UNCHANGED pages
  BY <1>1, <1>5
<1>6. (\E m \in Managers : Attach(m) \/ DestroyPage(m) \/ Crash(m)) \/ UNCHANGED pages
  BY DEF Next, vars, manager, AllocateBlock, AllocatePage, FindOld, RemoveOld, Create, Free, CleanExpiredData,
         Destroy, Destroyed, Start
<1>7. QED
  BY <1>2, <1>3, <1>4, <1>5, <1>6

\* What a call that makes a page becomes, and that a segment it removes or
\* attaches is one the system has handed out.
LEMMA CallType ==
  ASSUME IInv, [Next]_vars
  PROVE  /\ call' \in [Managers -> Calls]
         /\ \A m \in Managers : call'[m].pc \in {"remove", "attach"} => call'[m].segment \in DOMAIN segments'
         /\ \A m \in Managers : call'[m].pc = "create" => call'[m].tries < Retries
<1> DEFINE Good(c) == /\ c \in Calls
                      /\ c.pc \in {"remove", "attach"} => c.segment \in DOMAIN segments'
                      /\ c.pc = "create" => c.tries < Retries
<1>1. call \in [Managers -> Calls] /\ \A m \in Managers : Good(call[m])
  BY SegmentsType DEF IInv, TypeOK, CallInv
<1>2. Good(Idle) /\ Good([pc |-> "destroy"])
  BY DEF Idle, Calls
<1>3. ASSUME NEW m \in Managers, NEW u \in Users, AllocatePage(m, u) PROVE \E c : Good(c) /\ call' = [call EXCEPT ![m] = c]
  <2>1. Good([pc |-> "find", user |-> u, tries |-> 0, segment |-> 0])
    BY SizeAssumption DEF Calls
  <2>2. QED
    BY <1>3, <2>1 DEF AllocatePage
<1>4. ASSUME NEW m \in Managers, call[m] \in InPage PROVE Good(Attempt(m))
  <2>1. Retries \in Nat
    BY SizeAssumption
  <2>2. [call[m] EXCEPT !.pc = "create"] \in InPage
    BY <1>4 DEF InPage
  <2>3. /\ [call[m] EXCEPT !.pc = "create"].tries = call[m].tries
        /\ [call[m] EXCEPT !.pc = "create"].pc = "create"
    BY <1>4 DEF InPage
  <2>4. QED
    BY <1>2, <2>1, <2>2, <2>3 DEF Attempt, Calls, InPage
<1>5. ASSUME NEW m \in Managers, FindOld(m) PROVE \E c : Good(c) /\ call' = [call EXCEPT ![m] = c]
  <2>1. call[m] \in InPage
    BY <1>5, CallFields DEF FindOld, At, IInv
  <2>2. CASE Under(NextKey(m)) = {}
    BY <1>4, <1>5, <2>1, <2>2 DEF FindOld
  <2>3. CASE Under(NextKey(m)) # {}
    <3> DEFINE i == CHOOSE i \in Under(NextKey(m)) : TRUE
    <3>1. i \in DOMAIN segments
      BY <2>3 DEF Under
    <3>2. i \in Nat /\ i \in DOMAIN segments'
      <4>1. segments \in Seq(Segment)
        BY DEF IInv, TypeOK, Segment
      <4>2. \A j \in DOMAIN segments : j \in Nat
        BY <4>1
      <4>3. QED
        BY <3>1, <4>2, SegmentsType
    <3>3. call' = [call EXCEPT ![m] = [call[m] EXCEPT !.pc = "remove", !.segment = i]]
      BY <1>5, <2>3 DEF FindOld
    <3> HIDE DEF i
    <3> DEFINE c == [call[m] EXCEPT !.pc = "remove", !.segment = i]
    <3>4. c \in InPage /\ c.pc = "remove" /\ c.segment = i
      BY <2>1, <3>2 DEF InPage
    <3>5. Good(c)
      BY <3>2, <3>4 DEF Calls, InPage
    <3>6. QED
      BY <3>3, <3>5
  <2>4. QED
    BY <2>2, <2>3
<1>6. ASSUME NEW m \in Managers, RemoveOld(m) PROVE \E c : Good(c) /\ call' = [call EXCEPT ![m] = c]
  <2>1. call[m] \in InPage
    BY <1>6, CallFields DEF RemoveOld, At, IInv
  <2>2. QED
    BY <1>4, <1>6, <2>1 DEF RemoveOld
<1>7. ASSUME NEW m \in Managers, Create(m) PROVE \E c : Good(c) /\ call' = [call EXCEPT ![m] = c]
  <2>1. call[m] \in InPage /\ call[m].tries < Retries /\ Retries \in Nat
    BY <1>7, CallFields, SizeAssumption DEF Create, At, IInv, CallInv
  <2>2. CASE Under(NextKey(m)) # {}
    <3> DEFINE t == call[m].tries + 1
               c == [call[m] EXCEPT !.pc = "find", !.tries = t]
    <3>1. call[m].tries \in 0..Retries
      BY <2>1 DEF InPage
    <3>2. t \in 0..Retries
      BY <2>1, <3>1
    <3>3. call' = [call EXCEPT ![m] = c]
      BY <1>7, <2>2, <1>1 DEF Create
    <3> HIDE DEF t
    <3>4. c \in InPage /\ c.pc = "find"
      BY <2>1, <3>2 DEF InPage
    <3>5. Good(c)
      BY <3>4 DEF Calls, InPage
    <3> HIDE DEF c
    <3>6. QED
      BY <3>3, <3>5
  <2>3. CASE Under(NextKey(m)) = {}
    <3> DEFINE n == Len(segments')
               c == [call[m] EXCEPT !.pc = "attach", !.segment = n]
    <3>1. n \in Nat /\ n \in DOMAIN segments'
      BY <1>7, <2>3, CreateSegments, KeyIsNat DEF Create, IInv, TypeOK, Segment
    <3>2. call' = [call EXCEPT ![m] = c]
      BY <1>7, <2>3, <1>1 DEF Create, Created
    <3> HIDE DEF n
    <3>3. c \in InPage /\ c.pc = "attach" /\ c.segment = n
      BY <2>1, <3>1 DEF InPage
    <3>4. Good(c)
      BY <3>1, <3>3 DEF Calls, InPage
    <3> HIDE DEF c
    <3>5. QED
      BY <3>2, <3>4
  <2>4. QED
    BY <2>2, <2>3
<1>8. ASSUME NEW m \in Managers, Attach(m) \/ Destroy(m) \/ Destroyed(m) \/ Crash(m)
      PROVE \E c : Good(c) /\ call' = [call EXCEPT ![m] = c]
  BY <1>2, <1>8 DEF Attach, Destroy, Destroyed, Crash
<1>9. (\E m \in Managers : \E c : Good(c) /\ call' = [call EXCEPT ![m] = c]) \/ UNCHANGED call
  BY <1>3, <1>5, <1>6, <1>7, <1>8
     DEF Next, vars, manager, AllocateBlock, Free, CleanExpiredData, DestroyPage, Start
<1>10. CASE UNCHANGED call
  BY <1>1, <1>10
<1>11. ASSUME NEW m \in Managers, NEW c, Good(c), call' = [call EXCEPT ![m] = c] PROVE \A n \in Managers : Good(call'[n])
  BY <1>1, <1>11
<1>12. call' \in [Managers -> Calls]
  BY <1>1, <1>9
<1>13. \A m \in Managers : Good(call'[m])
  BY <1>9, <1>10, <1>11, <1>1
<1>14. QED
  BY <1>12, <1>13

\* The number of blocks is a number.
LEMMA BlockCount ==
  ASSUME TypeOK, NEW m \in Managers
  PROVE  Len(pages[m]) \in Nat /\ Len(pages[m]) * CountPerPage \in Nat /\ CountPerPage \in Nat \ {0}
<1>1. Len(pages[m]) \in Nat /\ CountPerPage \in Nat \ {0}
  BY SizeAssumption DEF TypeOK
<1>2. QED
  BY <1>1

---------------------------------------------------------------------------
(* Blocks *)

BlockPairs == {None} \cup (Managers \X Nat)

\* What a step does to the blocks of manager m, and to its pages with it: one
\* is taken, which may be on a new page, ...
Taken(m) ==
  /\ \E b \in Blocks(m)' \ inUse[m] : inUse' = [inUse EXCEPT ![m] = @ \cup {b}]
  /\ used' = [used EXCEPT ![m] = @ + 1]
  /\ UNCHANGED pages \/ \E s : pages' = [pages EXCEPT ![m] = Append(@, s)]

\* ... some are freed, ...
Freed(m) ==
  /\ \E old \in SUBSET inUse[m] : /\ inUse' = [inUse EXCEPT ![m] = @ \ old]
                                  /\ used' = [used EXCEPT ![m] = @ - Cardinality(old)]
  /\ UNCHANGED pages

\* ... none is in use any more, ...
Emptied(m) ==
  /\ inUse' = [inUse EXCEPT ![m] = {}] /\ used' = [used EXCEPT ![m] = 0]
  /\ UNCHANGED pages \/ pages' = [pages EXCEPT ![m] = <<>>]

\* ... or a page without one goes.
Unpaged(m) ==
  /\ inUse[m] = {} /\ UNCHANGED <<inUse, used>>
  /\ pages' = [pages EXCEPT ![m] = Tail(@)]

\* The block after the last page's is the first one of a new page.
LEMMA NewBlock ==
  ASSUME NEW l \in Nat, NEW c \in Nat \ {0}
  PROVE  l * c + 1 \in 1..((l + 1) * c) /\ l * c + 1 \notin 1..(l * c) /\ 1..(l * c) \subseteq 1..((l + 1) * c)
<1>1. l * c \in Nat /\ (l + 1) * c = l * c + c
  OBVIOUS
<1> DEFINE k == l * c
<1>2. k \in Nat /\ (l + 1) * c = k + c
  BY <1>1
<1> HIDE DEF k
<1>3. k + 1 \in 1..(k + c) /\ k + 1 \notin 1..k /\ 1..k \subseteq 1..(k + c)
  BY <1>2
<1>4. QED
  BY <1>2, <1>3 DEF k

\* Every step is one of these for some manager, or leaves blocks and pages alone.
LEMMA BlockSteps ==
  ASSUME IInv, [Next]_vars
  PROVE  \/ \E m \in Managers : Taken(m) \/ Freed(m) \/ Emptied(m) \/ Unpaged(m)
         \/ UNCHANGED <<inUse, used, pages>>
<1>1. ASSUME NEW m \in Managers, NEW u \in Users, AllocateBlock(m, u) PROVE Taken(m)
  <2>1. UNCHANGED pages
    BY <1>1 DEF AllocateBlock, manager
  <2>2. Blocks(m)' = Blocks(m)
    BY <2>1 DEF Blocks
  <2>3. QED
    BY <1>1, <2>1, <2>2 DEF AllocateBlock, Take, Taken
<1>2. ASSUME NEW m \in Managers, Attach(m) PROVE Taken(m) \/ UNCHANGED <<inUse, used, pages>>
  <2> DEFINE s == call[m].segment
             b == Len(pages[m]) * CountPerPage + 1
  <2>1. CASE ~ Exists(segments[s])
    BY <1>2, <2>1 DEF Attach, blocks
  <2>2. CASE Exists(segments[s])
    <3>1. pages' = [pages EXCEPT ![m] = Append(@, s)] /\ Take(m, call[m].user, b)
      BY <1>2, <2>2 DEF Attach
    <3>2. pages'[m] = Append(pages[m], s) /\ pages[m] \in Seq(DOMAIN segments) /\ s \in DOMAIN segments
      BY <1>2, <3>1 DEF Attach, At, IInv, TypeOK
    <3>3. Len(pages'[m]) = Len(pages[m]) + 1
      BY <3>2, AppendProperties
    <3>4. Len(pages[m]) \in Nat /\ CountPerPage \in Nat \ {0}
      BY BlockCount DEF IInv
    <3>5. b \in Blocks(m)' /\ b \notin Blocks(m)
      BY <3>3, <3>4, NewBlock DEF Blocks
    <3>6. b \in Blocks(m)' \ inUse[m]
      BY <3>5 DEF IInv, UsedExact
    <3> HIDE DEF b, s
    <3>7. QED
      BY <3>1, <3>6 DEF Take, Taken
  <2>3. QED
    BY <2>1, <2>2
<1>3. ASSUME NEW u \in Users, Free(u) PROVE \E m \in Managers : Freed(m)
  <2> DEFINE m == held[u][1]
             b == held[u][2]
             old == IF b \in inUse[m] THEN {b} ELSE {}
  <2>1. m \in Managers
    BY <1>3 DEF Free, IInv, TypeOK
  <2>2. inUse' = [inUse EXCEPT ![m] = @ \ {b}] /\ used' = [used EXCEPT ![m] = @ - (IF b \in inUse[m] THEN 1 ELSE 0)]
        /\ UNCHANGED pages
    BY <1>3 DEF Free, manager
  <2> HIDE DEF m, b
  <2>3. Cardinality(old) = IF b \in inUse[m] THEN 1 ELSE 0
    BY FS_EmptySet, FS_Singleton
  <2>4. old \in SUBSET inUse[m] /\ inUse[m] \ {b} = inUse[m] \ old
    OBVIOUS
  <2>5. used' = [used EXCEPT ![m] = @ - Cardinality(old)] /\ inUse' = [inUse EXCEPT ![m] = @ \ old]
    BY <2>2, <2>3, <2>4
  <2>6. QED
    BY <2>1, <2>2, <2>4, <2>5 DEF Freed
<1>4. ASSUME NEW m \in Managers, CleanExpiredData(m) PROVE Freed(m)
  BY <1>4 DEF CleanExpiredData, Freed, manager
<1>5. ASSUME NEW m \in Managers, Destroy(m) \/ Crash(m) PROVE Emptied(m)
  BY <1>5 DEF Destroy, Crash, Reset, Emptied
<1>6. ASSUME NEW m \in Managers, DestroyPage(m) PROVE Unpaged(m)
  BY <1>6 DEF DestroyPage, At, IInv, CallInv, Unpaged, blocks
<1>7. QED
  BY <1>1, <1>2, <1>3, <1>4, <1>5, <1>6
     DEF Next, vars, manager, blocks, AllocatePage, FindOld, RemoveOld, Create, Destroyed, Start

\* The blocks in use are finitely many.
LEMMA InUseFinite ==
  ASSUME IInv, NEW m \in Managers
  PROVE  IsFiniteSet(inUse[m])
<1>1. Len(pages[m]) * CountPerPage \in Nat
  BY BlockCount DEF IInv
<1>2. IsFiniteSet(Blocks(m))
  BY <1>1, FS_Interval DEF Blocks
<1>3. QED
  BY <1>2, FS_Subset DEF IInv, UsedExact

\* The types of the blocks' state.
LEMMA BlockTypes ==
  ASSUME IInv, [Next]_vars
  PROVE  inUse' \in [Managers -> SUBSET Nat] /\ used' \in [Managers -> Int]
<1>1. inUse \in [Managers -> SUBSET Nat] /\ used \in [Managers -> Int]
  BY DEF IInv, TypeOK
<1>2. ASSUME NEW m \in Managers, Taken(m) PROVE inUse' \in [Managers -> SUBSET Nat] /\ used' \in [Managers -> Int]
  <2>1. PICK b \in Blocks(m)' : inUse' = [inUse EXCEPT ![m] = @ \cup {b}]
    BY <1>2 DEF Taken
  <2>2. b \in Nat
    BY <2>1, SMT DEF Blocks
  <2>3. used' = [used EXCEPT ![m] = @ + 1]
    BY <1>2 DEF Taken
  <2>4. QED
    BY <1>1, <2>1, <2>2, <2>3
<1>3. ASSUME NEW m \in Managers, Freed(m) PROVE inUse' \in [Managers -> SUBSET Nat] /\ used' \in [Managers -> Int]
  <2>1. PICK old \in SUBSET inUse[m] : /\ inUse' = [inUse EXCEPT ![m] = @ \ old]
                                       /\ used' = [used EXCEPT ![m] = @ - Cardinality(old)]
    BY <1>3 DEF Freed
  <2>2. Cardinality(old) \in Int
    BY InUseFinite, FS_Subset, FS_CardinalityType
  <2>3. QED
    BY <1>1, <2>1, <2>2
<1>4. ASSUME NEW m \in Managers, Emptied(m) PROVE inUse' \in [Managers -> SUBSET Nat] /\ used' \in [Managers -> Int]
  BY <1>1, <1>4 DEF Emptied
<1>5. ASSUME NEW m \in Managers, Unpaged(m) PROVE inUse' \in [Managers -> SUBSET Nat] /\ used' \in [Managers -> Int]
  BY <1>1, <1>5 DEF Unpaged
<1>6. QED
  BY <1>1, <1>2, <1>3, <1>4, <1>5, BlockSteps

\* The types of what has to do with users and processes.
LEMMA HolderTypes ==
  ASSUME IInv, [Next]_vars
  PROVE  /\ running' \in SUBSET Managers /\ expired' \in SUBSET Managers
         /\ held' \in [Users -> BlockPairs] /\ crashed' \in Seq(Managers)
<1>1. /\ running \in SUBSET Managers /\ expired \in SUBSET Managers
      /\ held \in [Users -> BlockPairs] /\ crashed \in Seq(Managers)
  BY DEF IInv, TypeOK, BlockPairs
<1>2. ASSUME NEW m \in Managers, NEW u \in Users, NEW b \in Nat, Take(m, u, b)
      PROVE held' \in [Users -> BlockPairs] /\ UNCHANGED expired
  BY <1>1, <1>2 DEF Take, BlockPairs
<1>3. ASSUME NEW m \in Managers, NEW u \in Users, AllocateBlock(m, u)
      PROVE held' \in [Users -> BlockPairs] /\ UNCHANGED <<running, expired, crashed>>
  <2>1. PICK b \in Blocks(m) : Take(m, u, b)
    BY <1>3 DEF AllocateBlock
  <2>2. b \in Nat
    BY <2>1, SMT DEF Blocks
  <2>3. QED
    BY <1>2, <1>3, <2>1, <2>2 DEF AllocateBlock, manager
<1>4. ASSUME NEW m \in Managers, Attach(m)
      PROVE held' \in [Users -> BlockPairs] /\ UNCHANGED <<running, expired, crashed>>
  <2>1. call[m].user \in Users
    BY <1>4, CallFields DEF Attach, At, InPage, IInv
  <2>2. Len(pages[m]) * CountPerPage + 1 \in Nat
    BY BlockCount DEF IInv
  <2>3. Take(m, call[m].user, Len(pages[m]) * CountPerPage + 1) \/ UNCHANGED blocks
    BY <1>4 DEF Attach
  <2>4. QED
    BY <1>1, <1>2, <1>4, <2>1, <2>2, <2>3 DEF Attach, blocks
<1>5. ASSUME NEW u \in Users, Free(u)
      PROVE held' \in [Users -> BlockPairs] /\ UNCHANGED <<running, expired, crashed>>
  BY <1>1, <1>5 DEF Free, manager, BlockPairs
<1>6. ASSUME NEW m \in Managers, CleanExpiredData(m) \/ Destroy(m) \/ Destroyed(m) \/ Start(m)
      PROVE held' = held /\ expired' \in SUBSET Managers /\ running' \in SUBSET Managers /\ crashed' = crashed
  BY <1>1, <1>6 DEF CleanExpiredData, Destroy, Destroyed, Start, Reset, manager, blocks
<1>7. ASSUME NEW m \in Managers, Crash(m)
      PROVE /\ running' \in SUBSET Managers /\ expired' \in SUBSET Managers
            /\ held' \in [Users -> BlockPairs] /\ crashed' \in Seq(Managers)
  BY <1>1, <1>7, AppendProperties DEF Crash, Reset, BlockPairs
<1>8. \/ \E m \in Managers : \/ \E u \in Users : AllocateBlock(m, u)
                             \/ Attach(m) \/ Crash(m)
                             \/ CleanExpiredData(m) \/ Destroy(m) \/ Destroyed(m) \/ Start(m)
      \/ \E u \in Users : Free(u)
      \/ UNCHANGED <<running, held, expired, crashed>>
  BY DEF Next, vars, manager, blocks, AllocatePage, FindOld, RemoveOld, Create, DestroyPage
<1>9. QED
  BY <1>1, <1>3, <1>4, <1>5, <1>6, <1>7, <1>8

\* The type invariant is kept.
LEMMA TypesKept == IInv /\ [Next]_vars => TypeOK'
  BY SegmentsType, PagesType, CallType, BlockTypes, HolderTypes DEF TypeOK, BlockPairs, Segment

---------------------------------------------------------------------------
(* UsedExact *)

\* The count of blocks in use is exact after each kind of step.
LEMMA UsedKept ==
  ASSUME IInv, [Next]_vars, NEW n \in Managers
  PROVE  used'[n] = Cardinality(inUse'[n]) /\ inUse'[n] \subseteq Blocks(n)'
<1>1. /\ inUse \in [Managers -> SUBSET Nat] /\ used \in [Managers -> Int]
      /\ pages \in [Managers -> Seq(DOMAIN segments)]
      /\ used[n] = Cardinality(inUse[n]) /\ inUse[n] \subseteq Blocks(n) /\ IsFiniteSet(inUse[n])
  BY InUseFinite DEF IInv, TypeOK, UsedExact
<1>2. CASE UNCHANGED <<inUse[n], used[n], pages[n]>>
  BY <1>1, <1>2 DEF Blocks
<1>3. CASE Taken(n)
  <2>1. PICK b \in Blocks(n)' \ inUse[n] : inUse' = [inUse EXCEPT ![n] = @ \cup {b}]
    BY <1>3 DEF Taken
  <2>2. inUse'[n] = inUse[n] \cup {b} /\ used'[n] = used[n] + 1
    BY <1>1, <1>3, <2>1 DEF Taken
  <2>3. Cardinality(inUse[n] \cup {b}) = Cardinality(inUse[n]) + 1
    BY <1>1, <2>1, FS_AddElement
  <2>4. Blocks(n) \subseteq Blocks(n)'
    <3>1. CASE UNCHANGED pages
      BY <3>1 DEF Blocks
    <3>2. ASSUME NEW s, pages' = [pages EXCEPT ![n] = Append(@, s)] PROVE Blocks(n) \subseteq Blocks(n)'
      <4>1. Len(pages'[n]) = Len(pages[n]) + 1
        <5>1. pages[n] \in Seq(DOMAIN segments \cup {s})
          BY <1>1, SeqMonotonic
        <5>2. pages'[n] = Append(pages[n], s)
          BY <1>1, <3>2
        <5>3. QED
          BY <5>1, <5>2, AppendProperties
      <4>2. Len(pages[n]) \in Nat /\ CountPerPage \in Nat \ {0}
        BY BlockCount DEF IInv
      <4>3. QED
        BY <4>1, <4>2, NewBlock DEF Blocks
    <3>3. QED
      BY <1>3, <3>1, <3>2 DEF Taken
  <2>5. QED
    BY <1>1, <2>1, <2>2, <2>3, <2>4
<1>4. CASE Freed(n)
  <2>1. PICK old \in SUBSET inUse[n] : /\ inUse' = [inUse EXCEPT ![n] = @ \ old]
                                       /\ used' = [used EXCEPT ![n] = @ - Cardinality(old)]
    BY <1>4 DEF Freed
  <2>2. inUse'[n] = inUse[n] \ old /\ used'[n] = used[n] - Cardinality(old)
    BY <1>1, <2>1
  <2>3. Cardinality(inUse[n] \ old) = Cardinality(inUse[n]) - Cardinality(inUse[n] \cap old)
    BY <1>1, FS_Difference
  <2>4. inUse[n] \cap old = old
    OBVIOUS
  <2>5. Blocks(n)' = Blocks(n)
    BY <1>4 DEF Freed, Blocks
  <2>6. QED
    BY <1>1, <2>2, <2>3, <2>4, <2>5
<1>5. CASE Emptied(n)
  BY <1>1, <1>5, FS_EmptySet DEF Emptied
<1>6. CASE Unpaged(n)
  BY <1>1, <1>6 DEF Unpaged
<1>7. ASSUME NEW m \in Managers, m # n, Taken(m) \/ Freed(m) \/ Emptied(m) \/ Unpaged(m)
      PROVE UNCHANGED <<inUse[n], used[n], pages[n]>>
  BY <1>1, <1>7 DEF Taken, Freed, Emptied, Unpaged
<1>8. QED
  BY <1>2, <1>3, <1>4, <1>5, <1>6, <1>7, BlockSteps

---------------------------------------------------------------------------
(* OwnPages *)

\* A segment with a page of manager m, and no segment has two.
OwnPage(m, p) ==
  /\ segments[pages[m][p]].attached = {m}
  /\ \A q \in DOMAIN pages[m] : pages[m][p] = pages[m][q] => p = q

\* Segments and pages, at hand.
LEMMA SegmentFacts ==
  ASSUME IInv
  PROVE  /\ segments \in Seq(Segment) /\ \A i \in DOMAIN segments : segments[i] \in Segment
         /\ \A m \in Managers : /\ pages[m] \in Seq(DOMAIN segments)
                                /\ \A p \in DOMAIN pages[m] : /\ pages[m][p] \in DOMAIN segments
                                                              /\ OwnPage(m, p)
<1>1. segments \in Seq(Segment)
  BY DEF IInv, TypeOK, Segment
<1>2. \A i \in DOMAIN segments : segments[i] \in Segment
  BY <1>1
<1>3. \A m \in Managers : pages[m] \in Seq(DOMAIN segments)
  BY DEF IInv, TypeOK
<1>4. \A m \in Managers : \A p \in DOMAIN pages[m] : pages[m][p] \in DOMAIN segments
  BY <1>3
<1>5. \A m \in Managers : \A p \in DOMAIN pages[m] : OwnPage(m, p)
  BY DEF IInv, OwnInv, OwnPage
<1>6. QED
  BY <1>1, <1>2, <1>3, <1>4, <1>5

\* A step that neither changes pages nor who is attached to a page's segment keeps OwnInv.
LEMMA OwnUnchanged ==
  ASSUME IInv, UNCHANGED pages,
         \A i \in DOMAIN segments : segments'[i].attached = segments[i].attached
  PROVE  OwnInv'
<1>1. \A m \in Managers : \A p \in DOMAIN pages[m] : pages[m][p] \in DOMAIN segments
  BY DEF IInv, TypeOK
<1>2. QED
  BY <1>1 DEF IInv, OwnInv

\* A new page's segment was nobody's, and so is not one of the other pages.
LEMMA OwnAttach ==
  ASSUME IInv, NEW m \in Managers, Attach(m)
  PROVE  OwnInv'
<1> DEFINE s == call[m].segment
<1>1. s \in DOMAIN segments /\ segments[s].attached = {}
  BY DEF Attach, At, IInv, TypeOK, CallInv
<1>2. CASE ~ Exists(segments[s])
  BY <1>2, OwnUnchanged DEF Attach
<1>3. CASE Exists(segments[s])
  <2>1. /\ segments' = [segments EXCEPT ![s].attached = @ \cup {m}]
        /\ pages' = [pages EXCEPT ![m] = Append(@, s)]
    BY <1>3 DEF Attach
  <2>2. segments \in Seq(Segment) /\ segments[s] \in Segment
    BY <1>1, SegmentFacts
  <2>3. segments'[s].attached = {m} /\ \A i \in DOMAIN segments \ {s} : segments'[i] = segments[i]
    BY <1>1, <2>1, <2>2 DEF Segment
  <2>4. \A n \in Managers : \A p \in DOMAIN pages[n] : pages[n][p] \in DOMAIN segments \ {s}
    <3>1. \A n \in Managers : \A p \in DOMAIN pages[n] : pages[n][p] \in DOMAIN segments /\ segments[pages[n][p]].attached = {n}
      BY SegmentFacts DEF OwnPage
    <3>2. segments[s].attached = {}
      BY <1>1
    <3>3. QED
      BY <3>1, <3>2
  <2>5. ASSUME NEW n \in Managers, n # m PROVE \A p \in DOMAIN pages'[n] : OwnPage(n, p)'
    <3>1. pages'[n] = pages[n]
      BY <2>1, <2>5 DEF IInv, TypeOK
    <3>2. QED
      BY <2>3, <2>4, <3>1 DEF OwnPage, IInv, OwnInv
  <2>6. \A p \in DOMAIN pages'[m] : OwnPage(m, p)'
    <3>1. pages[m] \in Seq(DOMAIN segments) /\ pages'[m] = Append(pages[m], s)
      BY <2>1 DEF IInv, TypeOK
    <3> DEFINE l == Len(pages[m])
    <3>2. /\ l \in Nat /\ DOMAIN pages[m] = 1..l /\ DOMAIN pages'[m] = 1..(l + 1)
          /\ \A p \in 1..l : pages'[m][p] = pages[m][p]
          /\ pages'[m][l + 1] = s
      BY <1>1, <3>1, AppendProperties
    <3> HIDE DEF l
    <3>3. \A p \in 1..(l + 1) : p \in 1..l \/ p = l + 1
      BY <3>2
    <3>4. \A p \in DOMAIN pages[m] : /\ segments[pages[m][p]].attached = {m}
                                     /\ \A q \in DOMAIN pages[m] : pages[m][p] = pages[m][q] => p = q
      BY DEF IInv, OwnInv
    <3> HIDE DEF s
    <3>5. \A p \in 1..l : pages'[m][p] # s /\ segments'[pages'[m][p]].attached = {m}
      BY <2>3, <2>4, <3>2, <3>4
    <3>6. \A p \in DOMAIN pages'[m] : segments'[pages'[m][p]].attached = {m}
      BY <2>3, <3>2, <3>3, <3>5
    <3>7. ASSUME NEW p \in 1..(l + 1), NEW q \in 1..(l + 1), pages'[m][p] = pages'[m][q] PROVE p = q
      BY <3>2, <3>3, <3>4, <3>5, <3>7
    <3>8. QED
      BY <3>2, <3>6, <3>7 DEF OwnPage
  <2>7. QED
    BY <2>5, <2>6 DEF OwnInv, OwnPage
<1>4. QED
  BY <1>2, <1>3

\* The page that goes is the only one of its segment.
LEMMA OwnDestroy ==
  ASSUME IInv, NEW m \in Managers, DestroyPage(m)
  PROVE  OwnInv'
<1> DEFINE s == Head(pages[m])
<1>1. pages[m] \in Seq(DOMAIN segments) /\ pages[m] # <<>> /\ s = pages[m][1] /\ s \in DOMAIN segments
  BY HeadTailProperties DEF DestroyPage, IInv, TypeOK
<1>2. segments \in Seq(Segment) /\ segments[s] \in Segment
  BY <1>1, SegmentFacts
<1>3. \A i \in DOMAIN segments \ {s} : segments'[i] = segments[i]
  BY <1>1, <1>2 DEF DestroyPage
<1>4. pages' = [pages EXCEPT ![m] = Tail(pages[m])]
  BY DEF DestroyPage
<1> HIDE DEF s
<1>5. ASSUME NEW n \in Managers, n # m PROVE \A p \in DOMAIN pages'[n] : OwnPage(n, p)'
  <2>1. pages'[n] = pages[n] /\ pages[n] \in Seq(DOMAIN segments)
    BY <1>4, <1>5 DEF IInv, TypeOK
  <2>2. segments[s].attached = {m}
    BY <1>1 DEF IInv, OwnInv
  <2>3. \A p \in DOMAIN pages[n] : pages[n][p] \in DOMAIN segments \ {s}
    BY <1>5, <2>1, <2>2 DEF IInv, OwnInv
  <2>4. QED
    BY <1>3, <2>1, <2>3 DEF OwnPage, IInv, OwnInv
<1>6. \A p \in DOMAIN pages'[m] : OwnPage(m, p)'
  <2> DEFINE l == Len(pages[m])
  <2>1. pages'[m] = Tail(pages[m])
    BY <1>4 DEF IInv, TypeOK
  <2>2. l \in Nat /\ DOMAIN pages[m] = 1..l /\ l # 0
    BY <1>1
  <2>3. DOMAIN pages'[m] = 1..(l - 1) /\ \A p \in 1..(l - 1) : pages'[m][p] = pages[m][p + 1]
    BY <1>1, <2>1
  <2> HIDE DEF l
  <2>4. \A p \in 1..(l - 1) : p + 1 \in DOMAIN pages[m] /\ p + 1 # 1 /\ 1 \in DOMAIN pages[m]
    BY <2>2
  <2>5. \A p \in DOMAIN pages[m] : pages[m][p] \in DOMAIN segments /\ OwnPage(m, p)
    BY SegmentFacts
  <2>7. ASSUME NEW p \in 1..(l - 1) PROVE pages'[m][p] \in DOMAIN segments \ {s} /\ segments[pages'[m][p]].attached = {m}
    <3>1. p + 1 \in DOMAIN pages[m] /\ p + 1 # 1 /\ 1 \in DOMAIN pages[m]
      BY <2>4
    <3>2. pages'[m][p] = pages[m][p + 1]
      BY <2>3
    <3> DEFINE k == p + 1
    <3>3. k \in DOMAIN pages[m] /\ k # 1 /\ 1 \in DOMAIN pages[m] /\ pages'[m][p] = pages[m][k]
      BY <3>1, <3>2
    <3> HIDE DEF k
    <3>4. QED
      BY <1>1, <2>5, <3>3 DEF OwnPage
  <2>8. ASSUME NEW p \in 1..(l - 1), NEW q \in 1..(l - 1), pages'[m][p] = pages'[m][q] PROVE p = q
    <3> DEFINE k == p + 1
               j == q + 1
    <3>1. k \in DOMAIN pages[m] /\ j \in DOMAIN pages[m]
      BY <2>4
    <3>2. pages[m][k] = pages[m][j]
      BY <2>3, <2>8
    <3> HIDE DEF k, j
    <3>3. k = j
      BY <2>5, <3>1, <3>2 DEF OwnPage
    <3>4. QED
      BY <3>3 DEF k, j
  <2>9. QED
    BY <1>3, <2>3, <2>7, <2>8 DEF OwnPage
<1>7. QED
  BY <1>5, <1>6 DEF OwnInv, OwnPage

\* The pages stay their manager's own.
LEMMA OwnKept == IInv /\ [Next]_vars => OwnInv'
<1> SUFFICES ASSUME IInv, [Next]_vars PROVE OwnInv'
  OBVIOUS
<1>1. ASSUME NEW m \in Managers, RemoveOld(m) PROVE OwnInv'
  BY <1>1, SegmentFacts, UnkeyedKeeps, OwnUnchanged DEF RemoveOld
<1>2. ASSUME NEW m \in Managers, Create(m) PROVE OwnInv'
  <2>1. UNCHANGED pages
    BY <1>2 DEF Create
  <2>2. \A i \in DOMAIN segments : segments'[i] = segments[i]
    BY <1>2, SegmentFacts, CreateSegments, KeyIsNat DEF Create, IInv
  <2>3. QED
    BY <2>1, <2>2, OwnUnchanged
<1>3. ASSUME NEW m \in Managers, Crash(m) PROVE OwnInv'
  <2>1. pages' = [pages EXCEPT ![m] = <<>>]
    BY <1>3 DEF Crash
  <2>2. pages'[m] = <<>> /\ \A n \in Managers \ {m} : pages'[n] = pages[n]
    BY <2>1 DEF IInv, TypeOK
  <2>3. \A i \in DOMAIN segments : segments'[i].attached = segments[i].attached \ {m}
    BY <1>3, SegmentFacts, CrashSegments
  <2>4. ASSUME NEW n \in Managers \ {m} PROVE \A p \in DOMAIN pages'[n] : OwnPage(n, p)'
    <3>1. pages'[n] = pages[n]
      BY <2>2
    <3>2. \A p \in DOMAIN pages[n] : pages[n][p] \in DOMAIN segments /\ OwnPage(n, p)
      BY SegmentFacts
    <3>3. \A p \in DOMAIN pages[n] : segments'[pages[n][p]].attached = {n}
      BY <2>3, <3>2 DEF OwnPage
    <3>4. QED
      BY <3>1, <3>2, <3>3 DEF OwnPage
  <2>5. \A p \in DOMAIN pages'[m] : OwnPage(m, p)'
    BY <2>2
  <2>6. QED
    BY <2>4, <2>5 DEF OwnInv, OwnPage
<1>4. CASE UNCHANGED <<pages, segments>>
  BY <1>4, OwnUnchanged
<1>5. \/ \E m \in Managers : RemoveOld(m) \/ Create(m) \/ Attach(m) \/ DestroyPage(m) \/ Crash(m)
      \/ UNCHANGED <<pages, segments>>
  BY DEF Next, vars, manager, AllocateBlock, AllocatePage, FindOld, Free, CleanExpiredData, Destroy, Destroyed, Start
<1>6. QED
  BY <1>1, <1>2, <1>3, <1>4, <1>5, OwnAttach, OwnDestroy

---------------------------------------------------------------------------
(* The calls *)

\* Nobody but a manager that is making a page of it attaches to a segment, and
\* its creator does not change.
LEMMA SegmentSteps ==
  ASSUME IInv, [Next]_vars, NEW i \in DOMAIN segments
  PROVE  /\ segments'[i].creator = segments[i].creator
         /\ segments[i].attached = {} => \/ segments'[i].attached = {}
                                         \/ \E m \in Managers : Attach(m) /\ call[m].segment = i
<1>1. segments \in Seq(Segment) /\ segments[i] \in Segment
  BY SegmentFacts
<1>2. ASSUME NEW m \in Managers, RemoveOld(m)
      PROVE segments'[i].creator = segments[i].creator /\ segments'[i].attached = segments[i].attached
  BY <1>1, <1>2, UnkeyedKeeps DEF RemoveOld
<1>3. ASSUME NEW m \in Managers, Create(m) PROVE segments'[i] = segments[i]
  BY <1>1, <1>3, CreateSegments, KeyIsNat DEF Create, IInv
<1>4. ASSUME NEW m \in Managers, Attach(m)
      PROVE segments'[i].creator = segments[i].creator /\ (segments'[i] = segments[i] \/ call[m].segment = i)
  BY <1>1, <1>4 DEF Attach, Segment
<1>5. ASSUME NEW m \in Managers, DestroyPage(m)
      PROVE /\ segments'[i].creator = segments[i].creator
            /\ segments'[i].attached \in {segments[i].attached, segments[i].attached \ {m}}
  BY <1>1, <1>5 DEF DestroyPage, Segment
<1>6. ASSUME NEW m \in Managers, Crash(m)
      PROVE segments'[i].creator = segments[i].creator /\ segments'[i].attached = segments[i].attached \ {m}
  BY <1>1, <1>6, CrashSegments
<1>7. \/ \E m \in Managers : RemoveOld(m) \/ Create(m) \/ Attach(m) \/ DestroyPage(m) \/ Crash(m)
      \/ UNCHANGED segments
  BY DEF Next, vars, AllocateBlock, AllocatePage, FindOld, Free, CleanExpiredData, Destroy, Destroyed, Start
<1>8. QED
  BY <1>2, <1>3, <1>4, <1>5, <1>6, <1>7

\* A call comes to attach from create, with the segment it has made, and to
\* destroy by Destroy, after which no block is in use.
LEMMA CallSteps ==
  ASSUME IInv, [Next]_vars, NEW n \in Managers
  PROVE  /\ call'[n].pc = "attach" =>
              \/ call'[n] = call[n] /\ ~ Attach(n)
              \/ segments'[call'[n].segment].creator = n /\ segments'[call'[n].segment].attached = {}
         /\ call'[n].pc = "destroy" => inUse'[n] = {}
<1>1. call \in [Managers -> Calls] /\ inUse \in [Managers -> SUBSET Nat]
  BY DEF IInv, TypeOK
<1>2. Idle.pc = "idle"
  BY DEF Idle
<1>3. Attach(n) => call'[n].pc = "idle"
  BY <1>1, <1>2 DEF Attach
<1>4. call[n] \in InPage => Attempt(n).pc \in {"create", "idle"}
  BY <1>2 DEF Attempt, InPage
<1>5. CASE call'[n] = call[n] /\ inUse'[n] = inUse[n]
  BY <1>3, <1>5 DEF IInv, CallInv
<1>6. CASE call[n] = Idle /\ call'[n] = call[n]
  BY <1>2, <1>6
<1>7. ASSUME NEW u \in Users, AllocatePage(n, u) PROVE call'[n].pc = "find"
  BY <1>1, <1>7 DEF AllocatePage
<1>8. CASE FindOld(n) \/ RemoveOld(n)
  <2>1. call[n] \in InPage
    BY <1>8, CallFields DEF FindOld, RemoveOld, At, IInv
  <2>2. call'[n] = Attempt(n) \/ \E i : call'[n] = [call[n] EXCEPT !.pc = "remove", !.segment = i]
    BY <1>1, <1>8 DEF FindOld, RemoveOld
  <2>3. call'[n].pc \in {"create", "idle", "remove"}
    BY <1>4, <2>1, <2>2 DEF InPage
  <2>4. QED
    BY <2>3
<1>9. CASE Create(n)
  <2>1. call[n] \in InPage
    BY <1>9, CallFields DEF Create, At, IInv
  <2>2. CASE Under(NextKey(n)) # {}
    <3>1. \E i : call'[n] = [call[n] EXCEPT !.pc = "find", !.tries = i]
      BY <1>1, <1>9, <2>2 DEF Create
    <3>2. call'[n].pc = "find"
      BY <2>1, <3>1 DEF InPage
    <3>3. QED
      BY <3>2
  <2>3. CASE Under(NextKey(n)) = {}
    <3>1. call'[n] = [call[n] EXCEPT !.pc = "attach", !.segment = Len(segments')]
      BY <1>1, <1>9, <2>3 DEF Create, Created
    <3>2. call'[n].pc = "attach" /\ call'[n].segment = Len(segments')
      BY <2>1, <3>1 DEF InPage
    <3>3. segments'[Len(segments')].creator = n /\ segments'[Len(segments')].attached = {}
      BY <1>9, <2>3, SegmentFacts, CreateSegments, KeyIsNat DEF Create, IInv
    <3>4. QED
      BY <3>2, <3>3
  <2>4. QED
    BY <2>2, <2>3
<1>10. CASE Attach(n) \/ Destroyed(n) \/ Crash(n)
  BY <1>1, <1>2, <1>10 DEF Attach, Destroyed, Crash
<1>11. CASE Destroy(n)
  BY <1>1, <1>11 DEF Destroy, Reset
<1>12. ASSUME NEW u \in Users, AllocateBlock(n, u) PROVE call[n] = Idle /\ call'[n] = call[n]
  BY <1>12 DEF AllocateBlock, MutexFree, manager
<1>13. ASSUME NEW u \in Users, Free(u)
       PROVE \/ call[n] = Idle /\ call'[n] = call[n]
             \/ call'[n] = call[n] /\ inUse'[n] = inUse[n]
  BY <1>1, <1>13 DEF Free, MutexFree, manager
<1>14. CASE CleanExpiredData(n)
  BY <1>6, <1>14 DEF CleanExpiredData, MutexFree, manager
<1>15. CASE DestroyPage(n) \/ Start(n)
  BY <1>5, <1>15 DEF DestroyPage, Start, blocks
<1>16. ASSUME NEW m \in Managers, m # n, NEW u \in Users, AllocateBlock(m, u) \/ AllocatePage(m, u)
       PROVE call'[n] = call[n] /\ inUse'[n] = inUse[n]
  BY <1>1, <1>16 DEF AllocateBlock, AllocatePage, Take, manager, blocks
<1>17. ASSUME NEW m \in Managers, m # n, FindOld(m) \/ RemoveOld(m) \/ Create(m) \/ Attach(m)
       PROVE call'[n] = call[n] /\ inUse'[n] = inUse[n]
  BY <1>1, <1>17 DEF FindOld, RemoveOld, Create, Created, Attach, Take, blocks
<1>18. ASSUME NEW m \in Managers, m # n, \/ CleanExpiredData(m)
                                         \/ Destroy(m) \/ DestroyPage(m) \/ Destroyed(m) \/ Crash(m) \/ Start(m)
       PROVE call'[n] = call[n] /\ inUse'[n] = inUse[n]
  BY <1>1, <1>18 DEF CleanExpiredData, Destroy, DestroyPage, Destroyed, Crash, Start, Reset, manager, blocks
<1>19. CASE UNCHANGED vars
  BY <1>5, <1>19 DEF vars, manager, blocks
<1>20. CASE Next
  BY <1>5, <1>6, <1>7, <1>8, <1>9, <1>10, <1>11, <1>12, <1>13, <1>14, <1>15, <1>16, <1>17, <1>18, <1>20 DEF Next
<1>21. QED
  BY <1>19, <1>20

\* What holds of calls is kept: another manager that attaches, attaches to a
\* segment of its own making.
LEMMA CallKept == IInv /\ [Next]_vars => CallInv'
<1> SUFFICES ASSUME IInv, [Next]_vars, NEW n \in Managers
             PROVE  /\ call'[n].pc = "create" => call'[n].tries < Retries
                    /\ call'[n].pc = "attach" => /\ segments'[call'[n].segment].creator = n
                                                 /\ segments'[call'[n].segment].attached = {}
                    /\ call'[n].pc = "destroy" => inUse'[n] = {}
  BY DEF CallInv
<1>1. ASSUME call'[n].pc = "attach", call'[n] = call[n], ~ Attach(n)
      PROVE segments'[call'[n].segment].creator = n /\ segments'[call'[n].segment].attached = {}
  <2> DEFINE s == call[n].segment
  <2>1. s \in DOMAIN segments /\ segments[s].creator = n /\ segments[s].attached = {}
    BY <1>1 DEF IInv, TypeOK, CallInv
  <2>2. \A m \in Managers : Attach(m) => segments[call[m].segment].creator = m
    BY DEF Attach, At, IInv, CallInv
  <2>3. \A m \in Managers : Attach(m) => call[m].segment # s
    BY <1>1, <2>1, <2>2
  <2>4. QED
    BY <1>1, <2>1, <2>3, SegmentSteps
<1>2. QED
  BY <1>1, CallType, CallSteps

---------------------------------------------------------------------------
(* SoleHolder *)

\* A user that takes a block nobody has in use is its only holder.
LEMMA SoleTake ==
  ASSUME IInv, SoleHolder, NEW m \in Managers, NEW u \in Users, NEW b \in Nat \ inUse[m], Take(m, u, b)
  PROVE  SoleHolder'
<1>1. /\ held' = [held EXCEPT ![u] = <<m, b>>] /\ inUse' = [inUse EXCEPT ![m] = @ \cup {b}]
      /\ expired' = expired
  BY DEF Take
<1>2. held \in [Users -> BlockPairs] /\ inUse \in [Managers -> SUBSET Nat]
  BY DEF IInv, TypeOK, BlockPairs
<1>3. ASSUME NEW v \in Users, held'[v] # None, held'[v][1] \notin expired'
      PROVE held'[v][2] \in inUse'[held'[v][1]]
  BY <1>1, <1>2, <1>3 DEF SoleHolder, BlockPairs
<1>4. \A v \in Users \ {u} : held'[v] = held[v]
  BY <1>1, <1>2
<1>5. m \notin expired => \A v \in Users \ {u} : held[v] # <<m, b>> \/ held[v] = None
  BY DEF SoleHolder
<1>6. held'[u] = <<m, b>>
  BY <1>1, <1>2
<1>7. ASSUME NEW v \in Users, NEW w \in Users \ {v}, held'[v] # None, held'[v][1] \notin expired',
             held'[w] = held'[v]
      PROVE FALSE
  <2>1. CASE v # u /\ w # u
    BY <1>1, <1>4, <1>7, <2>1 DEF SoleHolder
  <2>2. CASE v = u \/ w = u
    BY <1>1, <1>4, <1>5, <1>6, <1>7, <2>2
  <2>3. QED
    BY <2>1, <2>2
<1>8. QED
  BY <1>3, <1>7 DEF SoleHolder

\* A block has one holder at a time, in a manager that has expired none.
LEMMA SoleKept == IInv /\ SoleHolder /\ [Next]_vars => SoleHolder'
<1> SUFFICES ASSUME IInv, SoleHolder, [Next]_vars PROVE SoleHolder'
  OBVIOUS
<1>1. held \in [Users -> BlockPairs] /\ inUse \in [Managers -> SUBSET Nat]
  BY DEF IInv, TypeOK, BlockPairs
<1>2. ASSUME NEW m \in Managers, NEW u \in Users, AllocateBlock(m, u) PROVE SoleHolder'
  <2>1. PICK b \in Blocks(m) \ inUse[m] : Take(m, u, b)
    BY <1>2 DEF AllocateBlock
  <2>2. b \in Nat \ inUse[m]
    BY <2>1, SMT DEF Blocks
  <2>3. QED
    BY <2>1, <2>2, SoleTake
<1>3. ASSUME NEW m \in Managers, Attach(m) PROVE SoleHolder'
  <2> DEFINE b == Len(pages[m]) * CountPerPage + 1
  <2>1. call[m].user \in Users
    BY <1>3, CallFields DEF Attach, At, InPage, IInv
  <2>2. b \in Nat /\ b \notin Blocks(m)
    BY BlockCount, NewBlock DEF IInv, Blocks
  <2>3. b \notin inUse[m]
    BY <2>2 DEF IInv, UsedExact
  <2>4. Take(m, call[m].user, b) \/ UNCHANGED blocks
    BY <1>3 DEF Attach
  <2> HIDE DEF b
  <2>5. QED
    BY <2>1, <2>2, <2>3, <2>4, SoleTake DEF blocks, SoleHolder
<1>4. ASSUME NEW u \in Users, Free(u) PROVE SoleHolder'
  <2> DEFINE m == held[u][1]
             b == held[u][2]
  <2>1. /\ m \in Managers /\ held[u] # None /\ held[u] = <<m, b>>
        /\ inUse' = [inUse EXCEPT ![m] = @ \ {b}] /\ held' = [held EXCEPT ![u] = None]
        /\ expired' = expired
    BY <1>1, <1>4 DEF Free, BlockPairs
  <2>2. held'[u] = None /\ \A v \in Users \ {u} : held'[v] = held[v]
    BY <1>1, <2>1
  <2>3. ASSUME NEW v \in Users, held'[v] # None, held'[v][1] \notin expired' PROVE held'[v][2] \in inUse'[held'[v][1]]
    <3>1. v # u /\ held'[v] = held[v] /\ held[v] \in Managers \X Nat
      BY <1>1, <2>2, <2>3 DEF BlockPairs
    <3>2. held[v][2] \in inUse[held[v][1]] /\ held[u] # held[v]
      BY <2>1, <2>3, <3>1 DEF SoleHolder
    <3>3. held[v][1] # m \/ held[v][2] # b
      BY <2>1, <3>1, <3>2
    <3> HIDE DEF m, b
    <3>4. QED
      BY <1>1, <2>1, <3>1, <3>2, <3>3
  <2>4. QED
    BY <2>1, <2>2, <2>3 DEF SoleHolder
<1>5. ASSUME NEW m \in Managers, CleanExpiredData(m) PROVE SoleHolder'
  <2>1. held' = held /\ expired' = expired \cup {m} /\ \A n \in Managers \ {m} : inUse'[n] = inUse[n]
    BY <1>1, <1>5 DEF CleanExpiredData
  <2>2. QED
    BY <1>1, <2>1 DEF SoleHolder, BlockPairs
<1>6. ASSUME NEW m \in Managers, Reset(m), \A u \in Users : held'[u] = None \/ (u \notin Holders(m) /\ held'[u] = held[u])
      PROVE SoleHolder'
  <2>1. expired' = expired \ {m} /\ \A n \in Managers \ {m} : inUse'[n] = inUse[n]
    BY <1>1, <1>6 DEF Reset
  <2>2. \A u \in Users : held'[u] # None => held'[u] = held[u] /\ held[u][1] \in Managers \ {m}
    BY <1>1, <1>6 DEF Holders, BlockPairs
  <2>3. QED
    BY <2>1, <2>2 DEF SoleHolder
<1>7. ASSUME NEW m \in Managers, Destroy(m) PROVE SoleHolder'
  BY <1>6, <1>7 DEF Destroy
<1>8. ASSUME NEW m \in Managers, Crash(m) PROVE SoleHolder'
  <2>1. held' = [u \in Users |-> IF u \in Holders(m) THEN None ELSE held[u]] /\ Reset(m)
    BY <1>8 DEF Crash
  <2>2. \A u \in Users : held'[u] = None \/ (u \notin Holders(m) /\ held'[u] = held[u])
    BY <2>1
  <2>3. QED
    BY <1>6, <2>1, <2>2
<1>9. CASE UNCHANGED blocks
  BY <1>9 DEF SoleHolder, blocks
<1>10. QED
  BY <1>2, <1>3, <1>4, <1>5, <1>7, <1>8, <1>9
     DEF Next, vars, AllocatePage, FindOld, RemoveOld, Create, DestroyPage, Destroyed, Start

---------------------------------------------------------------------------
(* LeftByCrash *)

\* A segment is mapped by its creator or by nobody.
AttachedInv == \A i \in DOMAIN segments : segments[i].attached \subseteq {segments[i].creator}

\* What a step does to a segment.
LEMMA SegmentChanges ==
  ASSUME IInv, [Next]_vars, NEW i \in DOMAIN segments
  PROVE  /\ i \in DOMAIN segments' /\ segments'[i].creator = segments[i].creator
         /\ segments'[i].key \in {segments[i].key, 0}
         /\ \/ segments'[i].attached = segments[i].attached
            \/ \E m \in Managers : /\ Attach(m) /\ call[m].segment = i
                                   /\ segments'[i].attached = segments[i].attached \cup {m}
            \/ \E m \in Managers : /\ segments'[i].attached = segments[i].attached \ {m}
                                   /\ Crash(m) \/ segments'[i].key = 0
<1>1. segments \in Seq(Segment) /\ segments[i] \in Segment /\ DOMAIN segments = 1..Len(segments)
  BY SegmentFacts
<1>2. ASSUME NEW m \in Managers, RemoveOld(m)
      PROVE /\ segments'[i].creator = segments[i].creator /\ segments'[i].attached = segments[i].attached
            /\ segments'[i].key \in {segments[i].key, 0}
  <2>1. segments' = Unkeyed({call[m].segment})
    BY <1>2 DEF RemoveOld
  <2>2. segments'[i].key \in {segments[i].key, 0}
    BY <1>1, <2>1 DEF Unkeyed, Segment
  <2>3. QED
    BY <1>1, <2>1, <2>2, UnkeyedKeeps
<1>3. ASSUME NEW m \in Managers, Create(m) PROVE segments'[i] = segments[i]
  BY <1>1, <1>3, CreateSegments, KeyIsNat DEF Create, IInv
<1>4. ASSUME NEW m \in Managers, Attach(m)
      PROVE /\ segments'[i].creator = segments[i].creator /\ segments'[i].key = segments[i].key
            /\ \/ segments'[i].attached = segments[i].attached
               \/ call[m].segment = i /\ segments'[i].attached = segments[i].attached \cup {m}
  BY <1>1, <1>4 DEF Attach, Segment
<1>5. ASSUME NEW m \in Managers, DestroyPage(m)
      PROVE /\ segments'[i].creator = segments[i].creator
            /\ \/ segments'[i] = segments[i]
               \/ segments'[i].key = 0 /\ segments'[i].attached = segments[i].attached \ {m}
  BY <1>1, <1>5 DEF DestroyPage, Segment
<1>6. ASSUME NEW m \in Managers, Crash(m)
      PROVE /\ segments'[i].creator = segments[i].creator /\ segments'[i].key = segments[i].key
            /\ segments'[i].attached = segments[i].attached \ {m}
  <2>1. segments'[i] = [segments[i] EXCEPT !.attached = @ \ {m}]
    BY <1>6 DEF Crash
  <2>2. QED
    BY <1>1, <2>1 DEF Segment
<1>7. \/ \E m \in Managers : RemoveOld(m) \/ Create(m) \/ Attach(m) \/ DestroyPage(m) \/ Crash(m)
      \/ UNCHANGED segments
  BY DEF Next, vars, AllocateBlock, AllocatePage, FindOld, Free, CleanExpiredData, Destroy, Destroyed, Start
<1>8. i \in DOMAIN segments'
  BY SegmentsType
<1>9. QED
  BY <1>2, <1>3, <1>4, <1>5, <1>6, <1>7, <1>8

\* A segment that is new has been made by a manager that will attach to it.
LEMMA SegmentNew ==
  ASSUME IInv, [Next]_vars, NEW i \in DOMAIN segments', i \notin DOMAIN segments
  PROVE  /\ segments'[i].attached = {}
         /\ \E m \in Managers : At(m, "attach")' /\ call'[m].segment = i
<1>1. segments \in Seq(Segment) /\ DOMAIN segments = 1..Len(segments)
  BY SegmentFacts
<1>2. ASSUME NEW m \in Managers, Attach(m) \/ DestroyPage(m) PROVE DOMAIN segments' = DOMAIN segments
  BY <1>1, <1>2 DEF Attach, DestroyPage
<1>3. ASSUME NEW m \in Managers, RemoveOld(m) \/ Crash(m) PROVE DOMAIN segments' = DOMAIN segments
  BY <1>3 DEF RemoveOld, Unkeyed, Crash
<1>4. PICK m \in Managers : Create(m)
  BY <1>2, <1>3 DEF Next, vars, AllocateBlock, AllocatePage, FindOld, Free, CleanExpiredData, Destroy,
                    Destroyed, Start
<1>5. Under(NextKey(m)) = {}
  BY <1>4 DEF Create
<1>6. segments' = Append(segments, [key |-> NextKey(m), creator |-> m, attached |-> {}])
  BY <1>4, <1>5 DEF Create
<1>7. /\ Len(segments') = Len(segments) + 1 /\ DOMAIN segments' = 1..Len(segments')
      /\ segments'[Len(segments')].attached = {}
  BY <1>1, <1>6, CreateSegments, KeyIsNat DEF IInv
<1>8. i = Len(segments')
  BY <1>1, <1>7
<1>9. call[m] \in InPage /\ m \in running /\ call \in [Managers -> Calls]
  BY <1>4, CallFields DEF Create, At, IInv, TypeOK
<1>10. call'[m] = [call[m] EXCEPT !.pc = "attach", !.segment = Len(segments')] /\ running' = running
  BY <1>4, <1>5, <1>9 DEF Create, Created
<1>11. call'[m].pc = "attach" /\ call'[m].segment = Len(segments')
  BY <1>9, <1>10 DEF InPage
<1>12. QED
  BY <1>7, <1>8, <1>9, <1>10, <1>11 DEF At

\* Only who makes a segment maps it.
LEMMA AttachedKept == IInv /\ AttachedInv /\ [Next]_vars => AttachedInv'
<1> SUFFICES ASSUME IInv, AttachedInv, [Next]_vars, NEW i \in DOMAIN segments'
             PROVE  segments'[i].attached \subseteq {segments'[i].creator}
  BY DEF AttachedInv
<1>1. CASE i \notin DOMAIN segments
  BY <1>1, SegmentNew
<1>2. CASE i \in DOMAIN segments
  <2>1. \A m \in Managers : Attach(m) /\ call[m].segment = i => segments[i].creator = m
    BY DEF Attach, At, IInv, CallInv
  <2>2. QED
    BY <1>2, <2>1, SegmentChanges DEF AttachedInv
<1>3. QED
  BY <1>1, <1>2

\* A manager that is about to attach does so, or crashes.
LEMMA AttachStays ==
  ASSUME IInv, [Next]_vars, NEW m \in Managers, At(m, "attach"), ~ Attach(m), ~ Crash(m)
  PROVE  At(m, "attach")' /\ call'[m] = call[m]
<1>1. call \in [Managers -> Calls] /\ m \in running /\ call[m].pc = "attach" /\ call[m] # Idle
  BY DEF At, IInv, TypeOK, Idle
<1>2. ASSUME NEW n \in Managers, NEW u \in Users, AllocateBlock(n, u) \/ AllocatePage(n, u)
      PROVE call'[m] = call[m] /\ running' = running
  BY <1>1, <1>2 DEF AllocateBlock, AllocatePage, MutexFree, manager
<1>3. ASSUME NEW n \in Managers, FindOld(n) \/ RemoveOld(n) \/ Create(n) PROVE call'[m] = call[m] /\ running' = running
  <2>1. n # m
    BY <1>1, <1>3 DEF FindOld, RemoveOld, Create, At
  <2>2. QED
    BY <1>1, <1>3, <2>1 DEF FindOld, RemoveOld, Create, Created
<1>4. ASSUME NEW n \in Managers \ {m}, Attach(n) \/ Crash(n) PROVE call'[m] = call[m] /\ m \in running'
  BY <1>1, <1>4 DEF Attach, Crash
<1>5. ASSUME NEW n \in Managers, Destroy(n) \/ DestroyPage(n) \/ Destroyed(n) PROVE call'[m] = call[m] /\ m \in running'
  BY <1>1, <1>5 DEF Destroy, DestroyPage, Destroyed, MutexFree, At
<1>6. QED
  BY <1>1, <1>2, <1>3, <1>4, <1>5 DEF At, Next, vars, manager, Free, CleanExpiredData, Start

\* A crash stays on record.
LEMMA CrashedStays ==
  ASSUME IInv, [Next]_vars
  PROVE  /\ \A c \in DOMAIN crashed : c \in DOMAIN crashed' /\ crashed'[c] = crashed[c]
         /\ \A m \in Managers : Crash(m) => \E c \in DOMAIN crashed' : crashed'[c] = m
<1>1. crashed \in Seq(Managers)
  BY DEF IInv, TypeOK
<1>2. ASSUME NEW m \in Managers, Crash(m)
      PROVE /\ \A c \in DOMAIN crashed : c \in DOMAIN crashed' /\ crashed'[c] = crashed[c]
            /\ \E c \in DOMAIN crashed' : crashed'[c] = m
  <2>1. crashed' = Append(crashed, m)
    BY <1>2 DEF Crash
  <2>2. /\ Len(crashed') = Len(crashed) + 1 /\ crashed' \in Seq(Managers) /\ crashed'[Len(crashed) + 1] = m
        /\ \A c \in 1..Len(crashed) : crashed'[c] = crashed[c]
    BY <1>1, <2>1, AppendProperties
  <2>3. QED
    BY <1>1, <2>2
<1>3. (\E m \in Managers : Crash(m)) \/ UNCHANGED crashed
  BY DEF Next, vars, AllocateBlock, AllocatePage, FindOld, RemoveOld, Create, Attach, Free, CleanExpiredData,
         Destroy, DestroyPage, Destroyed, Start
<1>4. QED
  BY <1>2, <1>3

\* Only a crash leaves behind a segment nobody maps nor is about to map.
LEMMA LeftKept == IInv /\ AttachedInv /\ LeftByCrash /\ [Next]_vars => LeftByCrash'
<1> SUFFICES ASSUME IInv, AttachedInv, LeftByCrash, [Next]_vars,
                    NEW i \in DOMAIN segments', segments'[i].key # 0, segments'[i].attached = {}
             PROVE  \/ \E m \in Managers : At(m, "attach")' /\ call'[m].segment = i
                    \/ \E c \in DOMAIN crashed' : crashed'[c] = segments'[i].creator
  BY DEF LeftByCrash, At
<1>1. CASE i \notin DOMAIN segments
  BY <1>1, SegmentNew
<1>2. CASE i \in DOMAIN segments
  <2>1. segments'[i].creator = segments[i].creator /\ segments[i].key # 0
    BY <1>2, SegmentChanges
  <2>2. segments[i].attached = {} \/ \E m \in Managers : Crash(m) /\ segments[i].attached = {m}
    BY <1>2, SegmentChanges
  <2>3. ASSUME NEW m \in Managers, Crash(m), segments[i].attached = {m}
        PROVE \E c \in DOMAIN crashed' : crashed'[c] = segments'[i].creator
    BY <1>2, <2>1, <2>3, CrashedStays DEF AttachedInv
  <2>4. ASSUME NEW c \in DOMAIN crashed, crashed[c] = segments[i].creator
        PROVE \E d \in DOMAIN crashed' : crashed'[d] = segments'[i].creator
    BY <2>1, <2>4, CrashedStays
  <2>5. ASSUME NEW m \in Managers, At(m, "attach"), call[m].segment = i
        PROVE \/ At(m, "attach")' /\ call'[m].segment = i
              \/ \E c \in DOMAIN crashed' : crashed'[c] = segments'[i].creator
    <3>1. segments[i].creator = m /\ segments[i] \in Segment
      BY <1>2, <2>5, SegmentFacts DEF At, IInv, CallInv
    <3>2. CASE Crash(m)
      BY <2>1, <3>1, <3>2, CrashedStays
    <3>3. CASE Attach(m)
      <4>1. segments' = [segments EXCEPT ![i].attached = @ \cup {m}]
        BY <2>1, <2>5, <3>3 DEF Attach, Exists
      <4>2. segments'[i].attached = segments[i].attached \cup {m}
        BY <1>2, <3>1, <4>1 DEF Segment
      <4>3. QED
        BY <4>2
    <3>4. QED
      BY <2>5, <3>2, <3>3, AttachStays
  <2>6. CASE segments[i].attached = {}
    BY <1>2, <2>1, <2>4, <2>5, <2>6 DEF LeftByCrash
  <2>7. QED
    BY <2>2, <2>3, <2>6
<1>3. QED
  BY <1>1, <1>2

---------------------------------------------------------------------------
(* The theorems *)

\* All of it is inductive.
LEMMA InductiveInvariant == Spec => []IInv
<1>1. IInv /\ [Next]_vars => IInv'
  <2> SUFFICES ASSUME IInv, [Next]_vars PROVE IInv'
    OBVIOUS
  <2>1. UsedExact'
    BY UsedKept DEF UsedExact
  <2>2. QED
    BY <2>1, TypesKept, CallKept, OwnKept DEF IInv
<1>2. QED
  BY InitIInv, <1>1, PTL DEF Spec

\* The variables keep their types, and every page and every call that removes
\* or attaches has a segment the system has handed out (CreateShareMemory's shmid).
THEOREM Types == Spec => []TypeOK
<1>1. IInv => TypeOK
  BY DEF IInv
<1>2. QED
  BY InductiveInvariant, <1>1, PTL

\* used_blocks_ is the number of blocks in use, which are blocks of the pages
\* there are: in Allocate, Free and CleanExpiredData, on new pages and after crashes.
THEOREM UsedIsExact == Spec => []UsedExact
<1>1. IInv => UsedExact
  BY DEF IInv
<1>2. QED
  BY InductiveInvariant, <1>1, PTL

\* No two pages, of one manager or of several, are in the same memory, and each
\* is mapped, with any number of managers, keys that collide and crashes.
THEOREM PagesAreOwn == Spec => []OwnPages
<1>1. ASSUME IInv PROVE OwnPages
  <2>1. \A m \in Managers : \A p \in DOMAIN pages[m] : OwnPage(m, p)
    BY <1>1, SegmentFacts
  <2>2. ASSUME NEW m \in Managers, NEW p \in DOMAIN pages[m], NEW n \in Managers, NEW q \in DOMAIN pages[n],
               pages[m][p] = pages[n][q]
        PROVE m = n /\ p = q
    BY <2>1, <2>2 DEF OwnPage
  <2>3. QED
    BY <2>1, <2>2 DEF OwnPages, OwnPage
<1>2. QED
  BY InductiveInvariant, <1>1, PTL

\* A block has one holder, and is in use as long as it has one, in a manager that
\* has expired none (Allocate, Free): with any number of users, through
\* allocations that make a page, the destructor and crashes.
THEOREM HoldersAreSole == Spec => []SoleHolder
<1>1. Init => SoleHolder
  BY DEF Init, SoleHolder
<1>2. QED
  BY InductiveInvariant, SoleKept, <1>1, PTL DEF Spec

\* The destructor removes the segments of all its pages: what nobody maps and the system
\* has under a key is about to be mapped, or of a process that crashed.
THEOREM OnlyCrashesLeave == Spec => []LeftByCrash
<1>1. Init => AttachedInv /\ LeftByCrash
  BY DEF Init, AttachedInv, LeftByCrash
<1>2. QED
  BY InductiveInvariant, AttachedKept, LeftKept, <1>1, PTL DEF Spec
=============================================================================
