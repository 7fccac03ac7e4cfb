----------------------------- MODULE MemoryFabric -----------------------------
(***************************************************************************)
(* The memory fabric (mesh/memory/fabric.py): reservations of RAM spread     *)
(* over nodes, made by calls of the REST API that run in parallel threads    *)
(* and share two dictionaries without a lock.  Sizes are whole gigabytes,    *)
(* min_segment_gb is 1.                                                      *)
(***************************************************************************)
EXTENDS Naturals, FiniteSets, FiniteSetsExt, Functions

CONSTANTS
    MemNode,
    MemCall,        \* API calls of allocate, with a release later on
    MaxFree,        \* bound: gigabytes that a node reports free
    MaxSize,        \* bound: gigabytes asked for
    MaxReports      \* bound: reports of another free size, or a node's death

ASSUME SizeAssumption ==
    /\ MaxFree \in Nat /\ MaxSize \in Nat \ {0} /\ MaxReports \in Nat
    /\ IsFiniteSet(MemNode) /\ IsFiniteSet(MemCall)

VARIABLES
    reported,   \* ram_gb_free of the HEALTHY nodes; the others are not in it
    reserved,   \* _reserved
    allocations,    \* _allocations: per call, the segments of what it got
    memCall,    \* a thread: pc, size, free memory it saw, segments, todo, value
    crossed,    \* history: two calls were under way at once
    memReports

mfVars == <<reported, reserved, allocations, memCall, crossed, memReports>>

Nothing == [n \in {} |-> 0]
NoCall == [pc |-> "none", size |-> 0, seen |-> Nothing, segs |-> Nothing,
           todo |-> {}, at |-> "none", value |-> 0]
Total(f) == SumFunction(f)
Minus(m, n) == m - n
Less(m, n) == IF m > n THEN m - n ELSE 0    \* max(0, m - n)
FreeOn(n) == Less(reported[n], reserved[n])
UnderWay(c) == memCall[c].pc \notin {"none", "got", "refused", "released"}
Crossing(c) == crossed \/ \E b \in MemCall \ {c} : UnderWay(b)

MfInit ==
    /\ reported \in [MemNode -> 0..MaxFree]
    /\ reserved = [n \in MemNode |-> 0]
    /\ allocations = [c \in {} |-> Nothing]
    /\ memCall = [c \in MemCall |-> NoCall]
    /\ crossed = FALSE /\ memReports = MaxReports
-----------------------------------------------------------------------------
(* allocate.  The free sizes are looked up once, node by node; a call that
   crosses others may see some of their reservations and miss others, which
   one look at all of them shows as well. *)
Ask(c, size) ==
    /\ memCall[c] = NoCall
    /\ LET seen == [n \in {m \in DOMAIN reported : FreeOn(m) >= 1} |-> FreeOn(n)]
       IN  memCall' = [memCall EXCEPT ![c] =
             IF Total(seen) < size
             THEN [NoCall EXCEPT !.pc = "refused", !.size = size, !.seen = seen]
             ELSE [NoCall EXCEPT !.pc = "take", !.size = size, !.seen = seen]]
    /\ crossed' = Crossing(c)
    /\ UNCHANGED <<reported, reserved, allocations, memReports>>

(* The largest of what is left first; equal ones in the order of the table. *)
AnyFirst(c) == DOMAIN memCall[c].seen \ DOMAIN memCall[c].segs
LargestFirst(c) ==
    LET left == DOMAIN memCall[c].seen \ DOMAIN memCall[c].segs
    IN  {n \in left : \A m \in left : memCall[c].seen[n] >= memCall[c].seen[m]}
Remaining(c) == Less(memCall[c].size, Total(memCall[c].segs))
Take(c, n) ==
    LET r == Remaining(c)
        size == IF memCall[c].seen[n] < r THEN memCall[c].seen[n] ELSE r
    IN  /\ memCall[c].pc = "take" /\ r > 0 /\ n \in LargestFirst(c)
        /\ memCall' = [memCall EXCEPT
             ![c].segs = [m \in DOMAIN @ \cup {n} |-> IF m = n THEN size ELSE @[m]],
             ![c].pc = "add", ![c].at = n, ![c].value = reserved[n] + size]
        /\ crossed' = Crossing(c)
        /\ UNCHANGED <<reported, reserved, allocations, memReports>>

(* `self._reserved[n] = ...` was read before, and is written now. *)
Add(c) ==
    /\ memCall[c].pc = "add"
    /\ reserved' = [reserved EXCEPT ![memCall[c].at] = memCall[c].value]
    /\ memCall' = [memCall EXCEPT ![c].pc = "take", ![c].at = "none", ![c].value = 0]
    /\ crossed' = Crossing(c)
    /\ UNCHANGED <<reported, allocations, memReports>>

Allocated(c) ==
    /\ memCall[c].pc = "take" /\ Remaining(c) = 0
    /\ allocations' = [b \in DOMAIN allocations \cup {c} |->
                         IF b = c THEN memCall[c].segs ELSE allocations[b]]
    /\ memCall' = [memCall EXCEPT ![c].pc = "got"]
    /\ crossed' = Crossing(c)
    /\ UNCHANGED <<reported, reserved, memReports>>
-----------------------------------------------------------------------------
(* release, of an allocation that still is one; twice at once, the second
   finds nothing. *)
Release(c) ==
    /\ memCall[c].pc = "got" /\ c \in DOMAIN allocations
    /\ allocations' = [b \in DOMAIN allocations \ {c} |-> allocations[b]]
    /\ memCall' = [memCall EXCEPT ![c].pc = "free", ![c].todo = DOMAIN allocations[c]]
    /\ crossed' = Crossing(c)
    /\ UNCHANGED <<reported, reserved, memReports>>

FreedAll(c, n) == 0
Freed(c, n) == Less(reserved[n], memCall[c].segs[n])
ReadReserved(c, n) ==
    /\ memCall[c].pc = "free" /\ n \in memCall[c].todo
    /\ memCall' = [memCall EXCEPT ![c].pc = "subtract", ![c].at = n,
                                  ![c].todo = @ \ {n}, ![c].value = Freed(c, n)]
    /\ crossed' = Crossing(c)
    /\ UNCHANGED <<reported, reserved, allocations, memReports>>

Subtract(c) ==
    /\ memCall[c].pc = "subtract"
    /\ reserved' = [reserved EXCEPT ![memCall[c].at] = memCall[c].value]
    /\ memCall' = [memCall EXCEPT ![c].pc = "free", ![c].at = "none", ![c].value = 0]
    /\ crossed' = Crossing(c)
    /\ UNCHANGED <<reported, allocations, memReports>>

Released(c) ==
    /\ memCall[c].pc = "free" /\ memCall[c].todo = {}
    /\ memCall' = [memCall EXCEPT ![c].pc = "released"]
    /\ crossed' = Crossing(c)
    /\ UNCHANGED <<reported, reserved, allocations, memReports>>

(* An agent reports another size, dies, or is back: nobody tells the fabric. *)
NodeChanges(n) ==
    /\ memReports > 0 /\ memReports' = memReports - 1
    /\ \/ \E k \in 0..MaxFree : reported' =
             [m \in DOMAIN reported \cup {n} |-> IF m = n THEN k ELSE reported[m]]
       \/ reported' = [m \in DOMAIN reported \ {n} |-> reported[m]]
    /\ UNCHANGED <<reserved, allocations, memCall, crossed>>

MfNext ==
    \/ \E c \in MemCall :
         \/ \E size \in 1..MaxSize : Ask(c, size)
         \/ \E n \in MemNode : Take(c, n) \/ ReadReserved(c, n)
         \/ Add(c) \/ Allocated(c) \/ Release(c) \/ Subtract(c) \/ Released(c)
    \/ \E n \in MemNode : NodeChanges(n)

MfSpec == MfInit /\ [][MfNext]_mfVars
-----------------------------------------------------------------------------
IsSizes(f) == DOMAIN f \subseteq MemNode /\ \A n \in DOMAIN f : f[n] \in Nat

(* Every variable stays in its type. *)
MfTypeOK ==
    /\ IsSizes(reported) /\ reserved \in [MemNode -> Nat]
    /\ DOMAIN allocations \subseteq MemCall
    /\ \A c \in DOMAIN allocations : IsSizes(allocations[c])
    /\ \A c \in MemCall :
         /\ memCall[c].pc \in {"none", "take", "add", "got", "refused", "free",
                               "subtract", "released"}
         /\ memCall[c].size \in 0..MaxSize /\ IsSizes(memCall[c].seen)
         /\ IsSizes(memCall[c].segs) /\ memCall[c].todo \subseteq MemNode
         /\ memCall[c].at \in MemNode \cup {"none"} /\ memCall[c].value \in Nat
    /\ crossed \in BOOLEAN /\ memReports \in Nat

(* What is reserved on a node is the sum of the segments there, whenever no
   call is under way: nothing leaks and nothing is freed twice, although a
   release stops at zero; only calls that crossed may have lost an update. *)
BooksBalance ==
    ~crossed /\ (\A c \in MemCall : ~UnderWay(c)) =>
        \A n \in MemNode : reserved[n] =
            MapThenSumSet(LAMBDA c : allocations[c][n],
                          {c \in DOMAIN allocations : n \in DOMAIN allocations[c]})

(* An allocation adds up to what was asked for, takes from no node more than
   it had when the call looked, and has as few segments as any choice of nodes
   that hold it; and a refused one fits no choice. *)
AllocationSound ==
    \A c \in MemCall :
        LET call == memCall[c]
            Enough(S) == MapThenSumSet(LAMBDA n : call.seen[n], S) >= call.size
        IN  /\ c \in DOMAIN allocations =>
                 /\ Total(allocations[c]) = call.size
                 /\ \A n \in DOMAIN allocations[c] :
                      allocations[c][n] \in 1..call.seen[n]
                 /\ \A S \in SUBSET DOMAIN call.seen :
                      Enough(S) => Cardinality(DOMAIN allocations[c]) <= Cardinality(S)
            /\ call.pc = "refused" => ~Enough(DOMAIN call.seen)
=============================================================================
