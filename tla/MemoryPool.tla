----------------------------- MODULE MemoryPool -----------------------------
(***************************************************************************)
(* The memory pools that Motr reads into: one pool per unit size (mempool) *)
(* and one limit for all of them (S3MempoolManager).  A pool keeps the     *)
(* buffers that are given back; when a pool can neither give a buffer nor  *)
(* grow, the pool with most free memory gives some of it back.  A call     *)
(* that asks for a buffer runs through without a pause: it is the only one *)
(* that goes on while it is under way.                                     *)
(***************************************************************************)
EXTENDS Naturals, FiniteSets, FiniteSetsExt

CONSTANTS Units,         \* unit sizes, in blocks of half the smallest one
          MaxMemory,     \* total_memory_threshold
          InitialCount,  \* initial_buffer_count_per_pool
          ExpandCount,   \* expandable_count
          MaxHeld,       \* bound: buffers in use
          PoolFault      \* subset of {"malloc"}

ASSUME PoolAssumption ==
    /\ IsFiniteSet(Units) /\ Units \subseteq Nat \ {0} /\ MaxMemory \in Nat
    /\ InitialCount \in Nat /\ ExpandCount \in Nat \ {0} /\ MaxHeld \in Nat

VARIABLES pools,      \* per unit size: free_bufs_in_pool, number_of_bufs_shared,
                      \* total_bufs_allocated_by_pool
          freeSpace,  \* S3MempoolManager::free_space
          poolCall    \* the call that is under way

poolVars == <<pools, freeSpace, poolCall>>

NoPool == [free |-> 0, shared |-> 0, total |-> 0]
MaxRetries == 3
Total(Of(_)) == MapThenSumSet(Of, Units)
Calls(pc, u, retries) == [pc |-> pc, unit |-> u, retries |-> retries]

-----------------------------------------------------------------------------
(* mempool.                                                                *)

\* freelist_allocate: n buffers, or fewer if the allocation fails.
FreelistAllocate(u, n) ==
    /\ pools' = [pools EXCEPT ![u].free = @ + n, ![u].total = @ + n]
    /\ freeSpace' = freeSpace - n * u
PoolCanExpandBy(u) == freeSpace \div u
Fewer(n) == IF "malloc" \in PoolFault THEN 0 .. n - 1 ELSE {}

\* mempool_create_with_shared_mem, for the unit sizes in their order; what a
\* failed creation has allocated is given back.
CreatePool(u) ==
    /\ poolCall.pc = "create" /\ poolCall.unit = u
    /\ LET later == {v \in Units : v > u}
           next == IF later = {} THEN Calls("idle", 0, 0) ELSE Calls("create", Min(later), 0)
       IN  IF InitialCount * u > freeSpace
           THEN poolCall' = Calls("stopped", 0, 0) /\ UNCHANGED <<pools, freeSpace>>
           ELSE \/ FreelistAllocate(u, InitialCount) /\ poolCall' = next
                \/ /\ Fewer(InitialCount) # {}
                   /\ poolCall' = Calls("stopped", 0, 0) /\ UNCHANGED <<pools, freeSpace>>

\* mempool_getbuffer: one buffer of the free list goes to the caller.
Takes(u, more) ==
    /\ pools' = [pools EXCEPT ![u].free = @ + more - 1, ![u].total = @ + more, ![u].shared = @ + 1]
    /\ freeSpace' = freeSpace - more * u
    /\ poolCall' = Calls("idle", 0, 0)
\* It grows by what is asked for at most, and by what the limit leaves.
Growth(u) == Min({ExpandCount, PoolCanExpandBy(u)})
GetBuffer(u) ==
    /\ poolCall.pc = "get" /\ poolCall.unit = u
    /\ IF pools[u].free > 0 THEN Takes(u, 0)
       ELSE IF PoolCanExpandBy(u) = 0
            THEN poolCall' = Calls("reduce", u, poolCall.retries) /\ UNCHANGED <<pools, freeSpace>>
            ELSE \/ Takes(u, Growth(u))
                 \/ \E n \in Fewer(Growth(u)) :
                       FreelistAllocate(u, n) /\ poolCall' = Calls("reduce", u, poolCall.retries)

\* mempool_downsize: whole buffers only.
Downsize(v, bytes) ==
    LET n == Min({bytes \div v, pools[v].free})
    IN  /\ pools' = [pools EXCEPT ![v].free = @ - n, ![v].total = @ - n]
        /\ freeSpace' = freeSpace + n * v

-----------------------------------------------------------------------------
(* S3MempoolManager.                                                       *)

\* free_any_unused: of pools with the same free space the one of the largest
\* unit, which comes last in free_space_map.
FreeBytes(v) == pools[v].free * v
Unused == {v \in Units : pools[v].free > 0}
Largest ==
    CHOOSE v \in Unused : \A w \in Unused :
        FreeBytes(w) < FreeBytes(v) \/ (FreeBytes(w) = FreeBytes(v) /\ w <= v)
ToReduce(v) == IF FreeBytes(v) \div 2 < v THEN v ELSE FreeBytes(v) \div 2
\* Half of an odd number of buffers is refused, and nothing is freed.
Refused(v) == ToReduce(v) % v > 0

\* Called by get_buffer_for_unit_size when there was no buffer.
FreeAnyUnused ==
    /\ poolCall.pc = "reduce"
    /\ IF Unused = {} \/ Refused(Largest)
       THEN /\ poolCall' = Calls("failed", poolCall.unit, poolCall.retries)
            /\ UNCHANGED <<pools, freeSpace>>
       ELSE /\ Downsize(Largest, ToReduce(Largest))
            /\ poolCall' = Calls(IF poolCall.retries = 1 THEN "failed" ELSE "get",
                                 poolCall.unit, poolCall.retries - 1)

GetBufferForUnitSize(u) ==
    /\ poolCall.pc = "idle" /\ Total(LAMBDA v : pools[v].shared) < MaxHeld
    /\ poolCall' = Calls("get", u, MaxRetries) /\ UNCHANGED <<pools, freeSpace>>
\* The caller is told that there is no memory.
CallFails ==
    poolCall.pc = "failed" /\ poolCall' = Calls("idle", 0, 0) /\ UNCHANGED <<pools, freeSpace>>
\* release_buffer_for_unit_size.
\* Mutant: the buffer is still counted as given out.
ReleaseBuffer_Shared(u) ==
    /\ poolCall.pc = "idle" /\ pools[u].shared > 0
    /\ pools' = [pools EXCEPT ![u].free = @ + 1] /\ UNCHANGED <<freeSpace, poolCall>>
ReleaseBuffer(u) ==
    /\ poolCall.pc = "idle" /\ pools[u].shared > 0
    /\ pools' = [pools EXCEPT ![u].free = @ + 1, ![u].shared = @ - 1]
    /\ UNCHANGED <<freeSpace, poolCall>>
\* free_pools: mempool_destroy frees what is in the free lists; free_space is
\* set anew before pools are created again.
FreePools ==
    /\ poolCall.pc = "idle" /\ poolCall' = Calls("stopped", 0, 0)
    /\ pools' = [v \in Units |-> NoPool] /\ UNCHANGED freeSpace

PoolInit ==
    /\ pools = [u \in Units |-> NoPool] /\ freeSpace = MaxMemory
    /\ poolCall = Calls("create", Min(Units), 0)
PoolNext ==
    \/ \E u \in Units : CreatePool(u) \/ GetBufferForUnitSize(u) \/ GetBuffer(u) \/ ReleaseBuffer(u)
    \/ FreeAnyUnused \/ CallFails \/ FreePools
\* A call that is under way goes on.
PoolFairness == WF_poolVars((\E u \in Units : GetBuffer(u)) \/ FreeAnyUnused \/ CallFails)

-----------------------------------------------------------------------------
(* Properties.                                                             *)

Allocated(p) == Total(LAMBDA u : p[u].total * u)

\* Every buffer is free in its pool or with a caller, and all pools together
\* have allocated exactly what free_space says is gone from the limit.
MemoryIsCounted ==
    /\ \A u \in Units : pools[u].total = pools[u].free + pools[u].shared
    /\ poolCall.pc # "stopped" => freeSpace + Allocated(pools) = MaxMemory

\* A call for a buffer comes to an end, with or without one.
CallEnds == (poolCall.pc \in {"get", "reduce"}) ~> (poolCall.pc = "idle")
=============================================================================
