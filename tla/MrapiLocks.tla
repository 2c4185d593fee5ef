------------------------------ MODULE MrapiLocks ------------------------------
(***************************************************************************)
(* Mutexes, semaphores and reader-writer locks of MRAPI                    *)
(* (mrapi_impl_spec.c, called through mrapi.c).  All are entries of the    *)
(* table sems[] in the shared database.  A call is a sequence of critical  *)
(* sections of one entry; between them anything may happen.  As built, the *)
(* sections of entry s are meant to be under member s of the semaphore     *)
(* sems_semid, and create, get and finalize are under the global           *)
(* semaphore, each one step.  With use_global_only all of them are under   *)
(* the global semaphore.                                                   *)
(***************************************************************************)
EXTENDS Integers, FiniteSets, FiniteSetsExt

CONSTANTS
  Node,         \* the node indices of a domain: threads of one process
  MaxSems,      \* MRAPI_MAX_SEMS
  MaxShares,    \* bound: the largest shared_lock_limit
  MaxDepth,     \* bound: locks of one node on one entry
  Key,          \* keys given to create and get
  Kinds,        \* what is created: sets of attributes
  Reuse,        \* whether an entry is created again while other nodes are its users
  Builds,       \* the values of use_global_only
  Called,       \* the entries whose locks are called, in each build
  Timeouts,     \* 1 for a trylock, n for n attempts, Infinite
  Infinite,
  None

ASSUME LocksAssumption ==
  /\ MaxSems \in Nat \ {0} /\ MaxShares \in Nat \ {0} /\ MaxDepth \in Nat \ {0}
  /\ Reuse \in BOOLEAN
  /\ Builds \subseteq BOOLEAN /\ Called \in [BOOLEAN -> SUBSET (0..(MaxSems - 1))]
  /\ IsFiniteSet(Node) /\ None \notin Node \union Key
  /\ Timeouts \subseteq (Nat \ {0}) \union {Infinite} /\ Infinite \notin Nat
  /\ Kinds \subseteq [type : {"mutex", "sem", "rwl"}, limit : 1..MaxShares,
                      recursive : BOOLEAN, ext : BOOLEAN]
  /\ \A kind \in Kinds : kind.type = "mutex" => kind.limit = 1

Slot == 0..(MaxSems - 1)
Share == 1..MaxShares

VARIABLES
  globalOnly, \* use_global_only of the build
  sems,      \* the table of locks
  member,    \* the members of sems_semid; member 0 is the global one with globalOnly
  users,     \* nodes[n].sems: the entries a node is logged as a user of
  nodes,     \* the nodes that are valid
  down,      \* the process has ended on a failed assertion
  handles,   \* the handles a node has got; the index is all a handle says
  call,      \* the call a node is in
  held,      \* history: shares, or for a mutex the locks, granted to a node
  using      \* history: the nodes that have created or got the lock of an entry

vars == <<globalOnly, sems, member, users, nodes, down, handles, call, held, using>>

NoLock == [valid |-> FALSE, deleted |-> FALSE, key |-> None, type |-> "mutex", limit |-> 0,
           recursive |-> FALSE, ext |-> FALSE, holder |-> [i \in Share |-> None],
           lockKey |-> 0, numLocks |-> 0, refs |-> 0]
NoCall == [stage |-> "idle"]

Init ==
  /\ globalOnly \in Builds
  /\ sems = [s \in Slot |-> NoLock]
  /\ member = [s \in Slot |-> 1]
  /\ users = [n \in Node |-> {}] /\ handles = users
  /\ nodes = Node /\ down = FALSE
  /\ call = [n \in Node |-> NoCall]
  /\ held = [n \in Node |-> [s \in Slot |-> 0]]
  /\ using = [s \in Slot |-> {}]

-----------------------------------------------------------------------------
(* The database under the global semaphore *)

\* The member under which a section of entry s is entered and left.
Member(s) == IF globalOnly THEN 0 ELSE s
GlobalFree == globalOnly => member[0] > 0
Idle(n) == ~down /\ n \in nodes /\ call[n].stage = "idle"
WithKey(k) == {s \in Slot : sems[s].key = k}
Unused == {s \in Slot : ~sems[s].valid /\ ~sems[s].deleted}
NobodyHolds(s) == held' = [n \in Node |-> [held[n] EXCEPT ![s] = 0]]

\* mrapi_impl_create_lock_locked
NewLock(k, kind) ==
  [valid |-> TRUE, deleted |-> FALSE, key |-> k, type |-> kind.type, limit |-> kind.limit,
   recursive |-> kind.recursive, ext |-> kind.ext, holder |-> NoLock.holder,
   lockKey |-> 0, numLocks |-> 0, refs |-> 1]

\* mrapi_impl_mutex_create, _sem_create and _rwl_create.  The entry is cleared,
\* the users of the lock that was there before are not.
CreateLock(n, k, kind) ==
  /\ Idle(n) /\ GlobalFree
  /\ \A s \in WithKey(k) : ~sems[s].valid
  /\ Unused # {}
  /\ LET s == Min(Unused) IN
       /\ Reuse \/ \A o \in nodes \ {n} : s \notin users[o]
       /\ sems' = [sems EXCEPT ![s] = NewLock(k, kind)]
       /\ users' = [users EXCEPT ![n] = @ \union {s}]
       /\ handles' = [handles EXCEPT ![n] = @ \union {s}]
       /\ NobodyHolds(s)
       /\ using' = [using EXCEPT ![s] = {n}]
  /\ UNCHANGED <<globalOnly, member, nodes, down, call>>

\* Fault: the node is logged, the count stays.
CountUserNot(refs, n, s) == refs
\* A node counts once.
CountUser(refs, n, s) == IF s \in users[n] THEN refs ELSE refs + 1

\* mrapi_impl_sem_get: the first entry with the key, valid or not.
GetLock(n, k) ==
  /\ Idle(n) /\ GlobalFree /\ WithKey(k) # {}
  /\ LET s == Min(WithKey(k)) IN
       /\ handles' = [handles EXCEPT ![n] = @ \union {s}]
       /\ users' = [users EXCEPT ![n] = @ \union {s}]
       /\ sems' = [sems EXCEPT ![s].refs = CountUser(@, n, s)]
       /\ using' = [using EXCEPT ![s] = @ \union {n}]
  /\ UNCHANGED <<globalOnly, member, nodes, down, call, held>>

\* mrapi_impl_finalize: the locks the node holds stay locked.
FinalizeNode(n) ==
  /\ Idle(n) /\ GlobalFree
  /\ LET refs(s) == sems[s].refs - IF s \in users[n] THEN 1 ELSE 0
         freed == {s \in Slot : sems[s].valid /\ refs(s) = 0}
     IN /\ sems' = [s \in Slot |-> IF ~sems[s].valid THEN sems[s]
                                   ELSE [sems[s] EXCEPT !.refs = refs(s), !.valid = s \notin freed]]
  /\ nodes' = nodes \ {n}
  /\ UNCHANGED <<globalOnly, member, users, down, handles, call, held, using>>

-----------------------------------------------------------------------------
(* Calls on a lock: sequences of critical sections of its entry *)

\* Which section comes after the check of the handle.
FirstSection(c) ==
  IF c.op = "delete" THEN "delete"
  ELSE CASE c.type = "mutex" -> IF c.op = "lock" THEN "mutex lock" ELSE "mutex unlock"
         [] c.mode = "writer" -> "limit"
         [] OTHER -> IF c.op = "lock" THEN "acquire" ELSE "release"

\* Mode is "writer" for a reader-writer lock only; a node may only have one
\* reader lock or one writer lock at a time and unlocks what it has locked.
Mode(n, s, op, mode) ==
  IF sems[s].type # "rwl" THEN mode = "reader"
  ELSE CASE op = "lock" -> held[n][s] = 0
         [] op = "unlock" -> mode = "writer" <=> held[n][s] > 1
         [] OTHER -> mode = "reader"

\* mrapi_mutex_lock, _trylock, _unlock, _delete and the same of _sem and _rwl.
Call(n, s, op, mode, key, timeout) ==
  /\ Idle(n) /\ s \in handles[n] \intersect Called[globalOnly] /\ Mode(n, s, op, mode)
  /\ op = "lock" => held[n][s] < MaxDepth
  /\ call' = [call EXCEPT ![n] =
       [op |-> op, slot |-> s, type |-> sems[s].type, mode |-> mode, key |-> key,
        left |-> timeout, num |-> 1, stage |-> "handle", inside |-> FALSE]]
  /\ UNCHANGED <<globalOnly, sems, member, users, nodes, down, handles, held, using>>

CallLock(n) ==
  \E s \in Slot, mode \in {"reader", "writer"}, t \in Timeouts : Call(n, s, "lock", mode, 0, t)
CallUnlock(n) ==
  \E s \in Slot, mode \in {"reader", "writer"}, k \in 0..MaxDepth :
    /\ sems[s].type # "mutex" => k = 0
    /\ Call(n, s, "unlock", mode, k, Infinite)
CallDelete(n) == \E s \in Slot : Call(n, s, "delete", "reader", 0, Infinite)

\* mrapi_impl_access_database_pre
Enter(n) ==
  /\ ~down /\ call[n].stage # "idle" /\ ~call[n].inside
  /\ LET m == Member(IF call[n].stage = "yield" THEN 0 ELSE call[n].slot) IN
       /\ member[m] > 0
       /\ member' = [member EXCEPT ![m] = @ - 1]
  /\ call' = [call EXCEPT ![n].inside = TRUE]
  /\ UNCHANGED <<globalOnly, sems, users, nodes, down, handles, held, using>>

In(n, stage) == ~down /\ call[n].stage = stage /\ call[n].inside
Post(m) == member' = [member EXCEPT ![Member(m)] = @ + 1]
GoTo(n, stage) == call' = [call EXCEPT ![n].stage = stage, ![n].inside = FALSE]
Return(n) == call' = [call EXCEPT ![n] = NoCall]

\* mrapi_impl_valid_lock_hndl gives back member 0, whichever it has taken.
CheckHandle(n) ==
  /\ In(n, "handle")
  /\ IF sems[call[n].slot].valid THEN GoTo(n, FirstSection(call[n])) ELSE Return(n)
  /\ Post(0)
  /\ UNCHANGED <<globalOnly, sems, users, nodes, down, handles, held, using>>

\* Fault: who holds the lock is not compared.
LockedByNode(n, s) == sems[s].holder[1] # None
\* The holder of the first share is the holder of a mutex.
LockedBy(n, s) == sems[s].holder[1] = n

\* The first section of mrapi_impl_mutex_lock.
MutexLock(n) ==
  LET s == call[n].slot
      mine == LockedBy(n, s)
  IN /\ In(n, "mutex lock")
     /\ IF mine /\ sems[s].recursive
        THEN /\ sems' = [sems EXCEPT ![s].lockKey = @ + 1]
             /\ held' = [held EXCEPT ![n][s] = @ + 1]
        ELSE UNCHANGED <<sems, held>>
     /\ IF mine THEN Return(n) ELSE GoTo(n, "acquire")
     /\ Post(s)
     /\ UNCHANGED <<globalOnly, users, nodes, down, handles, using>>

\* A writer reads how many shares there are (mrapi_impl_rwl_lock, _rwl_unlock).
ReadLimit(n) ==
  /\ In(n, "limit")
  /\ call' = [call EXCEPT ![n].num = sems[call[n].slot].limit, ![n].inside = FALSE,
                          ![n].stage = IF call[n].op = "lock" THEN "acquire" ELSE "release"]
  /\ Post(call[n].slot)
  /\ UNCHANGED <<globalOnly, sems, users, nodes, down, handles, held, using>>

-----------------------------------------------------------------------------
(* Locking and unlocking shares *)

SharesOf(s, n) == {i \in 1..sems[s].limit : sems[s].holder[i] = n}
Lowest(set, k) == {i \in set : Cardinality({j \in set : j <= i}) <= k}

\* Fault: the member is not taken again.
YieldOnly(n) == call' = [call EXCEPT ![n].stage = "yield"] /\ Post(0)
\* mrapi_impl_yield_locked gives back member 0 and takes it again.
Yield(n) == GoTo(n, "yield") /\ Post(0)

\* The test of mrapi_impl_acquire_lock_locked; create and finalize may come
\* between it and the loop that takes the shares.
TryAcquire(n) ==
  LET s == call[n].slot IN
  /\ In(n, "acquire")
  /\ IF sems[s].limit - sems[s].numLocks - call[n].num >= 0
     THEN call' = [call EXCEPT ![n].stage = "take"] /\ UNCHANGED member
     ELSE Yield(n)
  /\ UNCHANGED <<globalOnly, sems, users, nodes, down, handles, held, using>>

Grant(lock, n, got) ==
  [lock EXCEPT !.holder = [i \in Share |-> IF i \in got THEN n ELSE @[i]],
               !.numLocks = @ + Cardinality(got)]

TakeShares(n) ==
  LET s == call[n].slot
      got == Lowest(SharesOf(s, None), call[n].num)
  IN /\ In(n, "take")
     /\ sems' = [sems EXCEPT ![s] = Grant(@, n, got)]
     /\ IF Cardinality(got) = call[n].num
        THEN /\ held' = [held EXCEPT ![n][s] = @ + call[n].num]
             /\ Return(n) /\ Post(s)
        ELSE Yield(n) /\ UNCHANGED held
     /\ UNCHANGED <<globalOnly, users, nodes, down, handles, using>>

\* The end of the loop of mrapi_impl_sem_lock.
Again(n) ==
  /\ In(n, "yield")
  /\ IF call[n].left = 1
     THEN Return(n) /\ Post(call[n].slot)
     ELSE /\ call' = [call EXCEPT ![n].stage = "acquire",
                                  ![n].left = IF @ = Infinite THEN @ ELSE @ - 1]
          /\ UNCHANGED member
  /\ UNCHANGED <<globalOnly, sems, users, nodes, down, handles, held, using>>

\* Fault: the first lock, which has key 0, counts as a recursive one.
UnlocksRecursionAny(n, s, key) == LockedBy(n, s) /\ key = sems[s].lockKey
\* The key of a recursive lock must be the last one given.
UnlocksRecursion(n, s, key) ==
  LockedBy(n, s) /\ key = sems[s].lockKey /\ key # 0

\* The section of mrapi_impl_mutex_unlock.
MutexUnlock(n) ==
  LET s == call[n].slot
      key == sems[s].lockKey
      mine == UnlocksRecursion(n, s, call[n].key)
  IN /\ In(n, "mutex unlock")
     /\ IF mine
        THEN /\ sems' = [sems EXCEPT ![s].lockKey = key - 1]
             /\ held' = [held EXCEPT ![n][s] = @ - 1]
        ELSE UNCHANGED <<sems, held>>
     /\ IF ~mine /\ key = 0 THEN GoTo(n, "release") ELSE Return(n)
     /\ Post(s)
     /\ UNCHANGED <<globalOnly, users, nodes, down, handles, using>>

\* Fault: the loop ends at the first share.
GiveBackFirst(lock, mine, num) ==
  [lock EXCEPT !.holder = [i \in Share |-> IF i \in Lowest(mine, 1) THEN None ELSE @[i]],
               !.numLocks = @ - num]
GiveBack(lock, mine, num) ==
  [lock EXCEPT !.holder = [i \in Share |-> IF i \in mine THEN None ELSE @[i]],
               !.numLocks = @ - num]

\* mrapi_impl_release_lock gives back all shares of the node.  When they are
\* more than were asked for an assertion fails and the process ends.
Release(n) ==
  LET s == call[n].slot
      mine == SharesOf(s, n)
      num == call[n].num
  IN /\ In(n, "release")
     /\ IF sems[s].valid /\ Cardinality(mine) >= num
        THEN /\ sems' = [sems EXCEPT ![s] = GiveBack(@, mine, num)]
             /\ down' = (Cardinality(mine) # num)
             /\ held' = IF down' THEN [m \in Node |-> [r \in Slot |-> 0]]
                                 ELSE [held EXCEPT ![n][s] = 0]
        ELSE UNCHANGED <<sems, held, down>>
     /\ Return(n) /\ Post(s)
     /\ UNCHANGED <<globalOnly, users, nodes, handles, using>>

Removed(lock) == [lock EXCEPT !.valid = FALSE, !.deleted = @ \/ lock.ext]

\* Fault: that the caller holds the lock is not checked.
OwnsAny(n, s) == TRUE
OwnsAll(n, s) == Cardinality(SharesOf(s, n)) = sems[s].limit

\* mrapi_impl_sem_delete: only a node that holds all shares deletes the lock.
Delete(n) ==
  LET s == call[n].slot
  IN /\ In(n, "delete")
     /\ IF sems[s].valid /\ OwnsAll(n, s)
        THEN sems' = [sems EXCEPT ![s] = Removed(@)] /\ NobodyHolds(s)
        ELSE UNCHANGED <<sems, held>>
     /\ Return(n) /\ Post(s)
     /\ UNCHANGED <<globalOnly, users, nodes, down, handles, using>>

-----------------------------------------------------------------------------
LockStep(n) ==
  \/ CheckHandle(n) \/ MutexLock(n) \/ ReadLimit(n) \/ TryAcquire(n) \/ TakeShares(n)
  \/ Again(n) \/ MutexUnlock(n) \/ Release(n) \/ Delete(n)

Next ==
  \E n \in Node :
    \/ \E k \in Key : GetLock(n, k) \/ \E kind \in Kinds : CreateLock(n, k, kind)
    \/ FinalizeNode(n) \/ CallLock(n) \/ CallUnlock(n) \/ CallDelete(n)
    \/ Enter(n) \/ LockStep(n)

Spec == Init /\ [][Next]_vars

-----------------------------------------------------------------------------
(* Properties *)

Stage == {"idle", "handle", "mutex lock", "mutex unlock", "limit", "acquire", "take",
          "yield", "release", "delete"}

\* The types of the variables.
TypeOK ==
  /\ globalOnly \in Builds
  /\ sems \in [Slot -> [valid : BOOLEAN, deleted : BOOLEAN, key : Key \union {None},
                       type : {"mutex", "sem", "rwl"}, limit : 0..MaxShares,
                       recursive : BOOLEAN, ext : BOOLEAN,
                       holder : [Share -> Node \union {None}], lockKey : 0..MaxDepth,
                       numLocks : 0..MaxShares, refs : 0..Cardinality(Node)]]
  /\ member \in [Slot -> 0..1]
  /\ users \in [Node -> SUBSET Slot] /\ handles \in [Node -> SUBSET Slot]
  /\ nodes \subseteq Node /\ down \in BOOLEAN
  /\ held \in [Node -> [Slot -> 0..MaxDepth \union Share]]
  /\ \A n \in Node :
       /\ call[n].stage \in Stage
       /\ call[n] # NoCall => /\ call[n].slot \in handles[n] /\ call[n].num \in Share
                             /\ call[n].inside \in BOOLEAN

\* "Anytime we read or write the database, we must be in a critical section"
\* (mrapi_impl_spec.c:74): two nodes are never in a section of the same entry.
SectionExclusive ==
  \A n, o \in Node :
    n # o /\ ~down /\ call[n] # NoCall /\ call[o] # NoCall /\ call[n].inside /\ call[o].inside
      => call[n].slot # call[o].slot

\* The entry of a lock agrees with the locks its users have been granted: the
\* counter with the shares, the shares with every node's calls, and the key of
\* a mutex with the depth of its recursion.
DatabaseExact ==
  \A s \in Slot : sems[s].valid /\ ~down =>
    /\ sems[s].numLocks = sems[s].limit - Cardinality(SharesOf(s, None))
    /\ \A n \in Node :
         IF sems[s].type = "mutex"
         THEN /\ SharesOf(s, n) # {} <=> held[n][s] > 0
              /\ held[n][s] > 0 => sems[s].lockKey = held[n][s] - 1
         ELSE Cardinality(SharesOf(s, n)) = held[n][s]

\* The locks that exist, their shares, and the shares granted to each node: a
\* mutex has one however often its owner has locked it.  A failed assertion
\* ends all nodes.
Present == IF down THEN {} ELSE nodes
Live == {s \in Slot : sems[s].valid /\ ~down}
Limit == [s \in Slot |-> sems[s].limit]
Granted(s, n) == IF sems[s].type = "mutex" /\ held[n][s] > 1 THEN 1 ELSE held[n][s]
OwnedBy == [s \in Slot |-> [n \in Node |-> Granted(s, n)]]

LockTable == INSTANCE Locks WITH
  Lock <- Slot, present <- Present, live <- Live, limit <- Limit, owned <- OwnedBy

\* The table implements the locks of the interface: what the calls of all nodes
\* have been granted never exceeds the limit of a lock, a writer is alone, and
\* a lock goes only when the owner of all its shares deletes it or the last node
\* that uses it ends.
ImplementsLocks == LockTable!Spec

\* "The reference count is only used by finalize to know if the last user of a
\* semaphore has called finalize and if so, then it will delete the semaphore"
\* (mrapi_impl_spec.c:2633-2635): a node that ends takes no lock away from another.
KeptWhileUsed ==
  [][\A s \in Slot :
       nodes' # nodes /\ sems[s].valid /\ using[s] \intersect nodes' # {} => sems'[s].valid]_vars
=============================================================================
