----------------------------- MODULE FriendDb ------------------------------
(***************************************************************************)
(* MySQLManager: the pool of database connections, guarded by a mutex and  *)
(* a counting semaphore, and the three operations on the friend table that *)
(* run on them (MySQLManager.cpp, DBConfig.h).                             *)
(*                                                                         *)
(* A thread is one caller.  Its steps are the points where it meets        *)
(* another caller: the semaphore, the pool, the row locks and the commit.  *)
(* The statements in between, and every early return with a ROLLBACK, are  *)
(* the two outcomes of the step they belong to.                            *)
(*                                                                         *)
(* MySQL is external: friend holds the committed rows, a transaction that  *)
(* changed the two rows of a pair locks them until it ends, and losing the *)
(* connection rolls it back.                                               *)
(***************************************************************************)
EXTENDS Naturals, Sequences, FiniteSets

CONSTANTS
  Threads,   (* threads that call MySQLManager                  *)
  Users,     (* user_pk values                                  *)
  Links,     (* the MYSQL* connections, dbConnectionCount many  *)
  Requests,  (* the calls made: <<operation, caller, target>>   *)
  MaxLost,   (* connections that may be lost (bound)            *)
  None       (* no connection                                   *)

dbConnectionCount == Cardinality(Links)

Ops == {"AcceptFriend", "RemoveFriend", "GetUserFriendsPks"}

ASSUME DbAssumption ==
  /\ IsFiniteSet(Links) /\ IsFiniteSet(Threads)
  /\ None \notin Links
  /\ Requests \subseteq Ops \X Users \X Users
  /\ MaxLost \in Nat

VARIABLES
  friend,     (* committed status of each row (user_pk, friend_pk) *)
  dbPool,     (* MySQLManager::dbPool                              *)
  semaphore,  (* MySQLManager::semaphore                           *)
  call,       (* what each thread is doing                         *)
  locked,     (* per thread, the rows its transaction has changed  *)
  broken,     (* connections that were lost                        *)
  poolSize    (* how many connections init() made                  *)

vars == <<friend, dbPool, semaphore, call, locked, broken, poolSize>>

Rows == {r \in Users \X Users : r[1] # r[2]}

(* Both directions of a friendship. *)
OneWay(u, v)   == {<<u, v>>}                                    (* mutant *)
BothWays(u, v) == {<<u, v>>, <<v, u>>}

Call == [op : Ops \union {None}, user : Users \union {None}, target : Users \union {None},
         at : {"idle", "acquire", "take", "start", "change", "commit", "return"},
         conn : Links \union {None}, ok : BOOLEAN, applied : BOOLEAN]

NewCall(op, u, v, at) ==
  [op |-> op, user |-> u, target |-> v, at |-> at, conn |-> None, ok |-> FALSE, applied |-> FALSE]
Idle == NewCall(None, None, None, "idle")

TooManyPermits == dbConnectionCount + 1                         (* mutant *)
InitialPermits == dbConnectionCount

(* init() stops at the first connection it cannot open, and                 *)
(* OutGameLobbyServer::init goes on without the others.                     *)
Init ==
  /\ friend \in {f \in [Rows -> {"none", "requested", "friends"}] :
                   \A r \in Rows : f[r] = f[<<r[2], r[1]>>]}
  /\ poolSize \in 0 .. dbConnectionCount
  /\ \E order \in [1 .. poolSize -> Links] :
       /\ \A i, j \in 1 .. poolSize : order[i] = order[j] => i = j
       /\ dbPool = order
  /\ semaphore = InitialPermits
  /\ call = [t \in Threads |-> Idle]
  /\ locked = [t \in Threads |-> {}]
  /\ broken = {}

At(t, step)     == call[t].at = step
Goto(t, step)   == call' = [call EXCEPT ![t].at = step]
GoodLink(t)     == call[t].conn \notin broken
RowsOf(t)       == BothWays(call[t].user, call[t].target)
Transacts(t)    == call[t].op # "GetUserFriendsPks"

----------------------------------------------------------------------------
Enter(t) ==
  /\ At(t, "idle")
  /\ \E q \in Requests : call' = [call EXCEPT ![t] = NewCall(q[1], q[2], q[3], "acquire")]
  /\ UNCHANGED <<friend, dbPool, semaphore, locked, broken, poolSize>>

NoWait   == TRUE                                                (* mutant *)
CanEnter == semaphore > 0

Acquire(t) ==
  /\ At(t, "acquire") /\ CanEnter
  /\ semaphore' = semaphore - 1
  /\ Goto(t, "take")
  /\ UNCHANGED <<friend, dbPool, locked, broken, poolSize>>

(* GetConnection, under dbPoolMutex.  When the pool is empty the caller     *)
(* returns before AutoConn exists, and its permit is not released.          *)
NotPoppedLink(pool) == pool                                     (* mutant *)
PoppedLink(pool)    == Tail(pool)

Take(t) ==
  /\ At(t, "take")
  /\ \/ /\ dbPool = <<>>
        /\ call' = [call EXCEPT ![t] = Idle]
        /\ UNCHANGED dbPool
     \/ /\ dbPool # <<>>
        /\ call' = [call EXCEPT ![t].at = "start", ![t].conn = Head(dbPool)]
        /\ dbPool' = PoppedLink(dbPool)
  /\ UNCHANGED <<friend, semaphore, locked, broken, poolSize>>

(* START TRANSACTION and the SELECT of the target's pk, or the one query of *)
(* GetUserFriendsPks.  Any of it may fail or find nothing.                  *)
Start(t) ==
  /\ At(t, "start")
  /\ \/ /\ GoodLink(t)
        /\ call' = [call EXCEPT ![t].at = IF Transacts(t) THEN "change" ELSE "return",
                                ![t].ok = ~Transacts(t)]
     \/ Goto(t, "return")
  /\ UNCHANGED <<friend, dbPool, semaphore, locked, broken, poolSize>>

(* UPDATE or DELETE of both rows, once no other transaction holds them.     *)
(* affected_rows counts the rows really changed: AcceptFriend goes on only  *)
(* when both did, RemoveFriend when any did; otherwise ROLLBACK.            *)
Unlocked(t) == \A s \in Threads \ {t} : locked[s] \intersect RowsOf(t) = {}

Affected(t) ==
  {r \in RowsOf(t) \intersect Rows :
     IF call[t].op = "AcceptFriend" THEN friend[r] = "requested" ELSE friend[r] # "none"}

AnyCountDoes(t) == TRUE                                         (* mutant *)
Enough(t) ==
  IF call[t].op = "AcceptFriend" THEN Cardinality(Affected(t)) = 2 ELSE Affected(t) # {}

Change(t) ==
  /\ At(t, "change")
  /\ \/ /\ GoodLink(t) /\ Unlocked(t) /\ Enough(t)
        /\ locked' = [locked EXCEPT ![t] = Affected(t)]
        /\ Goto(t, "commit")
     \/ /\ Goto(t, "return")
        /\ UNCHANGED locked
  /\ UNCHANGED <<friend, dbPool, semaphore, broken, poolSize>>

(* COMMIT: its result is ignored and the call reports success.              *)
Commit(t) ==
  /\ At(t, "commit")
  /\ friend' = [r \in Rows |->
                  IF r \notin locked[t] THEN friend[r]
                  ELSE IF call[t].op = "AcceptFriend" THEN "friends" ELSE "none"]
  /\ call' = [call EXCEPT ![t].at = "return", ![t].ok = TRUE, ![t].applied = (locked[t] # {})]
  /\ locked' = [locked EXCEPT ![t] = {}]
  /\ UNCHANGED <<dbPool, semaphore, broken, poolSize>>

NotReleased(n) == n                                             (* mutant *)
Released(n)    == n + 1

(* ~AutoConn: the connection goes back and then the permit, both while it   *)
(* holds dbPoolMutex, so no caller sees one without the other.              *)
Return(t) ==
  /\ At(t, "return")
  /\ dbPool' = Append(dbPool, call[t].conn)
  /\ semaphore' = Released(semaphore)
  /\ call' = [call EXCEPT ![t] = Idle]
  /\ UNCHANGED <<friend, locked, broken, poolSize>>

(* A connection is lost.  Nothing ever reopens it, and it stays in use.     *)
LoseLink(c) ==
  /\ c \notin broken /\ Cardinality(broken) < MaxLost
  /\ broken' = broken \union {c}
  /\ locked' = [t \in Threads |-> IF call[t].conn = c THEN {} ELSE locked[t]]
  /\ UNCHANGED <<friend, dbPool, semaphore, call, poolSize>>

Working(t) == Take(t) \/ Start(t) \/ Change(t) \/ Commit(t) \/ Return(t)

Next ==
  \/ \E t \in Threads :
       Enter(t) \/ Acquire(t) \/ Working(t)
  \/ \E c \in Links : LoseLink(c)

Spec == Init /\ [][Next]_vars

(* A thread that has its permit runs until it returns, and a permit is      *)
(* given to some thread that waits for one.  Which thread gets it is not    *)
(* said: std::counting_semaphore is not fair.                               *)
Fairness ==
  /\ \A t \in Threads : WF_vars(Working(t))
  /\ WF_vars(\E t \in Threads : Acquire(t))

FairSpec == Spec /\ Fairness

----------------------------------------------------------------------------
TypeOK ==
  /\ friend \in [Rows -> {"none", "requested", "friends"}]
  /\ dbPool \in Seq(Links)
  /\ semaphore \in Nat
  /\ call \in [Threads -> Call]
  /\ locked \in [Threads -> SUBSET Rows]
  /\ broken \subseteq Links
  /\ poolSize \in 0 .. dbConnectionCount

Holders(c) == {t \in Threads : call[t].conn = c}

(* A connection is never shared: it is in the pool once, or used by one     *)
(* caller.  Two callers on one MYSQL handle would mix their transactions.   *)
LinkOwned ==
  \A c \in Links :
    Cardinality({i \in DOMAIN dbPool : dbPool[i] = c}) + Cardinality(Holders(c)) <= 1

(* The semaphore and the pool agree although they are updated apart: when   *)
(* init() opened every connection, a caller that was given a permit finds   *)
(* one.                                                                     *)
PermitHasLink ==
  poolSize = dbConnectionCount => \A t \in Threads : At(t, "take") => dbPool # <<>>

(* Friendship is mutual in every committed state, whichever calls run at    *)
(* once, fail half way or lose their connection: the two rows of a pair     *)
(* always have the same status.                                             *)
Mutual == \A r \in Rows : friend[r] = friend[<<r[2], r[1]>>]

(* A call that reports success changed the table, unless its connection was *)
(* lost: the result of COMMIT is not looked at.                             *)
SuccessMeansApplied ==
  \A t \in Threads :
    call[t].ok /\ Transacts(t) => call[t].applied \/ call[t].conn \in broken

(* Permits that early returns keep never outnumber the connections that     *)
(* init() failed to open: for every connection in the pool there is a       *)
(* permit to be had, or a caller who has just been given one.               *)
PermitForEachLink ==
  semaphore + Cardinality({t \in Threads : At(t, "take")}) >= Len(dbPool)

(* Callers that wait for permits, for the mutex and for row locks never all *)
(* wait for each other: as long as init() opened one connection, somebody   *)
(* who waits gets a permit, whatever was leaked and whichever connections   *)
(* were lost.                                                               *)
SomeCallGetsOn ==
  (poolSize > 0 /\ \E t \in Threads : At(t, "acquire"))
    ~> (\E t \in Threads : At(t, "take"))

(* DBConfig.h:22: the connection and the semaphore are returned             *)
(* automatically after the function has run.                                *)
PermitsReturned ==
  (\A t \in Threads : At(t, "idle")) => semaphore = dbConnectionCount
============================================================================
