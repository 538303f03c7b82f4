--------------------------- MODULE FriendDbProofs ---------------------------
(***************************************************************************)
(* Proofs about FriendDb, for any number of callers, users and             *)
(* connections: who owns a connection, what a permit is worth, and what    *)
(* two calls about one pair of users can do to each other.                 *)
(***************************************************************************)
EXTENDS FriendDb, FiniteSetTheorems, SequenceTheorems, TLAPS

Holds(t) == call[t].at \in {"start", "change", "commit", "return"}

(* A caller under way knows what he was called for; he has a connection     *)
(* from GetConnection to ~AutoConn, and success is known at the end.        *)
CallOK(t) ==
  /\ ~At(t, "idle") => call[t].op \in Ops /\ call[t].user \in Users /\ call[t].target \in Users
  /\ Holds(t) <=> call[t].conn # None
  /\ call[t].ok => At(t, "return")
  /\ call[t].at \in {"change", "commit"} => Transacts(t)

(* Where the connections are. *)
PoolOnce == \A i, j \in 1 .. Len(dbPool) : dbPool[i] = dbPool[j] => i = j
Outside  == \A t \in Threads : Holds(t) => \A i \in 1 .. Len(dbPool) : dbPool[i] # call[t].conn
OneUser  == \A s, t \in Threads : Holds(s) /\ Holds(t) /\ call[s].conn = call[t].conn => s = t

Takers(c) == {t \in Threads : c[t].at = "take"}

(* With a full pool, a permit that is out and not used yet is worth a       *)
(* connection in the pool.                                                  *)
Permits ==
  poolSize = dbConnectionCount =>
    semaphore + Cardinality(Takers(call)) = Len(dbPool)

(* Whatever its size, no connection of the pool is out of reach of the      *)
(* permits.                                                                 *)
Reach == semaphore + Cardinality(Takers(call)) >= Len(dbPool)

Mirror(r) == <<r[2], r[1]>>

(* What a transaction holds until it ends: rows of its pair, both           *)
(* directions, still there, and nobody else's.                              *)
LocksOK(t) ==
  /\ locked[t] # {} => At(t, "commit")
  /\ At(t, "commit") => locked[t] # {} \/ call[t].conn \in broken
  /\ \A r \in locked[t] : r \in RowsOf(t) /\ Mirror(r) \in locked[t] /\ friend[r] # "none"
  /\ \A s \in Threads \ {t} : locked[s] \intersect locked[t] = {}

IInv ==
  /\ TypeOK
  /\ \A t \in Threads : CallOK(t) /\ LocksOK(t)
  /\ PoolOnce /\ Outside /\ OneUser
  /\ Permits
  /\ Reach
  /\ Mutual
  /\ SuccessMeansApplied

Steps == {"idle", "acquire", "take", "start", "change", "commit", "return"}

LEMMA IdleType == Idle \in Call /\ Idle.at = "idle" /\ Idle.conn = None /\ ~Idle.ok
  BY DEF Call, Idle, NewCall

----------------------------------------------------------------------------
(* A step of thread t leaves the calls of the others as they were; his own  *)
(* goes to a step of the code, with these results so far.                   *)
Others(t) ==
  /\ call' \in [Threads -> Call]
  /\ \A s \in Threads \ {t} : call'[s] = call[s]

Becomes(t, at, conn, ok, applied) ==
  /\ Others(t)
  /\ call'[t].op = call[t].op /\ call'[t].user = call[t].user /\ call'[t].target = call[t].target
  /\ call'[t].at = at /\ call'[t].conn = conn /\ call'[t].ok = ok /\ call'[t].applied = applied

LEMMA EnterStep ==
  ASSUME TypeOK, NEW t \in Threads, Enter(t)
  PROVE  /\ Others(t)
         /\ call'[t].op \in Ops /\ call'[t].user \in Users /\ call'[t].target \in Users
         /\ call'[t].at = "acquire" /\ call'[t].conn = None /\ ~call'[t].ok
  <1>1. PICK q \in Requests : call' = [call EXCEPT ![t] = NewCall(q[1], q[2], q[3], "acquire")]
    BY DEF Enter
  <1>2. q[1] \in Ops /\ q[2] \in Users /\ q[3] \in Users
    BY DbAssumption DEF DbAssumption
  <1>3. NewCall(q[1], q[2], q[3], "acquire") \in Call
    BY <1>2 DEF NewCall, Call
  <1> QED
    BY <1>1, <1>2, <1>3 DEF TypeOK, Others, NewCall

LEMMA GotoStep ==
  ASSUME TypeOK, NEW t \in Threads, NEW at \in Steps, Goto(t, at)
  PROVE  Becomes(t, at, call[t].conn, call[t].ok, call[t].applied)
  BY DEF Becomes, Others, TypeOK, Goto, Call, Steps

LEMMA TakeStep ==
  ASSUME TypeOK, NEW t \in Threads, Take(t)
  PROVE  \/ dbPool = <<>> /\ Others(t) /\ call'[t] = Idle /\ UNCHANGED dbPool
         \/ /\ dbPool # <<>> /\ dbPool' = Tail(dbPool) /\ Head(dbPool) \in Links
            /\ Becomes(t, "start", Head(dbPool), call[t].ok, call[t].applied)
  <1>1. CASE dbPool = <<>>
    BY <1>1, IdleType DEF TypeOK, Take, Others
  <1>2. CASE dbPool # <<>>
    <2>1. Head(dbPool) \in Links
      BY <1>2 DEF TypeOK
    <2>2. call' = [call EXCEPT ![t].at = "start", ![t].conn = Head(dbPool)] /\ dbPool' = Tail(dbPool)
      BY <1>2 DEF Take, PoppedLink
    <2>3. Becomes(t, "start", Head(dbPool), call[t].ok, call[t].applied)
      BY <2>1, <2>2, ZenonT(60) DEF TypeOK, Becomes, Others, Call
    <2> QED
      BY <1>2, <2>1, <2>2, <2>3
  <1> QED
    BY <1>1, <1>2

LEMMA StartStep ==
  ASSUME TypeOK, NEW t \in Threads, Start(t)
  PROVE  \/ Transacts(t) /\ Becomes(t, "change", call[t].conn, FALSE, call[t].applied)
         \/ ~Transacts(t) /\ Becomes(t, "return", call[t].conn, TRUE, call[t].applied)
         \/ Becomes(t, "return", call[t].conn, call[t].ok, call[t].applied)
  <1>1. CASE Goto(t, "return")
    BY <1>1, GotoStep DEF Steps
  <1>2. CASE GoodLink(t) /\ Transacts(t) /\ ~Goto(t, "return")
    <2>1. call' = [call EXCEPT ![t].at = "change", ![t].ok = FALSE]
      BY <1>2 DEF Start
    <2>2. Becomes(t, "change", call[t].conn, FALSE, call[t].applied)
      BY <2>1, ZenonT(60) DEF TypeOK, Becomes, Others, Call
    <2> QED
      BY <1>2, <2>2
  <1>3. CASE GoodLink(t) /\ ~Transacts(t) /\ ~Goto(t, "return")
    <2>1. call' = [call EXCEPT ![t].at = "return", ![t].ok = TRUE]
      BY <1>3 DEF Start
    <2>2. Becomes(t, "return", call[t].conn, TRUE, call[t].applied)
      BY <2>1, ZenonT(60) DEF TypeOK, Becomes, Others, Call
    <2> QED
      BY <1>3, <2>2
  <1> QED
    BY <1>1, <1>2, <1>3 DEF Start

LEMMA CommitStep ==
  ASSUME TypeOK, NEW t \in Threads, Commit(t)
  PROVE  \E applied \in BOOLEAN : /\ applied <=> locked[t] # {}
                                 /\ Becomes(t, "return", call[t].conn, TRUE, applied)
  <1>1. CASE locked[t] = {}
    <2>1. call' = [call EXCEPT ![t].at = "return", ![t].ok = TRUE, ![t].applied = FALSE]
      BY <1>1 DEF Commit
    <2>2. Becomes(t, "return", call[t].conn, TRUE, FALSE)
      BY <2>1, ZenonT(60) DEF TypeOK, Becomes, Others, Call
    <2> QED
      BY <1>1, <2>2
  <1>2. CASE locked[t] # {}
    <2>1. call' = [call EXCEPT ![t].at = "return", ![t].ok = TRUE, ![t].applied = TRUE]
      BY <1>2 DEF Commit
    <2>2. Becomes(t, "return", call[t].conn, TRUE, TRUE)
      BY <2>1, ZenonT(60) DEF TypeOK, Becomes, Others, Call
    <2> QED
      BY <1>2, <2>2
  <1> QED
    BY <1>1, <1>2

LEMMA ReturnStep ==
  ASSUME TypeOK, NEW t \in Threads, Return(t)
  PROVE  Others(t) /\ call'[t] = Idle
  BY IdleType DEF TypeOK, Return, Others

(* Every step of a thread is one of his actions, and changes his own call;  *)
(* the others leave the calls alone.                                        *)
LEMMA AnyStep ==
  ASSUME TypeOK, [Next]_vars
  PROVE  \/ \E t \in Threads :
              /\ Others(t)
              /\ Enter(t) \/ Acquire(t) \/ Take(t) \/ Start(t) \/ Change(t) \/ Commit(t) \/ Return(t)
         \/ \E c \in Links : LoseLink(c) /\ call' = call
         \/ UNCHANGED vars /\ call' = call
  <1>1. ASSUME NEW t \in Threads,
               Enter(t) \/ Acquire(t) \/ Take(t) \/ Start(t) \/ Change(t) \/ Commit(t) \/ Return(t)
        PROVE  Others(t)
    <2>1. CASE Enter(t) \/ Take(t)
      BY <2>1, EnterStep, TakeStep DEF Becomes
    <2>2. CASE Start(t) \/ Commit(t)
      BY <2>2, StartStep, CommitStep DEF Becomes
    <2>3. CASE Acquire(t)
      BY <2>3, GotoStep DEF Becomes, Acquire, Steps
    <2>4. CASE Change(t)
      BY <2>4, GotoStep DEF Becomes, Change, Steps
    <2> QED
      BY <1>1, <2>1, <2>2, <2>3, <2>4, ReturnStep
  <1>2. ASSUME NEW c \in Links, LoseLink(c) PROVE call' = call
    BY <1>2 DEF LoseLink
  <1> QED
    BY <1>1, <1>2 DEF Next, Working, vars

----------------------------------------------------------------------------
LEMMA OtherCalls ==
  ASSUME NEW t \in Threads, Others(t), NEW s \in Threads, s # t
  PROVE  /\ CallOK(s) => CallOK(s)'
         /\ RowsOf(s)' = RowsOf(s) /\ At(s, "commit")' = At(s, "commit")
         /\ Holds(s)' = Holds(s) /\ call'[s] = call[s]
  BY DEF Others, CallOK, Holds, At, Transacts, RowsOf

LEMMA StepCalls == IInv /\ [Next]_vars => \A s \in Threads : CallOK(s)'
  <1> SUFFICES ASSUME IInv, [Next]_vars, NEW s \in Threads PROVE CallOK(s)'
    OBVIOUS
  <1> USE DEF IInv
  <1>0. None \notin Links /\ CallOK(s) /\ call[s] \in Call
    BY DbAssumption DEF DbAssumption, TypeOK
  <1>1. ASSUME NEW t \in Threads, s # t, Others(t) PROVE CallOK(s)'
    BY <1>0, <1>1, OtherCalls
  <1>2. CASE Enter(s)
    BY <1>2, EnterStep DEF CallOK, Holds, At
  <1>3. CASE Acquire(s)
    <2>1. Becomes(s, "take", call[s].conn, call[s].ok, call[s].applied)
      BY <1>3, GotoStep DEF Acquire, Steps
    <2> QED
      BY <1>0, <1>3, <2>1 DEF Acquire, CallOK, Holds, At, Becomes
  <1>4. CASE Take(s)
    BY <1>0, <1>4, TakeStep, IdleType DEF Take, CallOK, Holds, At, Becomes
  <1>5. CASE Start(s)
    BY <1>0, <1>5, StartStep DEF Start, CallOK, Holds, At, Becomes, Transacts
  <1>6. CASE Change(s)
    <2>1. \/ Becomes(s, "commit", call[s].conn, call[s].ok, call[s].applied)
          \/ Becomes(s, "return", call[s].conn, call[s].ok, call[s].applied)
      BY <1>6, GotoStep DEF Change, Steps
    <2> QED
      BY <1>0, <1>6, <2>1 DEF Change, CallOK, Holds, At, Becomes, Transacts
  <1>7. CASE Commit(s)
    BY <1>0, <1>7, CommitStep DEF Commit, CallOK, Holds, At, Becomes, Transacts
  <1>8. CASE Return(s)
    BY <1>0, <1>8, ReturnStep, IdleType DEF CallOK, Holds, At, Transacts
  <1>9. CASE call' = call
    BY <1>0, <1>9 DEF CallOK, Holds, At, Transacts
  <1> QED
    BY <1>1, <1>2, <1>3, <1>4, <1>5, <1>6, <1>7, <1>8, <1>9, AnyStep

LEMMA CountType == dbConnectionCount \in Nat
  BY DbAssumption, FS_CardinalityType DEF DbAssumption, dbConnectionCount

LEMMA StepType == IInv /\ [Next]_vars => TypeOK'
  <1> SUFFICES ASSUME IInv, [Next]_vars PROVE TypeOK'
    OBVIOUS
  <1> USE DEF IInv
  <1>0. call' \in [Threads -> Call]
    BY AnyStep DEF Others, TypeOK
  <1>1. ASSUME NEW t \in Threads, Enter(t) \/ Start(t) PROVE TypeOK'
    BY <1>0, <1>1 DEF Enter, Start, TypeOK
  <1>2. ASSUME NEW t \in Threads, Acquire(t) PROVE TypeOK'
    BY <1>0, <1>2 DEF Acquire, CanEnter, TypeOK
  <1>3. ASSUME NEW t \in Threads, Take(t) PROVE TypeOK'
    <2>1. dbPool' \in Seq(Links)
      <3>1. CASE dbPool = <<>>
        BY <1>3, <3>1, TakeStep DEF TypeOK
      <3>2. CASE dbPool # <<>>
        <4>1. dbPool' = Tail(dbPool)
          BY <1>3, <3>2, TakeStep
        <4> QED
          BY <3>2, <4>1 DEF TypeOK
      <3> QED
        BY <3>1, <3>2
    <2> QED
      BY <1>0, <1>3, <2>1 DEF Take, TypeOK
  <1>4. ASSUME NEW t \in Threads, Change(t) PROVE TypeOK'
    <2>1. locked' \in [Threads -> SUBSET Rows]
      BY <1>4 DEF Change, Affected, TypeOK
    <2> QED
      BY <1>0, <1>4, <2>1 DEF Change, TypeOK
  <1>5. ASSUME NEW t \in Threads, Commit(t) PROVE TypeOK'
    <2>1. locked' \in [Threads -> SUBSET Rows]
      BY <1>5 DEF Commit, TypeOK
    <2>2. friend' \in [Rows -> {"none", "requested", "friends"}]
      BY <1>5 DEF Commit, TypeOK
    <2> QED
      BY <1>0, <1>5, <2>1, <2>2 DEF Commit, TypeOK
  <1>6. ASSUME NEW t \in Threads, Return(t) PROVE TypeOK'
    <2>1. CallOK(t) /\ Holds(t)
      BY <1>6 DEF Return, At, Holds
    <2>2. call[t].conn \in Links
      BY <2>1 DEF CallOK, TypeOK, Call
    <2>3. dbPool' \in Seq(Links) /\ semaphore' \in Nat
      BY <1>6, <2>2 DEF Return, Released, TypeOK
    <2> QED
      BY <1>0, <1>6, <2>3 DEF Return, TypeOK
  <1>7. ASSUME NEW c \in Links, LoseLink(c) PROVE TypeOK'
    <2>1. locked' \in [Threads -> SUBSET Rows]
      BY <1>7 DEF LoseLink, TypeOK
    <2> QED
      BY <1>0, <1>7, <2>1 DEF LoseLink, TypeOK
  <1>8. CASE UNCHANGED vars
    BY <1>8 DEF vars, TypeOK
  <1> QED
    BY <1>1, <1>2, <1>3, <1>4, <1>5, <1>6, <1>7, <1>8, AnyStep

----------------------------------------------------------------------------
(* A connection moves from the front of the pool to the caller, and from    *)
(* the caller to the end of the pool: it is never in two places.            *)
LEMMA StepLinks == IInv /\ [Next]_vars => PoolOnce' /\ Outside' /\ OneUser'
  <1> SUFFICES ASSUME IInv, [Next]_vars PROVE PoolOnce' /\ Outside' /\ OneUser'
    OBVIOUS
  <1> USE DEF IInv
  <1>0. dbPool \in Seq(Links) /\ None \notin Links /\ \A t \in Threads : CallOK(t)
    BY DbAssumption DEF DbAssumption, TypeOK
  <1>1. ASSUME UNCHANGED dbPool,
               \A s \in Threads : Holds(s)' => Holds(s) /\ call'[s].conn = call[s].conn
        PROVE  PoolOnce' /\ Outside' /\ OneUser'
    BY <1>1 DEF PoolOnce, Outside, OneUser
  <1>2. ASSUME NEW t \in Threads, Enter(t) PROVE PoolOnce' /\ Outside' /\ OneUser'
    <2>1. UNCHANGED dbPool /\ ~Holds(t)' /\ Others(t)
      BY <1>2, EnterStep DEF Enter, Holds
    <2> QED
      BY <1>1, <2>1, OtherCalls
  <1>3. ASSUME NEW t \in Threads, Acquire(t) PROVE PoolOnce' /\ Outside' /\ OneUser'
    <2>1. Becomes(t, "take", call[t].conn, call[t].ok, call[t].applied) /\ UNCHANGED dbPool
      BY <1>3, GotoStep DEF Acquire, Steps
    <2>2. Others(t) /\ ~Holds(t)'
      BY <2>1 DEF Becomes, Holds
    <2> QED
      BY <1>1, <2>1, <2>2, OtherCalls
  <1>4. ASSUME NEW t \in Threads, Start(t) \/ Change(t) \/ Commit(t)
        PROVE  PoolOnce' /\ Outside' /\ OneUser'
    <2>1. Others(t) /\ call'[t].conn = call[t].conn /\ UNCHANGED dbPool
      <3>1. CASE Start(t)
        BY <3>1, StartStep DEF Start, Becomes
      <3>2. CASE Change(t)
        BY <3>2, GotoStep DEF Change, Becomes, Steps
      <3>3. CASE Commit(t)
        BY <3>3, CommitStep DEF Commit, Becomes
      <3> QED
        BY <1>4, <3>1, <3>2, <3>3
    <2>2. Holds(t)
      BY <1>4 DEF Start, Change, Commit, At, Holds
    <2> QED
      BY <1>1, <2>1, <2>2, OtherCalls
  <1>5. ASSUME NEW t \in Threads, Take(t), dbPool = <<>> PROVE PoolOnce' /\ Outside' /\ OneUser'
    <2>1. Others(t) /\ call'[t] = Idle /\ UNCHANGED dbPool
      BY <1>5, TakeStep
    <2>2. ~Holds(t)'
      BY <2>1, IdleType DEF Holds
    <2> QED
      BY <1>1, <2>1, <2>2, OtherCalls
  <1>6. ASSUME NEW t \in Threads, Take(t), dbPool # <<>> PROVE PoolOnce' /\ Outside' /\ OneUser'
    <2>1. Others(t) /\ dbPool' = Tail(dbPool) /\ call'[t].conn = Head(dbPool)
      BY <1>6, TakeStep DEF Becomes
    <2>2. /\ Len(dbPool') = Len(dbPool) - 1 /\ Len(dbPool) \in Nat
          /\ \A i \in 1 .. Len(dbPool') : dbPool'[i] = dbPool[i + 1] /\ i + 1 \in 2 .. Len(dbPool)
      BY <1>0, <1>6, <2>1
    <2>3. Head(dbPool) = dbPool[1] /\ 1 \in 1 .. Len(dbPool)
      BY <1>0, <1>6
    <2>4. PoolOnce'
      BY <2>2 DEF PoolOnce
    <2>5. \A s \in Threads \ {t} : Holds(s) => dbPool[1] # call[s].conn
      BY <2>3 DEF Outside
    <2>6. \A i \in 1 .. Len(dbPool') : dbPool'[i] # dbPool[1]
      BY <2>2, <2>3 DEF PoolOnce
    <2>7. ASSUME NEW s \in Threads, Holds(s)', NEW i \in 1 .. Len(dbPool') PROVE dbPool'[i] # call'[s].conn
      <3>1. CASE s = t
        BY <2>1, <2>3, <2>6, <3>1
      <3>2. CASE s # t
        <4>1. Holds(s) /\ call'[s].conn = call[s].conn
          BY <2>1, <2>7, <3>2, OtherCalls
        <4>2. i + 1 \in 1 .. Len(dbPool) /\ dbPool'[i] = dbPool[i + 1]
          BY <2>2
        <4> QED
          BY <4>1, <4>2 DEF Outside
      <3> QED
        BY <3>1, <3>2
    <2>8. Outside'
      BY <2>7 DEF Outside
    <2>9. OneUser'
      BY <2>1, <2>3, <2>5, OtherCalls DEF OneUser
    <2> QED
      BY <2>4, <2>8, <2>9
  <1>7. ASSUME NEW t \in Threads, Return(t) PROVE PoolOnce' /\ Outside' /\ OneUser'
    <2>0. Others(t) /\ call'[t] = Idle /\ At(t, "return") /\ dbPool' = Append(dbPool, call[t].conn)
      BY <1>7, ReturnStep DEF Return
    <2>1. /\ Others(t) /\ ~Holds(t)' /\ Holds(t)
          /\ dbPool' = Append(dbPool, call[t].conn) /\ call[t].conn \in Links
      <3>1. ~Holds(t)'
        BY <2>0, IdleType DEF Holds
      <3>2. Holds(t) /\ call[t].conn # None
        BY <1>0, <2>0 DEF Holds, At, CallOK
      <3>3. call[t].conn \in Links
        BY <3>2 DEF TypeOK, Call
      <3> QED
        BY <2>0, <3>1, <3>2, <3>3
    <2>2. /\ Len(dbPool') = Len(dbPool) + 1 /\ Len(dbPool) \in Nat
          /\ dbPool'[Len(dbPool) + 1] = call[t].conn
          /\ \A i \in 1 .. Len(dbPool) : dbPool'[i] = dbPool[i]
      BY <1>0, <2>1
    <2>3. \A i \in 1 .. Len(dbPool) : dbPool[i] # call[t].conn
      BY <2>1 DEF Outside
    <2>4. PoolOnce'
      BY <2>2, <2>3 DEF PoolOnce
    <2>5. ASSUME NEW s \in Threads, Holds(s)', NEW i \in 1 .. Len(dbPool') PROVE dbPool'[i] # call'[s].conn
      <3>1. s # t /\ Holds(s) /\ call'[s].conn = call[s].conn
        BY <2>1, <2>5, OtherCalls
      <3>2. call[s].conn # call[t].conn
        BY <2>1, <3>1 DEF OneUser
      <3> QED
        BY <2>2, <3>1, <3>2 DEF Outside
    <2>6. Outside'
      BY <2>5 DEF Outside
    <2>7. OneUser'
      BY <2>1, OtherCalls DEF OneUser
    <2> QED
      BY <2>4, <2>6, <2>7
  <1>8. ASSUME call' = call, UNCHANGED dbPool PROVE PoolOnce' /\ Outside' /\ OneUser'
    BY <1>1, <1>8 DEF Holds
  <1> QED
    BY <1>2, <1>3, <1>4, <1>5, <1>6, <1>7, <1>8, AnyStep DEF LoseLink, vars
----------------------------------------------------------------------------
(* One caller begins or stops to be between the semaphore and the pool.     *)
LEMMA TakersCount ==
  ASSUME NEW c, NEW d, NEW t \in Threads, \A s \in Threads \ {t} : d[s] = c[s]
  PROVE  /\ Cardinality(Takers(c)) \in Nat /\ Cardinality(Takers(d)) \in Nat
         /\ (c[t].at = "take" <=> d[t].at = "take") =>
              Cardinality(Takers(d)) = Cardinality(Takers(c))
         /\ c[t].at # "take" /\ d[t].at = "take" =>
              Cardinality(Takers(d)) = Cardinality(Takers(c)) + 1
         /\ c[t].at = "take" /\ d[t].at # "take" =>
              /\ Cardinality(Takers(d)) = Cardinality(Takers(c)) - 1
              /\ Cardinality(Takers(c)) > 0
  <1>0. IsFiniteSet(Threads) /\ Takers(c) \subseteq Threads /\ Takers(d) \subseteq Threads
    BY DbAssumption DEF DbAssumption, Takers
  <1>1. IsFiniteSet(Takers(c)) /\ IsFiniteSet(Takers(d))
    BY <1>0, FS_Subset
  <1>2. Cardinality(Takers(c)) \in Nat /\ Cardinality(Takers(d)) \in Nat
    BY <1>1, FS_CardinalityType
  <1>3. ASSUME c[t].at = "take" <=> d[t].at = "take"
        PROVE  Takers(d) = Takers(c)
    BY <1>3 DEF Takers
  <1>4. ASSUME c[t].at # "take", d[t].at = "take"
        PROVE  Cardinality(Takers(d)) = Cardinality(Takers(c)) + 1
    <2>1. Takers(d) = Takers(c) \union {t} /\ t \notin Takers(c)
      BY <1>4 DEF Takers
    <2> QED
      BY <1>1, <2>1, FS_AddElement
  <1>5. ASSUME c[t].at = "take", d[t].at # "take"
        PROVE  Cardinality(Takers(c)) = Cardinality(Takers(d)) + 1
    <2>1. Takers(c) = Takers(d) \union {t} /\ t \notin Takers(d)
      BY <1>5 DEF Takers
    <2> QED
      BY <1>1, <2>1, FS_AddElement
  <1>6. c[t].at = "take" /\ d[t].at # "take" =>
          /\ Cardinality(Takers(d)) = Cardinality(Takers(c)) - 1
          /\ Cardinality(Takers(c)) > 0
    BY <1>2, <1>5
  <1> QED
    BY <1>2, <1>3, <1>4, <1>6

(* How a step moves permits and connections: not at all; a permit goes to a *)
(* caller; a caller turns his permit into a connection; or keeps it and     *)
(* goes, having found the pool empty; or gives both back.                   *)
Moves(n, k, m, more, fewer, left) ==
  \/ more = n /\ fewer = k /\ left = m
  \/ n > 0 /\ more = n - 1 /\ fewer = k + 1 /\ left = m
  \/ k > 0 /\ m > 0 /\ more = n /\ fewer = k - 1 /\ left = m - 1
  \/ k > 0 /\ m = 0 /\ more = n /\ fewer = k - 1 /\ left = 0
  \/ more = n + 1 /\ fewer = k /\ left = m + 1

LEMMA StepMoves ==
  ASSUME IInv, [Next]_vars
  PROVE  Moves(semaphore, Cardinality(Takers(call)), Len(dbPool),
               semaphore', Cardinality(Takers(call')), Len(dbPool'))
  <1> DEFINE Goal == Moves(semaphore, Cardinality(Takers(call)), Len(dbPool),
                           semaphore', Cardinality(Takers(call')), Len(dbPool'))
  <1> USE DEF IInv
  <1>1. dbPool \in Seq(Links) /\ semaphore \in Nat /\ Len(dbPool) \in Nat
    BY DEF TypeOK
  <1>4. ASSUME NEW t \in Threads, Enter(t) \/ Start(t) \/ Change(t) \/ Commit(t), Others(t)
        PROVE  Goal
    <2>1. call[t].at # "take" /\ UNCHANGED <<semaphore, dbPool>>
      BY <1>4 DEF Enter, Start, Change, Commit, At
    <2>2. call'[t].at # "take"
      <3>1. CASE Enter(t)
        BY <3>1, EnterStep
      <3>2. CASE Start(t)
        BY <3>2, StartStep DEF Becomes
      <3>3. CASE Change(t)
        BY <3>3, GotoStep DEF Change, Becomes, Steps
      <3>4. CASE Commit(t)
        BY <3>4, CommitStep DEF Becomes
      <3> QED
        BY <1>4, <3>1, <3>2, <3>3, <3>4
    <2>3. Cardinality(Takers(call')) = Cardinality(Takers(call))
      BY <1>4, <2>1, <2>2, TakersCount DEF Others
    <2> QED
      BY <2>1, <2>3 DEF Moves
  <1>5. ASSUME NEW t \in Threads, Acquire(t), Others(t)
        PROVE  Goal
    <2>1. /\ call[t].at # "take" /\ call'[t].at = "take"
          /\ semaphore > 0 /\ semaphore' = semaphore - 1 /\ UNCHANGED dbPool
      BY <1>5, GotoStep DEF Acquire, CanEnter, At, Becomes, Steps
    <2>2. Cardinality(Takers(call')) = Cardinality(Takers(call)) + 1
      BY <1>5, <2>1, TakersCount DEF Others
    <2> QED
      BY <2>1, <2>2 DEF Moves
  <1>6. ASSUME NEW t \in Threads, Take(t), Others(t)
        PROVE  Goal
    <2>1. call[t].at = "take" /\ UNCHANGED semaphore
      BY <1>6 DEF Take, At
    <2>2. call'[t].at # "take"
      BY <1>6, TakeStep, IdleType DEF Becomes
    <2>3. /\ Cardinality(Takers(call')) = Cardinality(Takers(call)) - 1
          /\ Cardinality(Takers(call)) > 0
      BY <1>6, <2>1, <2>2, TakersCount DEF Others
    <2>4. \/ Len(dbPool) = 0 /\ Len(dbPool') = 0
          \/ Len(dbPool) > 0 /\ Len(dbPool') = Len(dbPool) - 1
      BY <1>1, <1>6, TakeStep
    <2> QED
      BY <2>1, <2>3, <2>4 DEF Moves
  <1>7. ASSUME NEW t \in Threads, Return(t), Others(t)
        PROVE  Goal
    <2>1. /\ call[t].at # "take" /\ semaphore' = semaphore + 1
          /\ dbPool' = Append(dbPool, call[t].conn)
      BY <1>7 DEF Return, At, Released
    <2>2. call'[t].at # "take"
      BY <1>7, ReturnStep, IdleType
    <2>3. Cardinality(Takers(call')) = Cardinality(Takers(call))
      BY <1>7, <2>1, <2>2, TakersCount DEF Others
    <2>4. Len(dbPool') = Len(dbPool) + 1
      BY <1>1, <2>1
    <2> QED
      BY <2>1, <2>3, <2>4 DEF Moves
  <1>8. ASSUME call' = call, UNCHANGED <<semaphore, dbPool>>
        PROVE  Goal
    BY <1>8 DEF Moves
  <1> HIDE DEF Goal
  <1>9. Goal
    BY <1>4, <1>5, <1>6, <1>7, <1>8, AnyStep DEF LoseLink, vars
  <1> QED
    BY <1>9 DEF Goal

LEMMA MovesKeep ==
  ASSUME NEW n \in Nat, NEW k \in Nat, NEW m \in Nat, NEW more, NEW fewer, NEW left,
         Moves(n, k, m, more, fewer, left)
  PROVE  /\ n + k = m => more + fewer = left
         /\ n + k >= m => more + fewer >= left
  BY DEF Moves

LEMMA StepPermits == IInv /\ [Next]_vars => Permits' /\ Reach'
  <1> SUFFICES ASSUME IInv, [Next]_vars PROVE Permits' /\ Reach'
    OBVIOUS
  <1>1. semaphore \in Nat /\ Len(dbPool) \in Nat /\ Cardinality(Takers(call)) \in Nat
    <2>1. Takers(call) \subseteq Threads /\ IsFiniteSet(Threads)
      BY DbAssumption DEF DbAssumption, Takers
    <2> QED
      BY <2>1, FS_Subset, FS_CardinalityType DEF IInv, TypeOK
  <1>2. poolSize' = poolSize
    BY AnyStep DEF IInv, Enter, Acquire, Take, Start, Change, Commit, Return, LoseLink, vars
  <1> DEFINE n == semaphore
             k == Cardinality(Takers(call))
             m == Len(dbPool)
             more == semaphore'
             fewer == Cardinality(Takers(call'))
             left == Len(dbPool')
  <1>3. Moves(n, k, m, more, fewer, left) /\ n \in Nat /\ k \in Nat /\ m \in Nat
    BY <1>1, StepMoves
  <1>4. n + k >= m /\ (poolSize = dbConnectionCount => n + k = m)
    BY DEF IInv, Reach, Permits
  <1> HIDE DEF n, k, m, more, fewer, left
  <1>5. more + fewer >= left /\ (poolSize = dbConnectionCount => more + fewer = left)
    BY <1>3, <1>4, MovesKeep
  <1> QED
    BY <1>2, <1>5 DEF Permits, Reach, dbConnectionCount, more, fewer, left

----------------------------------------------------------------------------
(* Rows of a pair.                                                          *)
LEMMA MirrorRows ==
  ASSUME NEW r \in Rows
  PROVE  Mirror(r) \in Rows /\ Mirror(Mirror(r)) = r
  BY DEF Rows, Mirror

LEMMA PairRows ==
  ASSUME NEW u, NEW v, NEW r \in BothWays(u, v)
  PROVE  Mirror(r) \in BothWays(u, v)
  BY DEF BothWays, Mirror

(* What UPDATE and DELETE touch: both rows of the pair or none of them,     *)
(* because the two rows have the same status.                               *)
LEMMA AffectedRows ==
  ASSUME IInv, NEW t \in Threads, NEW r \in Affected(t)
  PROVE  r \in Rows /\ r \in RowsOf(t) /\ Mirror(r) \in Affected(t) /\ friend[r] # "none"
  <1>1. r \in Rows /\ r \in RowsOf(t) /\ friend[r] # "none"
    BY DEF Affected
  <1>2. Mirror(r) \in RowsOf(t) /\ Mirror(r) \in Rows
    BY <1>1, MirrorRows, PairRows DEF RowsOf
  <1>3. friend[Mirror(r)] = friend[r]
    BY <1>1 DEF IInv, Mutual, Mirror
  <1> QED
    BY <1>1, <1>2, <1>3 DEF Affected

LEMMA EnoughRows ==
  ASSUME NEW t \in Threads, Enough(t)
  PROVE  Affected(t) # {}
  <1>1. ASSUME Affected(t) = {} PROVE Cardinality(Affected(t)) = 0
    BY <1>1, FS_EmptySet
  <1> QED
    BY <1>1 DEF Enough

(* A caller who is not in the transaction step has no locked rows, and a    *)
(* step of another one that keeps his rows and theirs keeps all the rest.   *)
LEMMA StepLocks == IInv /\ [Next]_vars => \A s \in Threads : LocksOK(s)'
  <1> SUFFICES ASSUME IInv, [Next]_vars, NEW s \in Threads PROVE LocksOK(s)'
    OBVIOUS
  <1>0. \A q \in Threads : LocksOK(q) /\ CallOK(q) /\ locked[q] \in SUBSET Rows
    BY DEF IInv, TypeOK
  <1>a. TypeOK
    BY DEF IInv
  <1>1. ASSUME NEW t \in Threads, Others(t),
               Enter(t) \/ Acquire(t) \/ Take(t) \/ Start(t) \/ Return(t)
        PROVE  LocksOK(s)'
    <2>1. UNCHANGED <<friend, locked, broken>> /\ ~At(t, "commit")
      BY <1>1 DEF Enter, Acquire, Take, Start, Return, At
    <2>2. locked[t] = {}
      BY <1>0, <2>1 DEF LocksOK
    <2>3. CASE s # t
      <3>1. RowsOf(s)' = RowsOf(s) /\ At(s, "commit")' = At(s, "commit") /\ call'[s] = call[s]
        BY <1>1, <2>3, OtherCalls
      <3> QED
        BY <1>0, <2>1, <3>1 DEF LocksOK
    <2>4. CASE s = t
      <3>1. call'[t].at # "commit"
        <4>1. CASE Enter(t) \/ Return(t)
          BY <1>a, <4>1, EnterStep, ReturnStep, IdleType
        <4>2. CASE Take(t) \/ Start(t)
          BY <1>a, <4>2, TakeStep, StartStep, IdleType DEF Becomes
        <4>3. CASE Acquire(t)
          BY <1>a, <4>3, GotoStep DEF Acquire, Becomes, Steps
        <4> QED
          BY <1>1, <4>1, <4>2, <4>3
      <3> QED
        BY <2>1, <2>2, <2>4, <3>1 DEF LocksOK, At
    <2> QED
      BY <2>3, <2>4
  <1>2. ASSUME NEW t \in Threads, Others(t), Change(t) PROVE LocksOK(s)'
    <2>1. UNCHANGED <<friend, broken>> /\ At(t, "change")
      BY <1>2 DEF Change
    <2>2. locked[t] = {}
      BY <1>0, <2>1 DEF LocksOK, At
    <2>3. CASE Goto(t, "return") /\ UNCHANGED locked
      <3>1. call'[t].at = "return"
        BY <1>a, <2>3, GotoStep DEF Becomes, Steps
      <3>2. CASE s = t
        BY <2>2, <2>3, <3>1, <3>2 DEF LocksOK, At
      <3>3. CASE s # t
        <4>1. RowsOf(s)' = RowsOf(s) /\ At(s, "commit")' = At(s, "commit") /\ call'[s] = call[s]
          BY <1>2, <3>3, OtherCalls
        <4> QED
          BY <1>0, <2>1, <2>3, <4>1 DEF LocksOK
      <3> QED
        BY <3>2, <3>3
    <2>4. CASE Unlocked(t) /\ Enough(t) /\ locked' = [locked EXCEPT ![t] = Affected(t)]
               /\ Goto(t, "commit")
      <3>1. call'[t].at = "commit" /\ RowsOf(t)' = RowsOf(t)
        BY <1>a, <2>4, GotoStep DEF Becomes, Steps, RowsOf
      <3>2. locked'[t] = Affected(t) /\ \A q \in Threads \ {t} : locked'[q] = locked[q]
        BY <1>a, <2>4 DEF TypeOK
      <3>3. \A r \in Affected(t) : r \in RowsOf(t) /\ Mirror(r) \in Affected(t) /\ friend[r] # "none"
        BY AffectedRows
      <3>4. \A q \in Threads \ {t} : locked[q] \intersect Affected(t) = {}
        BY <2>4, <3>3 DEF Unlocked
      <3>5. CASE s = t
        <4>1. locked'[s] # {}
          BY <2>4, <3>2, <3>5, EnoughRows
        <4>2. At(s, "commit")'
          BY <3>1, <3>5 DEF At
        <4> QED
          BY <2>1, <3>1, <3>2, <3>3, <3>4, <3>5, <4>1, <4>2 DEF LocksOK
      <3>6. CASE s # t
        <4>1. RowsOf(s)' = RowsOf(s) /\ At(s, "commit")' = At(s, "commit") /\ call'[s] = call[s]
          BY <1>2, <3>6, OtherCalls
        <4>2. locked'[s] = locked[s] /\ LocksOK(s)
          BY <1>0, <3>2, <3>6
        <4>3. \A q \in Threads \ {s} : locked'[q] \intersect locked'[s] = {}
          BY <3>2, <3>4, <3>6, <4>2 DEF LocksOK
        <4> QED
          BY <2>1, <4>1, <4>2, <4>3 DEF LocksOK
      <3> QED
        BY <3>5, <3>6
    <2> QED
      BY <1>2, <2>3, <2>4 DEF Change
  <1>3. ASSUME NEW t \in Threads, Others(t), Commit(t) PROVE LocksOK(s)'
    <2>1. /\ UNCHANGED broken /\ locked' = [locked EXCEPT ![t] = {}]
          /\ \A r \in Rows : r \notin locked[t] => friend'[r] = friend[r]
      BY <1>3 DEF Commit
    <2>2. call'[t].at = "return"
      BY <1>a, <1>3, CommitStep DEF Becomes
    <2>3. locked'[t] = {} /\ \A q \in Threads \ {t} : locked'[q] = locked[q]
      BY <1>a, <2>1 DEF TypeOK
    <2>4. CASE s = t
      BY <2>2, <2>3, <2>4 DEF LocksOK, At
    <2>5. CASE s # t
      <3>1. RowsOf(s)' = RowsOf(s) /\ At(s, "commit")' = At(s, "commit") /\ call'[s] = call[s]
        BY <1>3, <2>5, OtherCalls
      <3>2. locked'[s] = locked[s] /\ LocksOK(s)
        BY <1>0, <2>3, <2>5
      <3>3. \A r \in locked[s] : friend'[r] = friend[r]
        BY <1>0, <2>1, <2>5 DEF LocksOK
      <3>4. \A q \in Threads \ {s} : locked'[q] \intersect locked'[s] = {}
        BY <2>3, <2>5, <3>2 DEF LocksOK
      <3> QED
        BY <2>1, <3>1, <3>2, <3>3, <3>4 DEF LocksOK
    <2> QED
      BY <2>4, <2>5
  <1>4. ASSUME NEW c \in Links, LoseLink(c) PROVE LocksOK(s)'
    <2>1. /\ call' = call /\ friend' = friend /\ broken' = broken \union {c}
          /\ \A q \in Threads : locked'[q] = IF call[q].conn = c THEN {} ELSE locked[q]
      BY <1>4 DEF LoseLink
    <2>2. RowsOf(s)' = RowsOf(s) /\ At(s, "commit")' = At(s, "commit")
      BY <2>1 DEF RowsOf, At
    <2>3. \A q \in Threads : locked'[q] \subseteq locked[q]
      BY <2>1
    <2>4. \A q \in Threads \ {s} : locked'[q] \intersect locked'[s] = {}
      BY <1>0, <2>3 DEF LocksOK
    <2>5. CASE call[s].conn = c
      BY <2>1, <2>2, <2>4, <2>5 DEF LocksOK
    <2>6. CASE call[s].conn # c
      <3>1. locked'[s] = locked[s]
        BY <2>1, <2>6
      <3> QED
        BY <1>0, <2>1, <2>2, <2>4, <3>1 DEF LocksOK
    <2> QED
      BY <2>5, <2>6
  <1>5. ASSUME UNCHANGED vars PROVE LocksOK(s)'
    <2>1. RowsOf(s)' = RowsOf(s) /\ At(s, "commit")' = At(s, "commit")
      BY <1>5 DEF vars, RowsOf, At
    <2> QED
      BY <1>0, <1>5, <2>1 DEF vars, LocksOK
  <1> QED
    BY <1>a, <1>1, <1>2, <1>3, <1>4, <1>5, AnyStep

(* The rows that COMMIT writes come in pairs, and both get the same status. *)
LEMMA StepMutual == IInv /\ [Next]_vars => Mutual'
  <1> SUFFICES ASSUME IInv, [Next]_vars, NEW r \in Rows PROVE friend'[r] = friend'[<<r[2], r[1]>>]
    BY DEF Mutual, Rows
  <1>1. Mirror(r) = <<r[2], r[1]>> /\ Mirror(r) \in Rows /\ Mirror(Mirror(r)) = r
    BY MirrorRows DEF Mirror
  <1>2. friend[r] = friend[Mirror(r)]
    BY <1>1 DEF IInv, Mutual
  <1>3. ASSUME NEW t \in Threads, Commit(t) PROVE friend'[r] = friend'[Mirror(r)]
    <2>1. \A q \in Rows : friend'[q] = IF q \notin locked[t] THEN friend[q]
                            ELSE IF call[t].op = "AcceptFriend" THEN "friends" ELSE "none"
      BY <1>3 DEF Commit
    <2>2. r \in locked[t] <=> Mirror(r) \in locked[t]
      BY <1>1 DEF IInv, LocksOK
    <2> QED
      BY <1>1, <1>2, <2>1, <2>2
  <1>4. ASSUME UNCHANGED friend PROVE friend'[r] = friend'[Mirror(r)]
    BY <1>2, <1>4
  <1>5. \/ UNCHANGED friend
        \/ \E t \in Threads : Commit(t)
    BY AnyStep DEF IInv, Enter, Acquire, Take, Start, Change, Return, LoseLink, vars
  <1> QED
    BY <1>1, <1>3, <1>4, <1>5

(* A caller that is at COMMIT with no rows left has lost his connection.    *)
LEMMA StepSuccess == IInv /\ [Next]_vars => SuccessMeansApplied'
  <1> SUFFICES ASSUME IInv, [Next]_vars, NEW s \in Threads, call'[s].ok, Transacts(s)'
               PROVE  call'[s].applied \/ call'[s].conn \in broken'
    BY DEF SuccessMeansApplied
  <1>0. TypeOK /\ CallOK(s) /\ LocksOK(s)
    BY DEF IInv
  <1>1. call[s].ok /\ Transacts(s) => call[s].applied \/ call[s].conn \in broken
    BY DEF IInv, SuccessMeansApplied
  <1>2. broken \subseteq broken'
    BY <1>0, AnyStep DEF Enter, Acquire, Take, Start, Change, Commit, Return, LoseLink, vars
  <1>3. CASE call'[s] = call[s]
    BY <1>1, <1>2, <1>3 DEF Transacts
  <1>4. CASE Enter(s) \/ Return(s)
    BY <1>0, <1>4, EnterStep, ReturnStep, IdleType
  <1>5. CASE Acquire(s)
    BY <1>0, <1>5, GotoStep DEF Acquire, Becomes, Steps, At, CallOK
  <1>6. CASE Take(s)
    BY <1>0, <1>6, TakeStep, IdleType DEF Take, Becomes, At, CallOK
  <1>7. CASE Start(s)
    BY <1>0, <1>7, StartStep DEF Start, Becomes, At, CallOK, Transacts
  <1>8. CASE Change(s)
    BY <1>0, <1>8, GotoStep DEF Change, Becomes, Steps, At, CallOK
  <1>9. CASE Commit(s)
    <2>1. PICK applied \in BOOLEAN : /\ applied <=> locked[s] # {}
                                     /\ Becomes(s, "return", call[s].conn, TRUE, applied)
      BY <1>0, <1>9, CommitStep
    <2>2. locked[s] # {} \/ call[s].conn \in broken
      BY <1>0, <1>9 DEF Commit, LocksOK
    <2> QED
      BY <1>2, <2>1, <2>2 DEF Becomes
  <1> QED
    BY <1>0, <1>3, <1>4, <1>5, <1>6, <1>7, <1>8, <1>9, AnyStep DEF Others

----------------------------------------------------------------------------
LEMMA InitInv == Init => IInv
  <1> SUFFICES ASSUME Init PROVE IInv
    OBVIOUS
  <1>1. PICK order \in [1 .. poolSize -> Links] :
          /\ \A i, j \in 1 .. poolSize : order[i] = order[j] => i = j
          /\ dbPool = order
    BY DEF Init
  <1>2. poolSize \in Nat /\ poolSize \in 0 .. dbConnectionCount
    BY CountType DEF Init
  <1>3. dbPool \in Seq(Links) /\ Len(dbPool) = poolSize
    <2>1. dbPool \in Seq(Links)
      BY <1>1, <1>2, SeqDef
    <2>2. DOMAIN dbPool = 1 .. poolSize /\ DOMAIN dbPool = 1 .. Len(dbPool) /\ Len(dbPool) \in Nat
      BY <1>1, <2>1
    <2> QED
      BY <1>2, <2>1, <2>2
  <1>4. \A t \in Threads : call[t] = Idle /\ locked[t] = {}
    BY DEF Init
  <1>5. TypeOK
    <2>1. call \in [Threads -> Call] /\ locked \in [Threads -> SUBSET Rows]
      BY IdleType DEF Init
    <2>2. friend \in [Rows -> {"none", "requested", "friends"}] /\ broken = {}
      BY DEF Init
    <2>3. semaphore \in Nat
      BY CountType DEF Init, InitialPermits
    <2> QED
      BY <1>2, <1>3, <2>1, <2>2, <2>3 DEF TypeOK
  <1>6. \A t \in Threads : CallOK(t) /\ LocksOK(t) /\ ~Holds(t)
    BY <1>4, IdleType DEF CallOK, LocksOK, Holds, At
  <1>7. PoolOnce /\ Outside /\ OneUser
    BY <1>1, <1>3, <1>6 DEF PoolOnce, Outside, OneUser
  <1>8. Permits /\ Reach
    <2>1. Takers(call) = {}
      BY <1>4, IdleType DEF Takers
    <2>2. Cardinality(Takers(call)) = 0
      BY <2>1, FS_EmptySet
    <2>3. semaphore = dbConnectionCount
      BY DEF Init, InitialPermits
    <2> QED
      BY <1>2, <1>3, <2>2, <2>3, CountType DEF Permits, Reach
  <1>9. Mutual /\ SuccessMeansApplied
    <2>1. Mutual
      BY DEF Init, Mutual
    <2>2. SuccessMeansApplied
      BY <1>4, IdleType DEF SuccessMeansApplied
    <2> QED
      BY <2>1, <2>2
  <1> QED
    BY <1>5, <1>6, <1>7, <1>8, <1>9 DEF IInv

LEMMA StepInv == IInv /\ [Next]_vars => IInv'
  BY StepType, StepCalls, StepLocks, StepLinks, StepPermits, StepMutual, StepSuccess DEF IInv

(* Every variable keeps its type: the pool only ever holds connections, and *)
(* the semaphore is never driven below zero.                                *)
THEOREM TypeCorrect == Spec => []TypeOK
  <1>1. IInv => TypeOK
    BY DEF IInv
  <1> QED
    BY InitInv, StepInv, <1>1, PTL DEF Spec

(* What PoolOnce, Outside and OneUser say of the two counts.                *)
LEMMA OwnedOnce == IInv => LinkOwned
  <1> SUFFICES ASSUME IInv, NEW c \in Links
               PROVE  Cardinality({i \in DOMAIN dbPool : dbPool[i] = c}) + Cardinality(Holders(c)) <= 1
    BY DEF LinkOwned
  <1> DEFINE places == {i \in DOMAIN dbPool : dbPool[i] = c}
  <1>1. DOMAIN dbPool = 1 .. Len(dbPool) /\ None \notin Links
    BY DbAssumption DEF IInv, TypeOK, DbAssumption
  <1>2. \A t \in Holders(c) : t \in Threads /\ Holds(t) /\ call[t].conn = c
    BY <1>1 DEF IInv, CallOK, Holders
  <1>3. places = {} \/ \E i : places = {i}
    <2>1. \A i, j \in places : i = j
      BY <1>1 DEF IInv, PoolOnce
    <2> QED
      BY <2>1
  <1>4. Holders(c) = {} \/ \E t : Holders(c) = {t}
    <2>1. \A s, t \in Holders(c) : s = t
      BY <1>2 DEF IInv, OneUser
    <2> QED
      BY <2>1
  <1>5. places = {} \/ Holders(c) = {}
    <2>1. \A i \in places, t \in Holders(c) : FALSE
      BY <1>1, <1>2 DEF IInv, Outside
    <2> QED
      BY <2>1
  <1>6. /\ Cardinality(places) \in {0, 1} /\ Cardinality(Holders(c)) \in {0, 1}
        /\ Cardinality(places) = 0 \/ Cardinality(Holders(c)) = 0
    BY <1>3, <1>4, <1>5, FS_EmptySet, FS_Singleton
  <1> HIDE DEF places
  <1>7. Cardinality(places) + Cardinality(Holders(c)) <= 1
    BY <1>6
  <1> QED
    BY <1>7 DEF places

(* A connection is in the pool once, or used by one caller, whatever order  *)
(* the callers go through the semaphore, the pool and ~AutoConn in.         *)
THEOREM LinkIsOwned == Spec => []LinkOwned
  BY InitInv, StepInv, OwnedOnce, PTL DEF Spec

(* With a full pool, a caller that was given a permit finds a connection:   *)
(* the semaphore and the pool agree at every step of every caller.          *)
LEMMA PermitIsGood == IInv => PermitHasLink
  <1> SUFFICES ASSUME IInv, poolSize = dbConnectionCount, NEW t \in Threads, call[t].at = "take"
               PROVE  dbPool # <<>>
    BY DEF PermitHasLink, At
  <1>1. semaphore + Cardinality(Takers(call)) = Len(dbPool) /\ semaphore \in Nat
    BY DEF IInv, Permits, TypeOK
  <1>2. IsFiniteSet(Takers(call))
    <2>1. Takers(call) \subseteq Threads /\ IsFiniteSet(Threads)
      BY DbAssumption DEF DbAssumption, Takers
    <2> QED
      BY <2>1, FS_Subset
  <1>3. Takers(call) # {}
    BY DEF Takers
  <1>4. Cardinality(Takers(call)) \in Nat /\ Cardinality(Takers(call)) # 0
    BY <1>2, <1>3, FS_CardinalityType, FS_EmptySet
  <1>5. Len(dbPool) # 0
    BY <1>1, <1>4
  <1> QED
    BY <1>5

(* When init opened every connection, a caller that the semaphore let in    *)
(* finds one in dbPool, although permit and connection are taken and given  *)
(* back in two steps (MySQLManager.cpp:8-19, DBConfig.h:32-36).             *)
THEOREM PermitsAreGood == Spec => []PermitHasLink
  BY InitInv, StepInv, PermitIsGood, PTL DEF Spec

(* The two rows of a pair have the same status in every committed state,    *)
(* for any mix of calls that overlap, fail half way or lose a connection.   *)
THEOREM FriendshipIsMutual == Spec => []Mutual
  <1>1. IInv => Mutual
    BY DEF IInv
  <1> QED
    BY InitInv, StepInv, <1>1, PTL DEF Spec

(* A call that reports success has changed the table or lost its connection *)
(* before COMMIT, whose result is not looked at (MySQLManager.cpp).         *)
THEOREM SuccessIsApplied == Spec => []SuccessMeansApplied
  <1>1. IInv => SuccessMeansApplied
    BY DEF IInv
  <1> QED
    BY InitInv, StepInv, <1>1, PTL DEF Spec

(* However few connections init opened, the permits that callers keep when  *)
(* they find the pool empty (MySQLManager.cpp:54-58) leave one for every    *)
(* connection in the pool: the leak ends when it has used up the surplus.   *)
THEOREM PermitsReachLinks == Spec => []PermitForEachLink
  <1>1. IInv => PermitForEachLink
    BY DEF IInv, Reach, Takers, PermitForEachLink, At
  <1> QED
    BY InitInv, StepInv, <1>1, PTL DEF Spec
=============================================================================
