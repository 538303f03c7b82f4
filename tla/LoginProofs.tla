---------------------------- MODULE LoginProofs ----------------------------
(***************************************************************************)
(* Proofs about Login, for any number of users, tokens, connections and    *)
(* threads, in two parts:                                                  *)
(*   1. types, how often a token is spent, and what is left in Redis;      *)
(*   2. what a session, a presence key and the last notice to a user's     *)
(*      friends say of him is true.                                        *)
(***************************************************************************)
EXTENDS Login, FiniteSetTheorems, TLAPS

USE LoginAssumption DEF LoginAssumption

Calls == [step : Steps, conn : Conns \union {None}, client : Users \union {None},
          user : Users \union {None}, token : Tokens \union {None}]

Packet == [conn : Conns, token : Tokens]

(* The parts of TypeOK.                                                     *)
RedisTypes ==
  /\ token \in [Tokens -> {"unissued", "valid", "gone"}]
  /\ uses \in [Tokens -> Nat]
  /\ presence \in [Users -> {"absent", "bare", "timed"}]
  /\ told \in [Users -> {"nothing", "online", "offline"}]

ClientTypes ==
  /\ waiting \in Seq(Packet) /\ Len(waiting) <= MaxWaiting
  /\ peer \in [Conns -> Users \union {None}]
  /\ owed \subseteq Conns \X Users
  /\ crossed \subseteq Conns /\ disturbed \subseteq Users

CallTypes == call \in [Threads -> Calls]

UserTypes ==
  /\ welcomed \subseteq Conns
  /\ userPk \in [Conns -> Users \union {None}]
  /\ friendPks \in [Conns -> Users \union {None}]
  /\ directory \in [Users -> Conns \union {None}]

FaultTypes == alive \in BOOLEAN /\ faults \in 0 .. MaxFaults

(* A thread that is in a handler, and only such a thread, works for a       *)
(* connection; a redis thread works for a token and its owner.              *)
CallsMeanIt ==
  \A t \in Threads : call[t].step # "idle" =>
    /\ call[t].conn \in Conns /\ call[t].client \in Users
    /\ t \in RedisThreads =>
         /\ call[t].token \in Tokens
         /\ call[t].user = Owner[call[t].token] /\ call[t].client = call[t].user
         /\ call[t].step \notin {"offline", "forget", "erase"}
    /\ t \in Workers => call[t].step \in {"offline", "forget", "erase"}

Typed == RedisTypes /\ ClientTypes /\ CallTypes /\ UserTypes /\ FaultTypes /\ CallsMeanIt

LEMMA TypedIsTypeOK == Typed <=> TypeOK /\ CallsMeanIt
  BY DEF Typed, RedisTypes, ClientTypes, CallTypes, UserTypes, FaultTypes, TypeOK, Calls, Packet

LEMMA InitTyped == Init => Typed
<1> SUFFICES ASSUME Init PROVE Typed
  OBVIOUS
<1> USE DEF Init
<1>1. RedisTypes
  BY DEF RedisTypes
<1>2. ClientTypes
  BY DEF ClientTypes
<1>3. CallTypes
  BY DEF CallTypes, Calls, Idle, Steps
<1>4. UserTypes
  BY DEF UserTypes
<1>5. FaultTypes
  BY DEF FaultTypes
<1>6. CallsMeanIt
  BY DEF CallsMeanIt, Idle
<1>7. QED
  BY <1>1, <1>2, <1>3, <1>4, <1>5, <1>6 DEF Typed

----------------------------------------------------------------------------
(* Moves of one call. *)
LEMMA GotoTyped ==
  ASSUME CallTypes, CallsMeanIt, NEW t \in Threads, NEW step \in Steps \ {"idle"},
         call[t].step # "idle", Goto(t, step),
         t \in RedisThreads => step \notin {"offline", "forget", "erase"},
         t \in Workers => step \in {"offline", "forget", "erase"}
  PROVE  CallTypes' /\ CallsMeanIt'
<1>1. \A u \in Threads : call'[u] = IF u = t THEN [call[t] EXCEPT !.step = step] ELSE call[u]
  BY DEF Goto, CallTypes
<1>2. [call[t] EXCEPT !.step = step] \in Calls
  BY DEF CallTypes, Calls
<1>3. CallTypes'
  BY <1>2 DEF Goto, CallTypes
<1>4. CallsMeanIt'
  BY <1>1 DEF CallsMeanIt, CallTypes, Calls
<1>5. QED
  BY <1>3, <1>4

LEMMA ReturnTyped ==
  ASSUME CallTypes, CallsMeanIt, NEW t \in Threads, Return(t)
  PROVE  CallTypes' /\ CallsMeanIt'
  BY DEF Return, CallTypes, CallsMeanIt, Calls, Idle, Steps

LEMMA SameCallTyped ==
  ASSUME CallTypes, CallsMeanIt, UNCHANGED call
  PROVE  CallTypes' /\ CallsMeanIt'
  BY DEF CallTypes, CallsMeanIt

LEMMA FaultsTyped ==
  ASSUME FaultTypes, Works \/ Fails, alive' \in BOOLEAN
  PROVE  FaultTypes'
  BY DEF FaultTypes, Works, Fails

----------------------------------------------------------------------------
LEMMA EnvironmentTyped == Typed /\ (Environment \/ \E u \in Users : Fade(u)) => Typed'
<1> SUFFICES ASSUME Typed, Environment \/ \E u \in Users : Fade(u) PROVE Typed'
  OBVIOUS
<1>1. CallTypes' /\ CallsMeanIt' /\ FaultTypes'
  BY SameCallTyped DEF Typed, FaultTypes, Environment, Issue, Connect, Request, Disconnect,
     Register, Fade
<1>2. RedisTypes'
  <2>1. ASSUME NEW t \in Tokens, Issue(t) PROVE RedisTypes'
    BY <2>1 DEF Typed, RedisTypes, Issue
  <2>2. ASSUME NEW u \in Users, Fade(u) PROVE RedisTypes'
    BY <2>2 DEF Typed, RedisTypes, Fade
  <2>3. QED
    BY <2>1, <2>2 DEF Typed, RedisTypes, Environment, Connect, Request, Disconnect, Register,
       redisVars
<1>3. ClientTypes'
  <2>1. ASSUME NEW c \in Conns, NEW u \in Users, Connect(c, u) PROVE ClientTypes'
    BY <2>1 DEF Typed, ClientTypes, Connect, historyVars
  <2>2. ASSUME NEW c \in Conns, NEW t \in Tokens, Request(c, t) PROVE ClientTypes'
    <3>1. [conn |-> c, token |-> t] \in Packet
      BY DEF Packet
    <3>2. waiting' \in Seq(Packet) /\ Len(waiting') <= MaxWaiting
      BY <2>2, <3>1 DEF Typed, ClientTypes, Request
    <3>3. QED
      BY <2>2, <3>2 DEF Typed, ClientTypes, Request, historyVars
  <2>3. ASSUME NEW c \in Conns, Disconnect(c) PROVE ClientTypes'
    <3>1. peer[c] \in Users
      BY <2>3 DEF Typed, ClientTypes, Disconnect
    <3>2. QED
      BY <2>3, <3>1 DEF Typed, ClientTypes, Disconnect, historyVars
  <2>4. ASSUME NEW c \in Conns, Register(c) PROVE ClientTypes'
    BY <2>4 DEF Typed, ClientTypes, Register, historyVars, clientVars
  <2>5. ASSUME NEW t \in Tokens, Issue(t) PROVE ClientTypes'
    BY <2>5 DEF Typed, ClientTypes, Issue, historyVars, clientVars
  <2>6. ASSUME NEW u \in Users, Fade(u) PROVE ClientTypes'
    BY <2>6 DEF Typed, ClientTypes, Fade, historyVars, clientVars
  <2>7. QED
    BY <2>1, <2>2, <2>3, <2>4, <2>5, <2>6 DEF Environment
<1>4. UserTypes'
  <2>1. ASSUME NEW c \in Conns, Register(c) PROVE UserTypes'
    BY <2>1 DEF Typed, UserTypes, Register
  <2>2. ASSUME NEW c \in Conns, Disconnect(c) PROVE UserTypes'
    BY <2>2 DEF Typed, UserTypes, Disconnect
  <2>3. QED
    BY <2>1, <2>2 DEF Typed, UserTypes, Environment, Issue, Connect, Request, Fade
<1>5. QED
  BY <1>1, <1>2, <1>3, <1>4 DEF Typed

LEMMA UserConnectTyped ==
  ASSUME Typed, alive, NEW t \in RedisThreads, UserConnect(t)
  PROVE  Typed'
<1> USE DEF Typed
<1>t. t \in Threads /\ t \notin Workers
  BY DEF Threads
<1>1. CASE Enter(t)
  <2> DEFINE c == Head(waiting).conn
             k == Head(waiting).token
  <2>1. c \in Conns /\ k \in Tokens /\ Owner[k] \in Users
    <3>1. waiting \in Seq(Packet) /\ waiting # <<>>
      BY <1>1 DEF Enter, ClientTypes
    <3>2. Head(waiting) \in Packet
      BY <3>1
    <3>3. QED
      BY <3>2 DEF Packet
  <2>2. Tail(waiting) \in Seq(Packet) /\ Len(Tail(waiting)) <= MaxWaiting
    BY <1>1 DEF Enter, ClientTypes
  <2>3. ClientTypes'
    BY <1>1, <2>1, <2>2 DEF Enter, ClientTypes
  <2>4. CallTypes' /\ CallsMeanIt'
    <3> DEFINE new == [step |-> "verify", conn |-> c, client |-> Owner[k],
                       user |-> Owner[k], token |-> k]
    <3>1. call' = [call EXCEPT ![t] = new]
      BY <1>1 DEF Enter
    <3>2. new \in Calls
      BY <2>1 DEF Calls, Steps
    <3>3. \A s \in Threads : call'[s] = IF s = t THEN new ELSE call[s]
      BY <3>1 DEF CallTypes
    <3>4. CallTypes'
      BY <3>1, <3>2 DEF CallTypes
    <3>5. CallsMeanIt'
      BY <3>3, <2>1, <1>t DEF CallsMeanIt
    <3>6. QED
      BY <3>4, <3>5
  <2>5. QED
    BY <1>1, <2>3, <2>4 DEF Enter, RedisTypes, UserTypes, FaultTypes, redisVars
<1>2. ASSUME call[t].step # "idle"
      PROVE  call[t].conn \in Conns /\ call[t].token \in Tokens /\ call[t].user \in Users
  BY <1>2, <1>t DEF CallsMeanIt
<1>3. CASE Verify(t)
  <2>1. CallTypes' /\ CallsMeanIt'
    BY <1>3, <1>t, GotoTyped, ReturnTyped DEF Verify, Refuse, Steps
  <2>2. FaultTypes'
    BY <1>3, FaultsTyped DEF Verify, FaultTypes
  <2>3. QED
    BY <1>3, <2>1, <2>2 DEF Verify, Refuse, RedisTypes, ClientTypes, UserTypes, redisVars,
       clientVars, historyVars
<1>4. CASE Delete(t)
  <2>1. CallTypes' /\ CallsMeanIt'
    BY <1>4, <1>t, GotoTyped, ReturnTyped DEF Delete, Refuse, Steps
  <2>2. FaultTypes'
    BY <1>4, FaultsTyped DEF Delete, FaultTypes
  <2>3. Deleted(call[t].user) \in [Tokens -> {"unissued", "valid", "gone"}]
    BY DEF Deleted, RedisTypes
  <2>4. RedisTypes'
    BY <1>4, <2>3 DEF Delete, RedisTypes
  <2>5. QED
    BY <1>4, <2>1, <2>2, <2>4 DEF Delete, Refuse, ClientTypes, UserTypes, clientVars, historyVars
<1>5. CASE Friends(t)
  <2>1. CallTypes' /\ CallsMeanIt'
    BY <1>5, <1>t, GotoTyped, ReturnTyped DEF Friends, Refuse, Steps
  <2>2. FaultTypes'
    BY <1>5, FaultsTyped DEF Friends, FaultTypes
  <2>3. QED
    BY <1>5, <2>1, <2>2 DEF Friends, Refuse, RedisTypes, ClientTypes, UserTypes, redisVars,
       clientVars, historyVars
<1>6. CASE FriendsAgain(t)
  <2>1. CallTypes' /\ CallsMeanIt'
    BY <1>6, <1>t, GotoTyped, SameCallTyped DEF FriendsAgain, Die, Steps
  <2>2. FaultTypes'
    BY <1>6, FaultsTyped DEF FriendsAgain, FaultTypes, Die, Lives
  <2>3. UserTypes'
    BY <1>6, <1>2 DEF FriendsAgain, UserTypes
  <2>4. QED
    BY <1>6, <2>1, <2>2, <2>3 DEF FriendsAgain, RedisTypes, ClientTypes, redisVars, clientVars,
       historyVars
<1>7. CASE TellOnline(t)
  <2>1. CallTypes' /\ CallsMeanIt'
    BY <1>7, <1>t, GotoTyped DEF TellOnline, Steps
  <2>2. FaultTypes'
    BY <1>7, FaultsTyped DEF TellOnline, FaultTypes
  <2>3. RedisTypes'
    BY <1>7, <1>2 DEF TellOnline, RedisTypes, Published
  <2>4. ClientTypes'
    BY <1>7, <1>2 DEF TellOnline, ClientTypes, clientVars
  <2>5. QED
    BY <1>7, <2>1, <2>2, <2>3, <2>4 DEF TellOnline, UserTypes
<1>8. CASE SetIds(t)
  <2>1. CallTypes' /\ CallsMeanIt'
    BY <1>8, <1>t, GotoTyped DEF SetIds, Steps
  <2>2. UserTypes'
    BY <1>8, <1>2 DEF SetIds, UserTypes, PkSet
  <2>3. QED
    BY <1>8, <2>1, <2>2 DEF SetIds, RedisTypes, ClientTypes, FaultTypes, redisVars, clientVars,
       historyVars
<1>9. CASE Store(t)
  <2>1. CallTypes' /\ CallsMeanIt'
    BY <1>9, <1>t, GotoTyped, SameCallTyped DEF Store, Die, Steps
  <2>2. FaultTypes'
    BY <1>9, FaultsTyped DEF Store, FaultTypes, Die, Lives
  <2>3. Stored(call[t].user) \in [Users -> {"absent", "bare", "timed"}]
    BY DEF Stored, RedisTypes
  <2>4. RedisTypes'
    BY <1>9, <2>3 DEF Store, RedisTypes
  <2>5. QED
    BY <1>9, <2>1, <2>2, <2>4 DEF Store, ClientTypes, UserTypes, clientVars, historyVars
<1>10. CASE Arm(t)
  <2>1. CallTypes' /\ CallsMeanIt'
    BY <1>10, <1>t, GotoTyped, SameCallTyped DEF Arm, Die, Steps
  <2>2. FaultTypes'
    BY <1>10, FaultsTyped DEF Arm, FaultTypes, Die, Lives
  <2>3. Armed(call[t].user) \in [Users -> {"absent", "bare", "timed"}]
    BY DEF Armed, RedisTypes
  <2>4. RedisTypes'
    BY <1>10, <2>3 DEF Arm, RedisTypes
  <2>5. QED
    BY <1>10, <2>1, <2>2, <2>4 DEF Arm, ClientTypes, UserTypes, clientVars, historyVars
<1>11. CASE Answer(t)
  <2>1. CallTypes' /\ CallsMeanIt'
    BY <1>11, <1>t, ReturnTyped DEF Answer, Welcome
  <2>2. UserTypes'
    BY <1>11 DEF Answer, Welcome, UserTypes
  <2>3. QED
    BY <1>11, <2>1, <2>2 DEF Answer, RedisTypes, ClientTypes, FaultTypes, redisVars, clientVars,
       historyVars
<1>12. QED
  BY <1>1, <1>3, <1>4, <1>5, <1>6, <1>7, <1>8, <1>9, <1>10, <1>11 DEF UserConnect

LEMMA UserDisConnectTyped ==
  ASSUME Typed, alive, NEW t \in Workers, UserDisConnect(t)
  PROVE  Typed'
<1> USE DEF Typed
<1>t. t \in Threads /\ t \notin RedisThreads
  BY DEF Threads
<1>1. CASE Leave(t)
  <2>1. PICK left \in owed :
           /\ owed' = owed \ {left}
           /\ call' = [call EXCEPT ![t] = [step |-> "offline", conn |-> left[1],
                                           client |-> left[2], user |-> userPk[left[1]],
                                           token |-> None]]
           /\ disturbed' \subseteq disturbed \union ({userPk[left[1]]} \intersect Users)
                                   \union {left[2]}
    BY <1>1 DEF Leave
  <2>2. left[1] \in Conns /\ left[2] \in Users /\ userPk[left[1]] \in Users \union {None}
    BY DEF ClientTypes, UserTypes
  <2>3. ClientTypes'
    BY <1>1, <2>1, <2>2 DEF Leave, ClientTypes
  <2>4. CallTypes' /\ CallsMeanIt'
    <3> DEFINE new == [step |-> "offline", conn |-> left[1], client |-> left[2],
                       user |-> userPk[left[1]], token |-> None]
    <3>1. new \in Calls
      BY <2>2 DEF Calls, Steps
    <3>2. \A s \in Threads : call'[s] = IF s = t THEN new ELSE call[s]
      BY <2>1 DEF CallTypes
    <3>3. CallTypes'
      BY <2>1, <3>1 DEF CallTypes
    <3>4. CallsMeanIt'
      BY <3>2, <2>2, <1>t DEF CallsMeanIt
    <3>5. QED
      BY <3>3, <3>4
  <2>5. QED
    BY <1>1, <2>3, <2>4 DEF Leave, RedisTypes, UserTypes, FaultTypes, redisVars
<1>2. CASE TellOffline(t)
  <2>1. CallTypes' /\ CallsMeanIt'
    BY <1>2, <1>t, GotoTyped DEF TellOffline, Steps
  <2>2. FaultTypes'
    BY <1>2, FaultsTyped DEF TellOffline, FaultTypes
  <2>3. RedisTypes'
    BY <1>2 DEF TellOffline, RedisTypes, Published
  <2>4. ClientTypes'
    BY <1>2 DEF TellOffline, ClientTypes, clientVars
  <2>5. QED
    BY <1>2, <2>1, <2>2, <2>3, <2>4 DEF TellOffline, UserTypes
<1>3. CASE Forget(t)
  <2>1. CallTypes' /\ CallsMeanIt'
    BY <1>3, <1>t, GotoTyped, SameCallTyped DEF Forget, Die, Steps
  <2>2. FaultTypes'
    BY <1>3, FaultsTyped DEF Forget, FaultTypes, Die, Lives
  <2>3. UserTypes'
    BY <1>3 DEF Forget, UserTypes
  <2>4. QED
    BY <1>3, <2>1, <2>2, <2>3 DEF Forget, RedisTypes, ClientTypes, redisVars, clientVars,
       historyVars
<1>4. CASE Erase(t)
  <2>1. CallTypes' /\ CallsMeanIt'
    BY <1>4, <1>t, ReturnTyped DEF Erase
  <2>2. UserTypes'
    BY <1>4 DEF Erase, UserTypes, Erased
  <2>3. QED
    BY <1>4, <2>1, <2>2 DEF Erase, RedisTypes, ClientTypes, FaultTypes, redisVars, clientVars,
       historyVars
<1>5. QED
  BY <1>1, <1>2, <1>3, <1>4 DEF UserDisConnect

LEMMA StepTyped == Typed /\ [Next]_vars => Typed'
<1> SUFFICES ASSUME Typed, [Next]_vars PROVE Typed'
  OBVIOUS
<1>1. CASE UNCHANGED vars
  BY <1>1 DEF vars, redisVars, clientVars, historyVars, Typed, RedisTypes, ClientTypes,
     CallTypes, UserTypes, FaultTypes, CallsMeanIt
<1>2. CASE Next
  BY <1>2, EnvironmentTyped, UserConnectTyped, UserDisConnectTyped DEF Next, Server
<1>3. QED
  BY <1>1, <1>2

(* The state of the login keeps its types, whichever commands fail and      *)
(* clients leave (RedisManager.cpp:242-310).                                *)
THEOREM TypeCorrect == Spec => []TypeOK
<1>1. Spec => []Typed
  BY InitTyped, StepTyped, PTL DEF Spec
<1>2. QED
  BY <1>1, TypedIsTypeOK, PTL

----------------------------------------------------------------------------
(* The redis threads that have verified a token and not deleted it yet.     *)
Deleting(k) == {t \in RedisThreads : call[t].step = "delete" /\ call[t].token = k}

(* A token that is there was never used; once it is gone, only the threads  *)
(* that have verified it before can still use it, each of them once.        *)
Spending ==
  \A k \in Tokens :
    /\ uses[k] > 0 => token[k] = "gone"
    /\ token[k] = "unissued" => Deleting(k) = {}
    /\ uses[k] + Cardinality(Deleting(k)) <= Cardinality(RedisThreads)

LEMMA DeletingFinite ==
  ASSUME NEW k
  PROVE  /\ IsFiniteSet(Deleting(k)) /\ Cardinality(Deleting(k)) \in Nat
         /\ Cardinality(Deleting(k)) <= Cardinality(RedisThreads)
         /\ Cardinality(RedisThreads) \in Nat
<1>1. Deleting(k) \subseteq RedisThreads
  BY DEF Deleting
<1>2. QED
  BY <1>1, FS_Subset, FS_CardinalityType

LEMMA InitSpending == Init => Spending
<1>1. ASSUME Init, NEW k \in Tokens PROVE uses[k] = 0 /\ Deleting(k) = {}
  BY <1>1 DEF Init, Idle, Deleting, Threads
<1>2. Cardinality({}) = 0 /\ Cardinality(RedisThreads) \in Nat
  BY FS_EmptySet, FS_CardinalityType
<1>3. ASSUME Init, NEW k \in Tokens
      PROVE  uses[k] + Cardinality(Deleting(k)) <= Cardinality(RedisThreads)
  BY <1>1, <1>2, <1>3
<1>4. QED
  BY <1>1, <1>3 DEF Spending

(* Steps that begin no deletion and use no token.                           *)
LEMMA NothingSpent ==
  ASSUME Typed, Spending, NEW k \in Tokens,
         uses'[k] = uses[k], token[k] = "gone" => token'[k] = "gone",
         token'[k] = "unissued" => token[k] = "unissued",
         Deleting(k)' \subseteq Deleting(k)
  PROVE  /\ uses'[k] > 0 => token'[k] = "gone"
         /\ token'[k] = "unissued" => Deleting(k)' = {}
         /\ uses'[k] + Cardinality(Deleting(k)') <= Cardinality(RedisThreads)
<1>1. Cardinality(Deleting(k)') <= Cardinality(Deleting(k)) /\ Cardinality(Deleting(k)') \in Nat
  BY DeletingFinite, FS_Subset, FS_CardinalityType
<1>2. uses[k] \in Nat /\ Cardinality(Deleting(k)) \in Nat
  BY DeletingFinite DEF Typed, RedisTypes
<1>3. uses'[k] + Cardinality(Deleting(k)') <= Cardinality(RedisThreads)
  BY <1>1, <1>2, DeletingFinite DEF Spending
<1>4. QED
  BY <1>3 DEF Spending

(* What a step of one thread does to the threads that are deleting.         *)
LEMMA OtherDeleting ==
  ASSUME CallTypes, NEW t \in Threads, NEW k, call' = [call EXCEPT ![t] = call'[t]],
         ~(call'[t].step = "delete" /\ call'[t].token = k)
  PROVE  Deleting(k)' = Deleting(k) \ {t}
<1>1. \A s \in Threads : s # t => call'[s] = call[s]
  BY DEF CallTypes
<1>2. \A s \in RedisThreads : s \in Threads
  BY DEF Threads
<1>3. QED
  BY <1>1, <1>2 DEF Deleting

LEMMA StepSpending == Typed /\ Spending /\ [Next]_vars => Spending'
<1> SUFFICES ASSUME Typed, Spending, [Next]_vars, NEW k \in Tokens
             PROVE  /\ uses'[k] > 0 => token'[k] = "gone"
                    /\ token'[k] = "unissued" => Deleting(k)' = {}
                    /\ uses'[k] + Cardinality(Deleting(k)') <= Cardinality(RedisThreads)
  BY DEF Spending
<1>1. CASE \/ UNCHANGED vars \/ Environment \/ \E u \in Users : Fade(u)
  <2>1. UNCHANGED <<uses, call>>
    BY <1>1 DEF vars, redisVars, Environment, Issue, Connect, Request, Disconnect, Register, Fade
  <2>2. /\ token[k] = "gone" => token'[k] = "gone"
        /\ token'[k] = "unissued" => token[k] = "unissued"
    <3>1. CASE \E j \in Tokens : Issue(j)
      BY <3>1 DEF Issue, Typed, RedisTypes
    <3>2. CASE UNCHANGED token
      BY <3>2
    <3>3. QED
      BY <1>1, <3>1, <3>2 DEF vars, redisVars, Environment, Connect, Request, Disconnect,
         Register, Fade
  <2>3. Deleting(k)' = Deleting(k)
    BY <2>1 DEF Deleting
  <2>4. QED
    BY <2>1, <2>2, <2>3, NothingSpent
<1>2. ASSUME NEW t \in Workers, UserDisConnect(t)
      PROVE  UNCHANGED <<uses, token>> /\ Deleting(k)' = Deleting(k)
  <2>1. UNCHANGED <<uses, token>> /\ \A s \in RedisThreads : call'[s] = call[s]
    BY <1>2 DEF UserDisConnect, Leave, TellOffline, Forget, Erase, Goto, Return, Die, redisVars,
       Typed, CallTypes, Threads
  <2>2. QED
    BY <2>1 DEF Deleting
<1>3. ASSUME NEW t \in RedisThreads, UserConnect(t), ~Verify(t), ~Delete(t)
      PROVE  UNCHANGED <<uses, token>> /\ Deleting(k)' = Deleting(k) \ {t}
  <2>1. UNCHANGED <<uses, token>>
    BY <1>3 DEF UserConnect, Enter, Friends, FriendsAgain, TellOnline, SetIds, Store, Arm,
       Answer, redisVars
  <2>2. /\ call' = [call EXCEPT ![t] = call'[t]]
        /\ call'[t].step # "delete"
    BY <1>3 DEF UserConnect, Enter, Friends, FriendsAgain, TellOnline, SetIds, Store, Arm,
       Answer, Goto, Return, Refuse, Welcome, Die, Idle, Typed, CallTypes, Calls, Threads
  <2>3. QED
    BY <2>1, <2>2, OtherDeleting DEF Threads, Typed
<1>4. ASSUME NEW t \in RedisThreads, Verify(t)
      PROVE  /\ uses'[k] > 0 => token'[k] = "gone"
             /\ token'[k] = "unissued" => Deleting(k)' = {}
             /\ uses'[k] + Cardinality(Deleting(k)') <= Cardinality(RedisThreads)
  <2>1. UNCHANGED <<uses, token>> /\ call' = [call EXCEPT ![t] = call'[t]] /\ t \in Threads
    BY <1>4 DEF Verify, Goto, Return, Refuse, redisVars, Typed, CallTypes, Threads
  <2>2. CASE call'[t].step = "delete" /\ call'[t].token = k
    <3>1. token[k] = "valid"
      BY <1>4, <2>1, <2>2 DEF Verify, Goto, Return, Refuse, Idle, Typed, CallTypes, Calls
    <3>2. uses[k] = 0
      BY <3>1 DEF Spending, Typed, RedisTypes
    <3>3. Cardinality(Deleting(k)') <= Cardinality(RedisThreads) /\ Cardinality(Deleting(k)') \in Nat
      <4>1. Deleting(k)' \subseteq RedisThreads
        BY DEF Deleting
      <4>2. QED
        BY <4>1, FS_Subset, FS_CardinalityType
    <3>4. QED
      BY <2>1, <3>1, <3>2, <3>3
  <2>3. CASE ~(call'[t].step = "delete" /\ call'[t].token = k)
    BY <2>1, <2>3, OtherDeleting, NothingSpent DEF Typed
  <2>4. QED
    BY <2>2, <2>3
<1>5. ASSUME NEW t \in RedisThreads, Delete(t)
      PROVE  /\ uses'[k] > 0 => token'[k] = "gone"
             /\ token'[k] = "unissued" => Deleting(k)' = {}
             /\ uses'[k] + Cardinality(Deleting(k)') <= Cardinality(RedisThreads)
  <2>1. /\ call' = [call EXCEPT ![t] = call'[t]] /\ t \in Threads
        /\ call[t].step = "delete" /\ call'[t].step # "delete"
        /\ token' \in {token, Deleted(call[t].user)}
    BY <1>5 DEF Delete, Goto, Return, Refuse, Idle, Typed, CallTypes, Calls, Threads
  <2>2. /\ token[k] = "gone" => token'[k] = "gone"
        /\ token'[k] = "unissued" => token[k] = "unissued"
    BY <2>1 DEF Deleted, Typed, RedisTypes
  <2>3. Deleting(k)' = Deleting(k) \ {t}
    BY <2>1, OtherDeleting DEF Typed
  <2>4. CASE UNCHANGED uses \/ call[t].token # k
    <3>1. uses'[k] = uses[k]
      BY <1>5, <2>4 DEF Delete, Typed, RedisTypes
    <3>2. QED
      BY <2>2, <2>3, <3>1, NothingSpent
  <2>5. CASE Works /\ uses' = [uses EXCEPT ![k] = @ + 1] /\ call[t].token = k
    <3>1. t \in Deleting(k)
      BY <2>1, <2>5 DEF Deleting
    <3>2. token'[k] = "gone"
      <4>1. token[k] # "unissued" /\ Owner[k] = call[t].user
        BY <2>1, <2>5, <3>1 DEF Spending, Typed, CallsMeanIt
      <4>2. QED
        BY <1>5, <2>5, <4>1 DEF Delete, Deleted, Typed, RedisTypes
    <3>3. Cardinality(Deleting(k)') = Cardinality(Deleting(k)) - 1
      BY <2>3, <3>1, DeletingFinite, FS_RemoveElement
    <3>4. uses'[k] = uses[k] + 1 /\ uses[k] \in Nat
      BY <2>5 DEF Typed, RedisTypes
    <3>5. uses'[k] + Cardinality(Deleting(k)') <= Cardinality(RedisThreads)
      BY <3>3, <3>4, DeletingFinite DEF Spending
    <3>6. QED
      BY <3>2, <3>5
  <2>6. QED
    BY <1>5, <2>4, <2>5 DEF Delete
<1>6. ASSUME NEW t \in RedisThreads, UserConnect(t)
      PROVE  /\ uses'[k] > 0 => token'[k] = "gone"
             /\ token'[k] = "unissued" => Deleting(k)' = {}
             /\ uses'[k] + Cardinality(Deleting(k)') <= Cardinality(RedisThreads)
  BY <1>3, <1>4, <1>5, <1>6, NothingSpent
<1>7. ASSUME NEW t \in Workers, UserDisConnect(t)
      PROVE  /\ uses'[k] > 0 => token'[k] = "gone"
             /\ token'[k] = "unissued" => Deleting(k)' = {}
             /\ uses'[k] + Cardinality(Deleting(k)') <= Cardinality(RedisThreads)
  BY <1>2, <1>7, NothingSpent
<1>8. QED
  BY <1>1, <1>6, <1>7 DEF Next, Server

(* A token lets in at most one login for each redis thread                  *)
(* (RedisManager.cpp:96-113).                                               *)
THEOREM TokensAreSpent == Spec => []TokenSpentPerThread
<1>1. Typed /\ Spending => TokenSpentPerThread
  <2> SUFFICES ASSUME Typed, Spending, NEW k \in Tokens
               PROVE  uses[k] <= Cardinality(RedisThreads)
    BY DEF TokenSpentPerThread
  <2>1. uses[k] \in Nat /\ uses[k] + Cardinality(Deleting(k)) <= Cardinality(RedisThreads)
    BY DEF Typed, RedisTypes, Spending
  <2>2. QED
    BY <2>1, DeletingFinite
<1>2. QED
  BY <1>1, InitTyped, StepTyped, InitSpending, StepSpending, PTL DEF Spec

(***************************************************************************)
(* 2. Sessions, presence and notices.                                      *)
(***************************************************************************)
(* A thread that is about to set the time to live of a key, or died when it *)
(* wrote the key.                                                           *)
Arming(t, u) == call[t].user = u /\ (call[t].step = "arm" \/ (~alive /\ call[t].step = "store"))

LEMMA StepBare == Typed /\ BareIsTransient /\ [Next]_vars => BareIsTransient'
<1> SUFFICES ASSUME Typed, BareIsTransient, [Next]_vars, NEW u \in Users, presence'[u] = "bare"
             PROVE  \E t \in RedisThreads : Arming(t, u)'
  BY DEF BareIsTransient, Arming
<1>b. presence[u] = "bare" => \E t \in RedisThreads : Arming(t, u)
  BY DEF BareIsTransient, Arming
<1>1. CASE UNCHANGED vars \/ (\E v \in Users : Fade(v))
  <2>1. presence[u] = "bare" /\ UNCHANGED <<call, alive>>
    BY <1>1 DEF vars, redisVars, Fade, Typed, RedisTypes
  <2>2. QED
    BY <1>b, <2>1 DEF Arming
<1>2. CASE alive /\ Environment
  <2>1. presence[u] = "bare" /\ UNCHANGED <<call, alive>>
    BY <1>2 DEF redisVars, Environment, Issue, Connect, Request, Disconnect, Register
  <2>2. QED
    BY <1>b, <2>1 DEF Arming
<1>3. ASSUME alive, NEW w \in Workers, UserDisConnect(w) PROVE \E t \in RedisThreads : Arming(t, u)'
  <2>1. presence[u] = "bare" /\ \A t \in RedisThreads : call'[t] = call[t]
    BY <1>3 DEF UserDisConnect, Leave, TellOffline, Forget, Erase, Goto, Return, Die, redisVars, Typed,
       CallTypes, Threads
  <2>2. PICK t \in RedisThreads : call[t].user = u /\ call[t].step = "arm"
    BY <1>3, <1>b, <2>1 DEF Arming
  <2>3. QED
    BY <2>1, <2>2 DEF Arming
<1>4. ASSUME alive, NEW r \in RedisThreads, UserConnect(r) PROVE \E t \in RedisThreads : Arming(t, u)'
  <2>t. \A t \in RedisThreads : t \in Threads
    BY DEF Threads
  <2>1. \A t \in RedisThreads : t # r => call'[t] = call[t]
    BY <1>4, <2>t DEF UserConnect, Enter, Verify, Delete, Friends, FriendsAgain, TellOnline,
       SetIds, Store, Arm, Answer, Refuse, Welcome, Goto, Return, Die, Typed, CallTypes
  <2>2. CASE Store(r) /\ call[r].user = u
    <3>1. CASE Goto(r, "arm")
      <4>1. call'[r].step = "arm" /\ call'[r].user = u
        BY <2>2, <2>t, <3>1 DEF Goto, Typed, CallTypes, Calls
      <4>2. QED
        BY <4>1 DEF Arming
    <3>2. CASE Die
      <4>1. call'[r].step = "store" /\ call'[r].user = u /\ ~alive'
        BY <2>2, <3>2 DEF Store, Die
      <4>2. QED
        BY <4>1 DEF Arming
    <3>3. QED
      BY <2>2, <3>1, <3>2 DEF Store
  <2>3. CASE Arm(r) /\ call[r].user = u
    <3>1. Armed(u)[u] # "bare"
      BY DEF Armed, Typed, RedisTypes
    <3>2. Die /\ Arm(r)
      BY <2>3, <3>1 DEF Arm
    <3>3. call'[r].step = "arm" /\ call'[r].user = u
      BY <2>3, <3>2 DEF Arm, Die
    <3>4. QED
      BY <3>3 DEF Arming
  <2>4. CASE ~(Store(r) /\ call[r].user = u) /\ ~(Arm(r) /\ call[r].user = u)
    <3>1. presence[u] = "bare"
      <4>1. CASE Store(r)
        BY <2>4, <4>1 DEF Store, Stored, Typed, RedisTypes
      <4>2. CASE Arm(r)
        BY <2>4, <4>2 DEF Arm, Armed, Typed, RedisTypes
      <4>3. CASE UNCHANGED presence
        BY <4>3
      <4>4. QED
        BY <1>4, <4>1, <4>2, <4>3 DEF UserConnect, Enter, Verify, Delete, Friends, FriendsAgain,
           TellOnline, SetIds, Answer, redisVars
    <3>2. PICK t \in RedisThreads : call[t].user = u /\ call[t].step = "arm"
      BY <1>4, <1>b, <3>1 DEF Arming
    <3>3. t # r
      BY <1>4, <2>4, <3>2 DEF UserConnect, Enter, Verify, Delete, Friends, FriendsAgain,
         TellOnline, SetIds, Store, Answer
    <3>4. QED
      BY <2>1, <3>2, <3>3 DEF Arming
  <2>5. QED
    BY <2>2, <2>3, <2>4
<1>5. QED
  BY <1>1, <1>2, <1>3, <1>4 DEF Next, Server

(* A presence key always gets its time to live, unless the server dies      *)
(* between hset and expire (RedisManager.cpp:282-283).                      *)
THEOREM BareKeysAreArmed == Spec => []BareIsTransient
<1>1. Init => BareIsTransient
  BY DEF Init, BareIsTransient
<1>2. QED
  BY <1>1, InitTyped, StepTyped, StepBare, PTL DEF Spec

----------------------------------------------------------------------------
(* A login that its client has not left under way is for whoever is on the  *)
(* connection, whether it still waits or a redis thread is at it.           *)
Belongs ==
  /\ \A i \in 1 .. Len(waiting) :
       waiting[i].conn \notin crossed => peer[waiting[i].conn] = Owner[waiting[i].token]
  /\ \A r \in RedisThreads :
       call[r].step # "idle" /\ call[r].conn \notin crossed => peer[call[r].conn] = call[r].user

(* What a login has left behind on its connection so far.                   *)
Progress ==
  \A r \in RedisThreads :
    LET c == call[r].conn IN
    call[r].step # "idle" /\ c \notin crossed =>
      /\ call[r].step \notin {"verify", "delete"} => uses[call[r].token] > 0
      /\ call[r].step \in {"online", "ids", "store", "arm", "answer"} =>
           friendPks[c] \in {peer[c], None}
      /\ call[r].step \in {"store", "arm", "answer"} => userPk[c] = peer[c]

Sessioned == Belongs /\ Progress /\ WelcomedIsWho

LEMMA InitSessioned == Init => Sessioned
<1> SUFFICES ASSUME Init PROVE Sessioned
  OBVIOUS
<1>1. \A r \in RedisThreads : call[r].step = "idle"
  BY DEF Init, Idle, Threads
<1>2. waiting = <<>> /\ Len(waiting) = 0 /\ welcomed = {}
  BY DEF Init
<1>3. QED
  BY <1>1, <1>2 DEF Sessioned, Belongs, Progress, WelcomedIsWho

(* What clients do.                                                         *)
LEMMA EnvironmentSessioned == Typed /\ Sessioned /\ Environment => Sessioned'
<1> SUFFICES ASSUME Typed, Sessioned, Environment PROVE Sessioned'
  OBVIOUS
<1>w. \A i \in 1 .. Len(waiting) : waiting[i].conn \in Conns /\ Owner[waiting[i].token] \in Users
  <2>1. \A i \in 1 .. Len(waiting) : waiting[i] \in Packet
    BY DEF Typed, ClientTypes
  <2>2. QED
    BY <2>1 DEF Packet
<1>c. \A r \in RedisThreads : call[r].step # "idle" =>
         call[r].conn \in Conns /\ call[r].user \in Users /\ r \in Threads
  BY DEF Typed, CallsMeanIt, Threads
<1>1. ASSUME NEW t \in Tokens, Issue(t) PROVE Sessioned'
  BY <1>1 DEF Issue, clientVars, historyVars, Sessioned, Belongs, Progress, WelcomedIsWho
<1>2. ASSUME NEW c \in Conns, Register(c) PROVE Sessioned'
  BY <1>2 DEF Register, clientVars, historyVars, redisVars, Sessioned, Belongs, Progress,
     WelcomedIsWho
<1>3. ASSUME NEW c \in Conns, NEW u \in Users, Connect(c, u) PROVE Sessioned'
  <2> USE <1>3 DEF Connect, redisVars, historyVars, Sessioned
  <2>1. \A d \in Conns : d # c => peer'[d] = peer[d]
    BY DEF Typed, ClientTypes
  <2>2. \A i \in 1 .. Len(waiting) : waiting[i].conn \notin crossed => waiting[i].conn # c
    BY <1>w DEF Belongs
  <2>3. \A r \in RedisThreads : call[r].step # "idle" /\ call[r].conn \notin crossed =>
           call[r].conn # c
    BY <1>c DEF Belongs
  <2>4. Belongs'
    BY <1>w, <1>c, <2>1, <2>2, <2>3 DEF Belongs
  <2>5. Progress'
    BY <1>c, <2>1, <2>3 DEF Progress
  <2>6. c \notin welcomed \ crossed
    BY DEF WelcomedIsWho
  <2>7. WelcomedIsWho'
    BY <2>1, <2>6 DEF WelcomedIsWho
  <2>8. QED
    BY <2>4, <2>5, <2>7
<1>4. ASSUME NEW c \in Conns, NEW t \in Tokens, Request(c, t) PROVE Sessioned'
  <2> USE <1>4 DEF Request, redisVars, historyVars, Sessioned
  <2>1. /\ Len(waiting') = Len(waiting) + 1
        /\ waiting'[Len(waiting) + 1] = [conn |-> c, token |-> t]
        /\ \A i \in 1 .. Len(waiting) : waiting'[i] = waiting[i]
    BY DEF Typed, ClientTypes
  <2>2. Len(waiting) \in Nat
    BY DEF Typed, ClientTypes
  <2>3. \A i \in 1 .. Len(waiting') : waiting'[i].conn \notin crossed =>
           peer[waiting'[i].conn] = Owner[waiting'[i].token]
    <3> SUFFICES ASSUME NEW i \in 1 .. Len(waiting'), waiting'[i].conn \notin crossed
                 PROVE  peer[waiting'[i].conn] = Owner[waiting'[i].token]
      OBVIOUS
    <3>1. CASE i = Len(waiting) + 1
      BY <2>1, <3>1
    <3>2. CASE i \in 1 .. Len(waiting)
      BY <2>1, <3>2 DEF Belongs
    <3>3. QED
      BY <2>1, <2>2, <3>1, <3>2
  <2>4. Belongs'
    BY <2>3 DEF Belongs
  <2>5. QED
    BY <2>4 DEF Progress, WelcomedIsWho
<1>5. ASSUME NEW c \in Conns, Disconnect(c) PROVE Sessioned'
  <2> USE <1>5 DEF Disconnect, redisVars, Sessioned
  <2>1. \A d \in Conns : d # c => peer'[d] = peer[d]
    BY DEF Typed, ClientTypes
  <2>2. crossed \subseteq crossed'
    BY DEF historyVars
  <2>3. ASSUME NEW i \in 1 .. Len(waiting), waiting[i].conn \notin crossed'
        PROVE  waiting[i].conn # c /\ waiting[i].conn \notin crossed
    <3>1. CASE waiting[i].conn = c
      <4>1. i \in Waiting(c)
        BY <3>1 DEF Waiting, Typed, ClientTypes
      <4>2. QED
        BY <2>3, <3>1, <4>1
    <3>2. QED
      BY <2>2, <2>3, <3>1
  <2>4. ASSUME NEW r \in RedisThreads, call[r].conn \notin crossed'
        PROVE  call[r].conn # c /\ call[r].conn \notin crossed
    BY <2>2, <2>4 DEF InHand
  <2>5. Belongs'
    BY <1>w, <1>c, <2>1, <2>3, <2>4 DEF Belongs
  <2>6. Progress'
    BY <1>c, <2>1, <2>4 DEF Progress
  <2>7. WelcomedIsWho'
    BY <2>1, <2>2 DEF WelcomedIsWho
  <2>8. QED
    BY <2>5, <2>6, <2>7
<1>6. QED
  BY <1>1, <1>2, <1>3, <1>4, <1>5 DEF Environment

LEMMA UserDisConnectSessioned ==
  ASSUME Typed, Sessioned, NEW w \in Workers, UserDisConnect(w)
  PROVE  Sessioned'
<1>1. /\ UNCHANGED <<waiting, peer, crossed, welcomed, userPk, uses>>
      /\ \A r \in RedisThreads : call'[r] = call[r]
  BY DEF UserDisConnect, Leave, TellOffline, Forget, Erase, Goto, Return, Die, redisVars, clientVars,
     historyVars, Typed, CallTypes, Threads
<1>2. \A c \in Conns : friendPks'[c] \in {friendPks[c], None}
  BY DEF UserDisConnect, Leave, TellOffline, Forget, Erase, Typed, UserTypes
<1>3. \A r \in RedisThreads : call[r].step # "idle" => call[r].conn \in Conns
  BY DEF Typed, CallsMeanIt, Threads
<1>4. Belongs'
  BY <1>1 DEF Sessioned, Belongs
<1>5. Progress'
  BY <1>1, <1>2, <1>3 DEF Sessioned, Progress
<1>6. WelcomedIsWho'
  BY <1>1, <1>2 DEF Sessioned, WelcomedIsWho
<1>7. QED
  BY <1>4, <1>5, <1>6 DEF Sessioned

LEMMA EnterSessioned ==
  ASSUME Typed, Sessioned, NEW r \in RedisThreads, Enter(r)
  PROVE  Sessioned'
<1> USE DEF Enter, redisVars
<1> DEFINE c == Head(waiting).conn
           k == Head(waiting).token
           new == [step |-> "verify", conn |-> c, client |-> Owner[k],
                   user |-> Owner[k], token |-> k]
<1>1. \A s \in RedisThreads : call'[s] = IF s = r THEN new ELSE call[s]
  BY DEF Typed, CallTypes, Threads
<1>2. waiting \in Seq(Packet) /\ waiting # <<>>
  BY DEF Typed, ClientTypes
<1>3. /\ Head(waiting) = waiting[1] /\ Len(waiting) \in Nat /\ Len(waiting) > 0
      /\ Len(Tail(waiting)) = Len(waiting) - 1
      /\ \A i \in 1 .. Len(Tail(waiting)) : Tail(waiting)[i] = waiting[i + 1]
  BY <1>2
<1>4. c \notin crossed => peer[c] = Owner[k]
  BY <1>3 DEF Sessioned, Belongs
<1>5. \A i \in 1 .. Len(waiting') : waiting'[i].conn \notin crossed =>
         peer[waiting'[i].conn] = Owner[waiting'[i].token]
  BY <1>3 DEF Sessioned, Belongs
<1>6. Belongs'
  BY <1>1, <1>4, <1>5 DEF Sessioned, Belongs
<1>7. Progress'
  BY <1>1 DEF Sessioned, Progress
<1>8. QED
  BY <1>6, <1>7 DEF Sessioned, WelcomedIsWho

(* The other steps move one call on, or end it.                             *)
LEMMA MovesOn ==
  ASSUME Typed, NEW r \in RedisThreads, UserConnect(r), ~Enter(r)
  PROVE  /\ UNCHANGED <<waiting, peer, crossed>>
         /\ \A s \in RedisThreads : s # r => call'[s] = call[s]
         /\ call[r].step # "idle" /\ call[r].conn \in Conns /\ call[r].user \in Users
         /\ call[r].token \in Tokens /\ call[r].user = Owner[call[r].token]
         /\ \/ call'[r].step = "idle"
            \/ /\ call'[r].conn = call[r].conn /\ call'[r].user = call[r].user
               /\ call'[r].token = call[r].token
<1>t. \A s \in RedisThreads : s \in Threads
  BY DEF Threads
<1>1. UNCHANGED <<waiting, peer, crossed>>
  BY DEF UserConnect, Verify, Delete, Friends, FriendsAgain, TellOnline, SetIds, Store, Arm,
     Answer, clientVars, historyVars
<1>2. call[r].step # "idle"
  BY DEF UserConnect, Verify, Delete, Friends, FriendsAgain, TellOnline, SetIds, Store, Arm, Answer
<1>3. UNCHANGED call \/ Return(r) \/ \E step \in Steps : Goto(r, step)
  BY DEF UserConnect, Verify, Delete, Friends, FriendsAgain, TellOnline, SetIds, Store, Arm,
     Answer, Refuse, Welcome, Die, Steps
<1>4. /\ \A s \in RedisThreads : s # r => call'[s] = call[s]
      /\ \/ call'[r].step = "idle"
         \/ /\ call'[r].conn = call[r].conn /\ call'[r].user = call[r].user
            /\ call'[r].token = call[r].token
  BY <1>t, <1>3 DEF Goto, Return, Idle, Typed, CallTypes, Calls
<1>5. QED
  BY <1>t, <1>1, <1>2, <1>4 DEF Typed, CallsMeanIt

LEMMA UserConnectSessioned ==
  ASSUME Typed, Sessioned, NEW r \in RedisThreads, UserConnect(r), ~Enter(r)
  PROVE  Sessioned'
<1> DEFINE c == call[r].conn
<1> USE MovesOn DEF Sessioned
<1>1. Belongs'
  BY DEF Belongs
<1>2. c \notin crossed => peer[c] = call[r].user
  BY DEF Belongs
<1>3. \A t \in Tokens : uses[t] > 0 => uses'[t] > 0
  BY DEF UserConnect, Verify, Delete, Friends, FriendsAgain, TellOnline, SetIds, Store, Arm,
     Answer, redisVars, Typed, RedisTypes
<1>4. \A d \in Conns \ crossed :
        /\ friendPks'[d] \in {friendPks[d], peer[d]}
        /\ userPk'[d] \in {userPk[d], peer[d]}
  <2>1. CASE FriendsAgain(r)
    BY <1>2, <2>1 DEF FriendsAgain, Typed, UserTypes
  <2>2. CASE SetIds(r)
    BY <1>2, <2>2 DEF SetIds, PkSet, Typed, UserTypes
  <2>3. CASE UNCHANGED <<friendPks, userPk>>
    BY <2>3
  <2>4. QED
    BY <2>1, <2>2, <2>3 DEF UserConnect, Verify, Delete, Friends, TellOnline, Store, Arm, Answer
<1>5. ASSUME NEW s \in RedisThreads, s # r, call[s].step # "idle", call[s].conn \notin crossed
      PROVE  /\ call[s].step \notin {"verify", "delete"} => uses'[call[s].token] > 0
             /\ call[s].step \in {"online", "ids", "store", "arm", "answer"} =>
                  friendPks'[call[s].conn] \in {peer[call[s].conn], None}
             /\ call[s].step \in {"store", "arm", "answer"} =>
                  userPk'[call[s].conn] = peer[call[s].conn]
  <2>1. call[s].conn \in Conns /\ call[s].token \in Tokens
    BY <1>5 DEF Typed, CallsMeanIt, Threads
  <2>2. QED
    BY <1>3, <1>4, <1>5, <2>1 DEF Progress
<1>6. ASSUME call'[r].step # "idle", c \notin crossed
      PROVE  /\ call'[r].step \notin {"verify", "delete"} => uses'[call[r].token] > 0
             /\ call'[r].step \in {"online", "ids", "store", "arm", "answer"} =>
                  friendPks'[c] \in {peer[c], None}
             /\ call'[r].step \in {"store", "arm", "answer"} => userPk'[c] = peer[c]
  <2>g. ASSUME NEW step, Goto(r, step) PROVE call'[r].step = step
    BY <2>g DEF Goto, Typed, CallTypes, Calls, Threads
  <2>r. ASSUME Return(r) PROVE call'[r].step = "idle"
    BY <2>r DEF Return, Idle, Typed, CallTypes, Threads
  <2>1. CASE Verify(r)
    BY <2>1, <1>6, <2>g, <2>r DEF Verify, Refuse
  <2>2. CASE Delete(r)
    <3>1. Goto(r, "friends") /\ uses' = [uses EXCEPT ![call[r].token] = @ + 1]
      BY <2>2, <1>6, <2>r DEF Delete, Refuse
    <3>2. uses'[call[r].token] > 0
      BY <3>1 DEF Typed, RedisTypes
    <3>3. QED
      BY <2>g, <3>1, <3>2
  <2>3. CASE Friends(r)
    BY <2>3, <1>3, <1>6, <2>g, <2>r DEF Friends, Refuse, Progress
  <2>4. CASE FriendsAgain(r)
    <3>1. CASE Goto(r, "online") /\ friendPks' = [friendPks EXCEPT ![c] = call[r].user]
      <4>1. friendPks'[c] = peer[c]
        BY <1>2, <1>6, <3>1 DEF Typed, UserTypes
      <4>2. uses'[call[r].token] > 0
        BY <2>4, <1>3, <1>6 DEF FriendsAgain, Progress
      <4>3. QED
        BY <2>g, <3>1, <4>1, <4>2
    <3>2. CASE Die /\ UNCHANGED friendPks
      BY <2>4, <3>2, <1>3, <1>6 DEF FriendsAgain, Die, Progress
    <3>3. QED
      BY <2>4, <3>1, <3>2 DEF FriendsAgain
  <2>5. CASE TellOnline(r)
    BY <2>5, <1>3, <1>6, <2>g DEF TellOnline, Progress
  <2>6. CASE SetIds(r)
    <3>1. userPk'[c] = peer[c]
      BY <2>6, <1>2, <1>6 DEF SetIds, PkSet, Typed, UserTypes
    <3>2. QED
      BY <2>6, <1>3, <1>6, <2>g, <3>1 DEF SetIds, Progress
  <2>7. CASE Store(r)
    BY <2>7, <1>3, <1>6, <2>g DEF Store, Die, Progress
  <2>8. CASE Arm(r)
    BY <2>8, <1>3, <1>6, <2>g DEF Arm, Die, Progress
  <2>9. CASE Answer(r)
    BY <2>9, <1>6, <2>r DEF Answer, Welcome
  <2>10. QED
    BY <2>1, <2>2, <2>3, <2>4, <2>5, <2>6, <2>7, <2>8, <2>9 DEF UserConnect
<1>7. Progress'
  <2>1. ASSUME NEW s \in RedisThreads, call'[s].step # "idle", call'[s].conn \notin crossed
        PROVE  /\ call'[s].step \notin {"verify", "delete"} => uses'[call'[s].token] > 0
               /\ call'[s].step \in {"online", "ids", "store", "arm", "answer"} =>
                    friendPks'[call'[s].conn] \in {peer[call'[s].conn], None}
               /\ call'[s].step \in {"store", "arm", "answer"} =>
                    userPk'[call'[s].conn] = peer[call'[s].conn]
    BY <1>5, <1>6, <2>1
  <2>2. QED
    BY <2>1 DEF Progress
<1>8. WelcomedIsWho'
  <2>1. ASSUME NEW d \in Conns \ crossed, d \in welcomed'
        PROVE  /\ userPk'[d] = peer[d] /\ friendPks'[d] \in {peer[d], None}
               /\ \E t \in Tokens : Owner[t] = peer[d] /\ uses'[t] > 0
    <3>1. CASE d \in welcomed
      BY <1>3, <1>4, <3>1 DEF WelcomedIsWho
    <3>2. CASE d \notin welcomed
      <4>1. d = c /\ Answer(r)
        BY <2>1, <3>2 DEF UserConnect, Verify, Delete, Friends, FriendsAgain, TellOnline, SetIds,
           Store, Arm, Answer, Refuse, Welcome
      <4>2. /\ userPk[d] = peer[d] /\ friendPks[d] \in {peer[d], None}
            /\ uses[call[r].token] > 0
        BY <4>1 DEF Answer, Progress
      <4>3. QED
        BY <1>2, <4>1, <4>2 DEF Answer, redisVars
    <3>3. QED
      BY <3>1, <3>2
  <2>2. QED
    BY <2>1 DEF WelcomedIsWho
<1>9. QED
  BY <1>1, <1>7, <1>8

LEMMA StepSessioned == Typed /\ Sessioned /\ [Next]_vars => Sessioned'
<1> SUFFICES ASSUME Typed, Sessioned, [Next]_vars PROVE Sessioned'
  OBVIOUS
<1>1. CASE UNCHANGED vars \/ (\E u \in Users : Fade(u))
  BY <1>1 DEF vars, Fade, redisVars, clientVars, historyVars, Sessioned, Belongs, Progress,
     WelcomedIsWho
<1>2. QED
  BY <1>1, EnvironmentSessioned, UserDisConnectSessioned, EnterSessioned, UserConnectSessioned
     DEF Next, Server

(* A client who was welcomed had a token of his own, and his connection     *)
(* carries his pk and his friends, unless an earlier client left it in the  *)
(* middle of a login (RedisManager.cpp:242-289).                            *)
THEOREM WelcomedAreWho == Spec => []WelcomedIsWho
<1>1. Spec => [](Typed /\ Sessioned)
  BY InitTyped, StepTyped, InitSessioned, StepSessioned, PTL DEF Spec
<1>2. QED
  BY <1>1, PTL DEF Sessioned

----------------------------------------------------------------------------
(* A user who is being logged out, and whom nothing disturbed, has no       *)
(* session and no login under way.                                          *)
Alone(u) == Sessions(u) \subseteq crossed /\ \A r \in RedisThreads : call[r].user # u

LeaveAlone ==
  \A w \in Workers, u \in Users \ disturbed :
    call[w].step # "idle" /\ call[w].user = u => Alone(u)

LEMMA EnvironmentAlone == Typed /\ Sessioned /\ LeaveAlone /\ Environment => LeaveAlone'
<1> SUFFICES ASSUME Typed, Sessioned, LeaveAlone, Environment,
                    NEW w \in Workers, NEW u \in Users \ disturbed',
                    call'[w].step # "idle" /\ call'[w].user = u
             PROVE  Alone(u)'
  BY DEF LeaveAlone
<1>1. UNCHANGED call /\ crossed \subseteq crossed' /\ disturbed \subseteq disturbed'
  BY DEF Environment, Issue, Connect, Request, Disconnect, Register, historyVars
<1>2. Alone(u)
  BY <1>1 DEF LeaveAlone
<1>3. Sessions(u)' \subseteq crossed'
  <2>1. ASSUME NEW c \in Conns, Disconnect(c) PROVE Sessions(u)' \subseteq crossed'
    <3>1. \A d \in Conns : d # c => peer'[d] = peer[d]
      BY <2>1 DEF Disconnect, Typed, ClientTypes
    <3>2. welcomed \subseteq Conns /\ welcomed' = welcomed \ {c}
      BY <2>1 DEF Disconnect, Typed, UserTypes
    <3>3. QED
      BY <1>1, <1>2, <3>1, <3>2 DEF Sessions, Alone
  <2>2. ASSUME NEW c \in Conns, NEW v \in Users, Connect(c, v) PROVE Sessions(u)' \subseteq crossed'
    <3>1. \A d \in Conns : d # c => peer'[d] = peer[d]
      BY <2>2 DEF Connect, Typed, ClientTypes
    <3>2. c \in welcomed => c \in crossed
      BY <2>2 DEF Connect, Sessioned, WelcomedIsWho
    <3>3. QED
      BY <1>2, <2>2, <3>1, <3>2 DEF Connect, Sessions, Alone, historyVars, Typed, UserTypes
  <2>3. CASE UNCHANGED <<welcomed, peer, crossed>>
    BY <1>2, <2>3 DEF Sessions, Alone
  <2>4. QED
    BY <2>1, <2>2, <2>3 DEF Environment, Issue, Request, Register, clientVars, historyVars
<1>4. QED
  BY <1>1, <1>2, <1>3 DEF Alone

LEMMA UserConnectAlone ==
  ASSUME Typed, Sessioned, LeaveAlone, NEW r \in RedisThreads, UserConnect(r)
  PROVE  LeaveAlone'
<1> SUFFICES ASSUME NEW w \in Workers, NEW u \in Users \ disturbed',
                    call'[w].step # "idle" /\ call'[w].user = u
             PROVE  Alone(u)'
  BY DEF LeaveAlone
<1>t. w \in Threads /\ w # r /\ r \in Threads
  BY DEF Threads
<1>1. CASE Enter(r)
  <2> DEFINE k == Head(waiting).token
             new == [step |-> "verify", conn |-> Head(waiting).conn, client |-> Owner[k],
                     user |-> Owner[k], token |-> k]
  <2>1. /\ UNCHANGED <<welcomed, peer, crossed>> /\ disturbed \subseteq disturbed'
        /\ \A s \in Threads : call'[s] = IF s = r THEN new ELSE call[s]
        /\ About(Owner[k]) # {} => Owner[k] \in disturbed'
    BY <1>1 DEF Enter, Typed, CallTypes
  <2>2. Alone(u) /\ call[w].user = u
    BY <1>t, <2>1 DEF LeaveAlone
  <2>3. w \in About(u)
    BY <1>t, <2>2 DEF About
  <2>4. Owner[k] # u
    BY <2>1, <2>3
  <2>5. QED
    BY <2>1, <2>2, <2>4 DEF Alone, Sessions, Threads
<1>2. CASE ~Enter(r)
  <2>1. call'[w] = call[w]
    BY <1>2, <1>t DEF UserConnect, Verify, Delete, Friends, FriendsAgain, TellOnline, SetIds,
       Store, Arm, Answer, Refuse, Welcome, Goto, Return, Die, Typed, CallTypes
  <2>2. disturbed \subseteq disturbed'
    BY <1>2 DEF UserConnect, Verify, Delete, Friends, FriendsAgain, TellOnline, SetIds, Store,
       Arm, Answer, historyVars
  <2>3. Alone(u)
    BY <2>1, <2>2 DEF LeaveAlone
  <2>4. \A s \in RedisThreads : call'[s].user # u
    <3>1. call'[r].user \in {None, call[r].user}
      <4>1. UNCHANGED call \/ Return(r) \/ \E step \in Steps : Goto(r, step)
        BY <1>2 DEF UserConnect, Verify, Delete, Friends, FriendsAgain, TellOnline, SetIds,
           Store, Arm, Answer, Refuse, Welcome, Die, Steps
      <4>2. QED
        BY <4>1, <1>t DEF Goto, Return, Idle, Typed, CallTypes, Calls
    <3>2. QED
      BY <1>2, <2>3, <3>1, MovesOn DEF Alone
  <2>5. Sessions(u)' \subseteq crossed'
    <3>1. UNCHANGED <<peer, crossed>>
      BY <1>2, MovesOn
    <3>2. CASE Answer(r)
      <4>1. welcomed' \subseteq welcomed \union {call[r].conn}
        BY <3>2 DEF Answer, Welcome
      <4>2. call[r].conn \notin crossed => peer[call[r].conn] = call[r].user
        BY <1>2, MovesOn DEF Sessioned, Belongs
      <4>3. call[r].user # u
        BY <2>3 DEF Alone
      <4>4. QED
        BY <2>3, <3>1, <4>1, <4>2, <4>3 DEF Sessions, Alone
    <3>3. CASE UNCHANGED welcomed
      BY <2>3, <3>1, <3>3 DEF Sessions, Alone
    <3>4. QED
      BY <1>2, <3>2, <3>3 DEF UserConnect, Verify, Delete, Friends, FriendsAgain, TellOnline,
         SetIds, Store, Arm, Refuse
  <2>6. QED
    BY <2>4, <2>5 DEF Alone
<1>3. QED
  BY <1>1, <1>2

LEMMA UserDisConnectAlone ==
  ASSUME Typed, LeaveAlone, NEW v \in Workers, UserDisConnect(v)
  PROVE  LeaveAlone'
<1> SUFFICES ASSUME NEW w \in Workers, NEW u \in Users \ disturbed',
                    call'[w].step # "idle" /\ call'[w].user = u
             PROVE  Alone(u)'
  BY DEF LeaveAlone
<1>t. w \in Threads /\ v \in Threads /\ \A r \in RedisThreads : r \in Threads /\ r # v
  BY DEF Threads
<1>1. /\ UNCHANGED <<welcomed, peer, crossed>> /\ disturbed \subseteq disturbed'
      /\ \A s \in Threads : s # v => call'[s] = call[s]
  BY DEF UserDisConnect, Leave, TellOffline, Forget, Erase, Goto, Return, Die, redisVars, clientVars,
     historyVars, Typed, CallTypes
<1>2. Alone(u)
  <2>1. CASE w = v /\ Leave(v)
    <3>1. PICK left \in owed :
             /\ call' = [call EXCEPT ![v] = [step |-> "offline", conn |-> left[1],
                            client |-> left[2], user |-> userPk[left[1]], token |-> None]]
             /\ ~(About(userPk[left[1]]) = {} /\ Sessions(userPk[left[1]]) = {})
                  => {userPk[left[1]]} \intersect Users \subseteq disturbed'
      BY <2>1 DEF Leave
    <3>2. userPk[left[1]] = u
      BY <1>t, <2>1, <3>1 DEF Typed, CallTypes
    <3>3. About(u) = {} /\ Sessions(u) = {}
      BY <3>1, <3>2
    <3>4. QED
      BY <1>t, <3>3 DEF Alone, About
  <2>2. CASE w = v /\ ~Leave(v)
    <3>1. call[v].step # "idle" /\ call[v].user = u
      BY <1>t, <2>2 DEF UserDisConnect, TellOffline, Forget, Erase, Goto, Return, Die, Idle, Typed,
         CallTypes, Calls
    <3>2. QED
      BY <1>1, <2>2, <3>1 DEF LeaveAlone
  <2>3. CASE w # v
    BY <1>1, <1>t, <2>3 DEF LeaveAlone
  <2>4. QED
    BY <2>1, <2>2, <2>3
<1>3. QED
  BY <1>1, <1>2, <1>t DEF Alone, Sessions

LEMMA StepAlone == Typed /\ Sessioned /\ LeaveAlone /\ [Next]_vars => LeaveAlone'
<1>1. CASE UNCHANGED vars \/ (\E u \in Users : Fade(u))
  BY <1>1 DEF vars, Fade, redisVars, clientVars, historyVars, LeaveAlone, Alone, Sessions
<1>2. QED
  BY <1>1, EnvironmentAlone, UserConnectAlone, UserDisConnectAlone DEF Next, Server

(* Only the end of a logout takes a user out of the directory.              *)
LEMMA ForgetsOnlyAlone ==
  Typed /\ LeaveAlone /\ [Next]_vars =>
    [\A u \in Users \ disturbed :
       directory[u] # None /\ directory'[u] = None => Sessions(u) \ crossed = {}]_vars
<1> SUFFICES ASSUME Typed, LeaveAlone, Next, NEW u \in Users \ disturbed,
                    directory[u] # None, directory'[u] = None
             PROVE  Sessions(u) \ crossed = {}
  OBVIOUS
<1>1. CASE \E w \in Workers : UserDisConnect(w)
  <2>1. PICK w \in Workers : UserDisConnect(w)
    BY <1>1
  <2>2. Erase(w)
    BY <2>1 DEF UserDisConnect, Leave, TellOffline, Forget
  <2>3. call[w].user = u /\ call[w].step # "idle"
    BY <2>2 DEF Erase, Erased, Typed, UserTypes
  <2>4. QED
    BY <2>3 DEF LeaveAlone, Alone
<1>2. CASE \E r \in RedisThreads : UserConnect(r)
  <2>1. UNCHANGED directory
    BY <1>2 DEF UserConnect, Enter, Verify, Delete, Friends, FriendsAgain, TellOnline, SetIds,
       Store, Arm, Answer
  <2>2. QED
    BY <2>1
<1>3. CASE Environment \/ \E v \in Users : Fade(v)
  <2>1. CASE UNCHANGED directory
    BY <2>1
  <2>2. ASSUME NEW c \in Conns, Register(c) PROVE FALSE
    BY <2>2 DEF Register, Typed, UserTypes
  <2>3. QED
    BY <1>3, <2>1, <2>2 DEF Environment, Issue, Connect, Request, Disconnect, Fade
<1>4. QED
  BY <1>1, <1>2, <1>3 DEF Next, Server

(* The directory keeps whoever has a session, unless a stale pk or calls    *)
(* that overlapped disturbed him (RedisManager.cpp:291-310).                *)
THEOREM DirectoryKeepsSessions == Spec => RegisteredStays
<1>1. Init => LeaveAlone
  BY DEF Init, Idle, LeaveAlone, Threads
<1>2. Spec => [](Typed /\ Sessioned /\ LeaveAlone)
  BY <1>1, InitTyped, StepTyped, InitSessioned, StepSessioned, StepAlone, PTL DEF Spec
<1>3. QED
  BY <1>2, ForgetsOnlyAlone, PTL DEF Spec, RegisteredStays

----------------------------------------------------------------------------
(* What links a user nobody disturbed to what his friends were told.        *)
Serves(t, u) == call[t].step # "idle" /\ call[t].user = u

(* A session was announced; an announcement is of a session, or somebody is *)
(* at it, or the logout is owed.                                            *)
Announced(u) ==
  /\ Sessions(u) \subseteq crossed \/ told[u] = "online"
  /\ told[u] = "online" =>
       \/ Sessions(u) # {}
       \/ \E t \in Threads : Serves(t, u)
       \/ \E c \in Conns : <<c, u>> \in owed

(* He has not left the connections he asked on.                             *)
Remains(u) ==
  /\ \A i \in 1 .. Len(waiting) : Owner[waiting[i].token] = u => peer[waiting[i].conn] = u
  /\ \A r \in RedisThreads : Serves(r, u) => peer[call[r].conn] = u

(* A login that has not announced him finds him announced only if he is     *)
(* welcome already; one thread at a time is at it.                          *)
InOrder(u) ==
  /\ \A r, s \in RedisThreads : Serves(r, u) /\ Serves(s, u) => r = s
  /\ \A r \in RedisThreads : Serves(r, u) =>
       IF call[r].step \in {"ids", "store", "arm", "answer"}
       THEN told[u] = "online"
       ELSE told[u] = "online" => call[r].conn \in welcomed
  /\ \A w \in Workers : Serves(w, u) /\ call[w].step \in {"forget", "erase"} => told[u] # "online"

Faithful(u) == Announced(u) /\ Remains(u) /\ InOrder(u)

LEMMA EnvironmentFaithful ==
  ASSUME Typed, Sessioned, Environment, NEW u \in Users \ disturbed', Faithful(u)
  PROVE  Faithful(u)'
<1> USE DEF Faithful
<1>w. \A i \in 1 .. Len(waiting) : waiting[i].conn \in Conns
  <2>1. \A i \in 1 .. Len(waiting) : waiting[i] \in Packet
    BY DEF Typed, ClientTypes
  <2>2. QED
    BY <2>1 DEF Packet
<1>r. \A r \in RedisThreads : Serves(r, u) => call[r].conn \in Conns
  BY DEF Typed, CallsMeanIt, Threads, Serves
<1>1. ASSUME NEW t \in Tokens, Issue(t) PROVE Faithful(u)'
  BY <1>1 DEF Issue, clientVars, historyVars, Announced, Remains, InOrder, Serves, Sessions
<1>2. ASSUME NEW c \in Conns, Register(c) PROVE Faithful(u)'
  BY <1>2 DEF Register, redisVars, clientVars, historyVars, Announced, Remains, InOrder, Serves,
     Sessions
<1>3. ASSUME NEW c \in Conns, NEW v \in Users, Connect(c, v) PROVE Faithful(u)'
  <2> USE <1>3 DEF Connect, redisVars, historyVars
  <2>1. peer[c] # u /\ \A d \in Conns : d # c => peer'[d] = peer[d]
    BY DEF Typed, ClientTypes
  <2>2. c \in welcomed => c \in crossed
    BY DEF Sessioned, WelcomedIsWho
  <2>3. Sessions(u) \subseteq Sessions(u)' /\ Sessions(u)' \subseteq Sessions(u) \union crossed
    BY <2>1, <2>2 DEF Sessions, Typed, UserTypes
  <2>4. Announced(u)'
    BY <2>3 DEF Announced, Serves
  <2>5. Remains(u)'
    BY <1>w, <1>r, <2>1 DEF Remains, Serves
  <2>6. QED
    BY <2>4, <2>5 DEF InOrder, Serves
<1>4. ASSUME NEW c \in Conns, NEW k \in Tokens, Request(c, k) PROVE Faithful(u)'
  <2> USE <1>4 DEF Request, redisVars, historyVars
  <2>1. /\ Len(waiting') = Len(waiting) + 1
        /\ waiting'[Len(waiting) + 1] = [conn |-> c, token |-> k]
        /\ \A i \in 1 .. Len(waiting) : waiting'[i] = waiting[i]
        /\ Len(waiting) \in Nat
    BY DEF Typed, ClientTypes
  <2>2. \A i \in 1 .. Len(waiting') : i \in 1 .. Len(waiting) \/ i = Len(waiting) + 1
    BY <2>1
  <2>3. Remains(u)'
    BY <2>1, <2>2 DEF Remains, Serves
  <2>4. QED
    BY <2>3 DEF Announced, InOrder, Serves, Sessions
<1>5. ASSUME NEW c \in Conns, Disconnect(c) PROVE Faithful(u)'
  <2> USE <1>5 DEF Disconnect, redisVars
  <2>1. \A d \in Conns : d # c => peer'[d] = peer[d]
    BY DEF Typed, ClientTypes
  <2>2. crossed \subseteq crossed'
    BY DEF historyVars
  <2>3. ASSUME NEW i \in 1 .. Len(waiting), Owner[waiting[i].token] = u PROVE waiting[i].conn # c
    <3>1. CASE waiting[i].conn = c
      <4>1. i \in Waiting(c)
        BY <3>1 DEF Waiting, Typed, ClientTypes
      <4>2. peer[c] = u
        BY <2>3, <3>1 DEF Remains
      <4>3. QED
        BY <4>1, <4>2
    <3>2. QED
      BY <3>1
  <2>4. ASSUME NEW r \in RedisThreads, Serves(r, u) PROVE call[r].conn # c
    <3>1. CASE call[r].conn = c
      <4>1. r \in InHand(c) /\ peer[c] = u
        BY <2>4, <3>1 DEF InHand, Remains
      <4>2. QED
        BY <4>1
    <3>2. QED
      BY <3>1
  <2>5. Sessions(u)' = Sessions(u) \ {c}
    BY <2>1 DEF Sessions, Typed, UserTypes
  <2>6. c \in Sessions(u) => <<c, u>> \in owed'
    BY DEF Sessions
  <2>7. Announced(u)'
    BY <2>2, <2>5, <2>6 DEF Announced, Serves
  <2>8. Remains(u)'
    BY <1>w, <1>r, <2>1, <2>3, <2>4 DEF Remains, Serves
  <2>9. InOrder(u)'
    BY <2>4 DEF InOrder, Serves
  <2>10. QED
    BY <2>7, <2>8, <2>9
<1>6. QED
  BY <1>1, <1>2, <1>3, <1>4, <1>5 DEF Environment

LEMMA EnterFaithful ==
  ASSUME Typed, NEW r \in RedisThreads, Enter(r), NEW u \in Users \ disturbed', Faithful(u)
  PROVE  Faithful(u)'
<1> USE DEF Faithful, Enter, redisVars
<1> DEFINE c == Head(waiting).conn
           k == Head(waiting).token
           new == [step |-> "verify", conn |-> c, client |-> Owner[k],
                   user |-> Owner[k], token |-> k]
<1>1. \A s \in Threads : call'[s] = IF s = r THEN new ELSE call[s]
  BY DEF Typed, CallTypes
<1>2. waiting \in Seq(Packet) /\ waiting # <<>>
  BY DEF Typed, ClientTypes
<1>3. /\ Head(waiting) = waiting[1] /\ Len(waiting) \in Nat /\ Len(waiting) > 0
      /\ Len(Tail(waiting)) = Len(waiting) - 1
      /\ \A i \in 1 .. Len(Tail(waiting)) : Tail(waiting)[i] = waiting[i + 1]
  BY <1>2
<1>4. r \in Threads /\ call[r].step = "idle" /\ \A s \in RedisThreads \union Workers : s \in Threads
  BY DEF Threads
<1>5. Owner[k] = u => /\ About(u) = {} /\ Sessions(u) \subseteq {c}
                      /\ \A d \in Conns : <<d, u>> \notin owed
                      /\ peer[c] = u
  BY <1>3 DEF Remains
<1>6. Owner[k] = u => \A s \in Threads : ~Serves(s, u)
  BY <1>5 DEF About, Serves
<1>7. Remains(u)'
  <2>1. \A i \in 1 .. Len(waiting') : Owner[waiting'[i].token] = u => peer[waiting'[i].conn] = u
    BY <1>3 DEF Remains
  <2>2. \A s \in RedisThreads : Serves(s, u)' => peer[call'[s].conn] = u
    BY <1>1, <1>4, <1>5 DEF Remains, Serves
  <2>3. QED
    BY <2>1, <2>2 DEF Remains
<1>8. InOrder(u)'
  <2>1. Owner[k] = u /\ told[u] = "online" => c \in welcomed
    BY <1>5, <1>6 DEF Announced, Sessions
  <2>2. \A s \in RedisThreads : Serves(s, u)' =>
           \/ s = r /\ Owner[k] = u /\ call'[s] = new
           \/ s # r /\ Owner[k] # u /\ Serves(s, u) /\ call'[s] = call[s]
    BY <1>1, <1>4, <1>6 DEF Serves
  <2>3. \A w \in Workers : Serves(w, u)' => Serves(w, u) /\ call'[w] = call[w]
    BY <1>1, <1>4 DEF Serves, Threads
  <2>4. QED
    BY <2>1, <2>2, <2>3 DEF InOrder
<1>9. Announced(u)'
  <2>1. Sessions(u)' = Sessions(u)
    BY DEF Sessions
  <2>2. \A t \in Threads : Serves(t, u) => Serves(t, u)'
    BY <1>1, <1>4 DEF Serves
  <2>3. QED
    BY <2>1, <2>2 DEF Announced
<1>10. QED
  BY <1>7, <1>8, <1>9

LEMMA UserConnectFaithful ==
  ASSUME Typed, Sessioned, LeaveAlone, NEW r \in RedisThreads, UserConnect(r), ~Enter(r),
         NEW u \in Users \ disturbed', Faithful(u)
  PROVE  Faithful(u)'
<1> USE DEF Faithful
<1> DEFINE c == call[r].conn
<1>t. r \in Threads /\ \A w \in Workers : w \in Threads /\ w # r
  BY DEF Threads
<1>p. /\ UNCHANGED <<waiting, peer, crossed>> /\ call[r].step # "idle" /\ c \in Conns
      /\ call'[r].step # "idle" => call'[r].conn = c /\ call'[r].user = call[r].user
  BY MovesOn
<1>1. \A t \in Threads : t # r => call'[t] = call[t]
  BY <1>t DEF UserConnect, Verify, Delete, Friends, FriendsAgain, TellOnline, SetIds, Store, Arm,
     Answer, Refuse, Welcome, Goto, Return, Die, Typed, CallTypes
<1>2. \A t \in Threads : Serves(t, u)' => Serves(t, u) /\ call'[t].conn = call[t].conn
  BY <1>1, <1>p DEF Serves
<1>3. \A t \in Threads : t # r /\ Serves(t, u) => Serves(t, u)'
  BY <1>1 DEF Serves
<1>4. UNCHANGED owed /\ disturbed \subseteq disturbed'
  BY DEF UserConnect, Verify, Delete, Friends, FriendsAgain, TellOnline, SetIds, Store, Arm,
     Answer, clientVars, historyVars
<1>5. Remains(u)'
  <2>1. \A s \in RedisThreads : Serves(s, u)' => peer[call'[s].conn] = u
    BY <1>2, <1>p DEF Remains, Threads
  <2>2. QED
    BY <1>p, <2>1 DEF Remains
<1>6. \A s, q \in RedisThreads : Serves(s, u)' /\ Serves(q, u)' => s = q
  BY <1>2 DEF InOrder, Threads
<1>7. CASE TellOnline(r) /\ call[r].user = u
  <2>1. Works /\ told'[u] = "online" /\ UNCHANGED welcomed /\ Goto(r, "ids")
    BY <1>7 DEF TellOnline, Published, Typed, RedisTypes
  <2>2. call'[r].step = "ids" /\ Serves(r, u) /\ Serves(r, u)'
    BY <1>p, <1>t, <1>7, <2>1 DEF Goto, Serves, Typed, CallTypes, Calls
  <2>3. \A s \in RedisThreads : Serves(s, u)' => s = r
    BY <1>6, <2>2
  <2>4. \A w \in Workers : ~Serves(w, u)'
    BY <1>1, <1>4, <1>7, <1>t DEF Serves, LeaveAlone, Alone
  <2>5. InOrder(u)'
    BY <1>6, <2>1, <2>2, <2>3, <2>4 DEF InOrder
  <2>6. Announced(u)'
    BY <1>t, <2>1, <2>2 DEF Announced
  <2>7. QED
    BY <1>5, <2>5, <2>6
<1>8. CASE TellOnline(r) /\ call[r].user # u
  <2>1. told'[u] = told[u] /\ UNCHANGED welcomed
    BY <1>8 DEF TellOnline, Published, Typed, RedisTypes
  <2>2. ~Serves(r, u)
    BY <1>8 DEF Serves
  <2>3. \A t \in Threads : Serves(t, u) => Serves(t, u)' /\ call'[t] = call[t]
    BY <1>1, <1>3, <2>2
  <2>4. Announced(u)'
    BY <1>4, <1>p, <2>1, <2>3 DEF Announced, Sessions
  <2>5. InOrder(u)'
    BY <1>1, <1>2, <1>6, <1>t, <2>1, <2>2 DEF InOrder, Threads
  <2>6. QED
    BY <1>5, <2>4, <2>5
<1>9. CASE Answer(r)
  <2>1. /\ UNCHANGED told /\ Return(r)
        /\ welcomed' = welcomed \union ({c} \intersect {d \in Conns : peer[d] # None})
    BY <1>9 DEF Answer, Welcome, redisVars
  <2>2. ~Serves(r, u)'
    BY <1>t, <2>1 DEF Return, Idle, Serves, Typed, CallTypes
  <2>3. Serves(r, u) => told[u] = "online" /\ c \in Sessions(u)'
    <3>1. ASSUME Serves(r, u) PROVE told[u] = "online" /\ peer[c] = u
      BY <1>9, <3>1 DEF Answer, InOrder, Remains
    <3>2. QED
      BY <1>p, <2>1, <3>1 DEF Sessions
  <2>4. Sessions(u) \subseteq Sessions(u)' /\ Sessions(u)' \subseteq Sessions(u) \union {c}
    BY <1>p, <2>1 DEF Sessions
  <2>5. c \in Sessions(u)' => c \in crossed \/ Serves(r, u)
    BY <1>p DEF Sessions, Serves, Sessioned, Belongs
  <2>6. Announced(u)'
    BY <1>3, <1>4, <1>p, <2>1, <2>3, <2>4, <2>5 DEF Announced
  <2>7. InOrder(u)'
    BY <1>1, <1>2, <1>6, <1>t, <2>1, <2>2 DEF InOrder, Threads
  <2>8. QED
    BY <1>5, <2>6, <2>7
<1>10. CASE ~TellOnline(r) /\ ~Answer(r)
  <2>u. UNCHANGED <<told, welcomed>>
    BY <1>10 DEF UserConnect, Verify, Delete, Friends, FriendsAgain, SetIds, Store, Arm, Refuse,
       redisVars
  <2>1. CASE Serves(r, u)'
    <3>0. Serves(r, u) /\ call'[r].conn = c
      BY <1>p, <2>1 DEF Serves
    <3>1. call'[r].step \in {"ids", "store", "arm", "answer"}
            <=> call[r].step \in {"ids", "store", "arm", "answer"}
      BY <1>10, <1>t DEF UserConnect, Verify, Delete, Friends, FriendsAgain, SetIds, Store, Arm,
         Refuse, Return, Goto, Die, Idle, Serves, Typed, CallTypes, Calls
    <3>2. InOrder(u)'
      BY <1>1, <1>2, <1>6, <1>t, <2>u, <2>1, <3>0, <3>1 DEF InOrder, Threads
    <3>3. Announced(u)'
      BY <1>3, <1>4, <1>p, <1>t, <2>u, <2>1 DEF Announced, Sessions
    <3>4. QED
      BY <1>5, <3>2, <3>3
  <2>2. CASE ~Serves(r, u)'
    <3>1. Serves(r, u) /\ told[u] = "online" => Sessions(u) # {}
      <4>1. Serves(r, u) => call[r].step \in {"verify", "delete", "friends"}
        BY <1>10, <1>t, <2>2 DEF UserConnect, Verify, Delete, Friends, FriendsAgain, SetIds, Store,
           Arm, Goto, Die, Serves, Typed, CallTypes, Calls
      <4>2. QED
        BY <4>1 DEF InOrder, Remains, Sessions
    <3>2. Announced(u)'
      BY <1>3, <1>4, <1>p, <2>u, <3>1 DEF Announced, Sessions
    <3>3. InOrder(u)'
      BY <1>1, <1>2, <1>6, <1>t, <2>u, <2>2 DEF InOrder, Threads
    <3>4. QED
      BY <1>5, <3>2, <3>3
  <2>3. QED
    BY <2>1, <2>2
<1>11. QED
  BY <1>7, <1>8, <1>9, <1>10

LEMMA UserDisConnectFaithful ==
  ASSUME Typed, LeaveAlone, NEW v \in Workers, UserDisConnect(v),
         NEW u \in Users \ disturbed', Faithful(u)
  PROVE  Faithful(u)'
<1> USE DEF Faithful
<1>t. v \in Threads /\ \A r \in RedisThreads : r \in Threads /\ r # v
  BY DEF Threads
<1>1. /\ UNCHANGED <<waiting, peer, crossed, welcomed>> /\ disturbed \subseteq disturbed'
      /\ \A t \in Threads : t # v => call'[t] = call[t]
  BY DEF UserDisConnect, Leave, TellOffline, Forget, Erase, Goto, Return, Die, redisVars, clientVars,
     historyVars, Typed, CallTypes
<1>2. \A r \in RedisThreads : call'[r] = call[r]
  BY <1>t, <1>1
<1>3. Remains(u)' /\ UNCHANGED Sessions(u)
  BY <1>1, <1>2 DEF Remains, Serves, Sessions
<1>4. CASE Leave(v)
  <2>1. PICK left \in owed :
           /\ owed' = owed \ {left}
           /\ call' = [call EXCEPT ![v] = [step |-> "offline", conn |-> left[1],
                          client |-> left[2], user |-> userPk[left[1]], token |-> None]]
           /\ userPk[left[1]] # left[2] /\ told[left[2]] = "online" => left[2] \in disturbed'
    BY <1>4 DEF Leave
  <2>2. UNCHANGED told /\ call[v].step = "idle"
    BY <1>4 DEF Leave, redisVars
  <2>3. call'[v].step = "offline" /\ call'[v].user = userPk[left[1]]
    BY <1>t, <2>1 DEF Typed, CallTypes
  <2>4. left = <<left[1], left[2]>>
    BY DEF Typed, ClientTypes
  <2>5. \A t \in Threads : Serves(t, u) => Serves(t, u)'
    BY <1>1, <2>2 DEF Serves
  <2>6. told[u] = "online" /\ left[2] = u => Serves(v, u)'
    BY <2>1, <2>3 DEF Serves
  <2>7. Announced(u)'
    BY <1>1, <1>3, <1>t, <2>1, <2>2, <2>4, <2>5, <2>6 DEF Announced
  <2>8. InOrder(u)'
    BY <1>1, <1>2, <2>2, <2>3 DEF InOrder, Serves, Threads
  <2>9. QED
    BY <1>3, <2>7, <2>8
<1>5. CASE TellOffline(v)
  <2>1. /\ UNCHANGED owed /\ call[v].step = "offline" /\ Goto(v, "forget")
        /\ \/ told' = Published(call[v].user, "offline")
           \/ call[v].user # u /\ UNCHANGED told
    BY <1>5 DEF TellOffline, clientVars
  <2>2. call'[v].step = "forget" /\ call'[v].user = call[v].user
    BY <1>t, <2>1 DEF Goto, Typed, CallTypes, Calls
  <2>3. CASE call[v].user = u
    <3>1. told'[u] = "offline"
      BY <2>1, <2>3 DEF Published, Typed, RedisTypes
    <3>2. Sessions(u) \subseteq crossed /\ \A r \in RedisThreads : ~Serves(r, u)
      BY <1>1, <2>1, <2>3 DEF LeaveAlone, Alone, Serves
    <3>3. QED
      BY <1>1, <1>2, <1>3, <3>1, <3>2 DEF Announced, InOrder, Serves
  <2>4. CASE call[v].user # u
    <3>1. told'[u] = told[u]
      BY <2>1, <2>4 DEF Published, Typed, RedisTypes
    <3>2. \A t \in Threads : /\ Serves(t, u)' <=> Serves(t, u)
                             /\ Serves(t, u) => call'[t] = call[t]
      BY <1>1, <2>2, <2>4 DEF Serves
    <3>3. Announced(u)'
      BY <1>1, <1>3, <2>1, <3>1, <3>2 DEF Announced
    <3>4. InOrder(u)'
      BY <1>1, <3>1, <3>2 DEF InOrder, Threads
    <3>5. QED
      BY <1>3, <3>3, <3>4
  <2>5. QED
    BY <2>3, <2>4
<1>6. CASE Forget(v) \/ Erase(v)
  <2>1. /\ UNCHANGED <<told, owed>> /\ call[v].step \in {"forget", "erase"}
        /\ Return(v) \/ Goto(v, "erase") \/ UNCHANGED call
    BY <1>6 DEF Forget, Erase, Die, redisVars, clientVars
  <2>2. Return(v) => call'[v].step = "idle"
    BY <1>t DEF Return, Idle, Typed, CallTypes
  <2>3. Goto(v, "erase") => call'[v].step = "erase" /\ call'[v].user = call[v].user
    BY <1>t DEF Goto, Typed, CallTypes, Calls
  <2>4. \A t \in Threads : Serves(t, u)' =>
          /\ Serves(t, u)
          /\ call'[t] = call[t] \/ (t = v /\ call[v].step \in {"forget", "erase"})
    BY <1>1, <2>1, <2>2, <2>3 DEF Serves
  <2>5. told[u] = "online" => \A t \in Threads : Serves(t, u) => Serves(t, u)'
    BY <1>1, <2>1 DEF InOrder, Serves
  <2>6. Announced(u)'
    BY <1>1, <1>3, <2>1, <2>5 DEF Announced
  <2>7. InOrder(u)'
    <3>1. \A r, s \in RedisThreads : Serves(r, u)' /\ Serves(s, u)' => r = s
      BY <1>1, <2>4 DEF InOrder, Threads
    <3>2. \A r \in RedisThreads : Serves(r, u)' =>
            IF call'[r].step \in {"ids", "store", "arm", "answer"}
            THEN told'[u] = "online"
            ELSE told'[u] = "online" => call'[r].conn \in welcomed'
      BY <1>1, <1>2, <2>1, <2>4 DEF InOrder, Threads
    <3>3. \A w \in Workers : Serves(w, u)' /\ call'[w].step \in {"forget", "erase"} => told'[u] # "online"
      BY <1>1, <2>1, <2>4 DEF InOrder, Threads
    <3>4. QED
      BY <3>1, <3>2, <3>3 DEF InOrder
  <2>8. QED
    BY <1>3, <2>6, <2>7
<1>7. QED
  BY <1>4, <1>5, <1>6 DEF UserDisConnect

AllFaithful == \A u \in Users \ disturbed : Faithful(u)

LEMMA InitFaithful == Init => AllFaithful
<1> SUFFICES ASSUME Init, NEW u \in Users PROVE Faithful(u)
  BY DEF AllFaithful
<1>1. Len(waiting) = 0 /\ \A t \in Threads : ~Serves(t, u)
  BY DEF Init, Idle, Serves
<1>2. Sessions(u) = {} /\ told[u] = "nothing"
  BY DEF Init, Sessions
<1>3. QED
  BY <1>1, <1>2 DEF Faithful, Announced, Remains, InOrder, Threads

LEMMA StepFaithful ==
  Typed /\ Sessioned /\ LeaveAlone /\ AllFaithful /\ [Next]_vars => AllFaithful'
<1> SUFFICES ASSUME Typed, Sessioned, LeaveAlone, AllFaithful, [Next]_vars,
                    NEW u \in Users \ disturbed'
             PROVE  Faithful(u)'
  BY DEF AllFaithful
<1>1. u \notin disturbed
  BY DEF Next, Environment, Server, Fade, Issue, Connect, Request, Disconnect, Register,
     UserConnect, Enter, Verify, Delete, Friends, FriendsAgain, TellOnline, SetIds, Store, Arm,
     Answer, UserDisConnect, Leave, TellOffline, Forget, Erase, historyVars, vars
<1>2. Faithful(u)
  BY <1>1 DEF AllFaithful
<1>3. CASE UNCHANGED vars \/ (\E v \in Users : Fade(v))
  BY <1>2, <1>3 DEF vars, Fade, redisVars, clientVars, historyVars, Faithful, Announced, Remains,
     InOrder, Serves, Sessions
<1>4. QED
  BY <1>2, <1>3, EnvironmentFaithful, EnterFaithful, UserConnectFaithful, UserDisConnectFaithful
     DEF Next, Server

(* What friends were told last is whether the user has a session, when no   *)
(* call about him is under way and nothing disturbed him                    *)
(* (RedisManager.cpp:205-240, 242-310).                                     *)
THEOREM FriendsKnow == Spec => []ToldIsTrue
<1>1. Init => LeaveAlone
  BY DEF Init, Idle, LeaveAlone, Threads
<1>2. Spec => [](Typed /\ Sessioned /\ LeaveAlone /\ AllFaithful)
  BY <1>1, InitTyped, StepTyped, InitSessioned, StepSessioned, StepAlone, InitFaithful,
     StepFaithful, PTL DEF Spec
<1>3. AllFaithful => ToldIsTrue
  BY DEF AllFaithful, Faithful, Announced, ToldIsTrue, Quiet, About, Serves
<1>4. QED
  BY <1>2, <1>3, PTL
============================================================================
