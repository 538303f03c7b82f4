-------------------------- MODULE ServerLifeProofs --------------------------
(***************************************************************************)
(* Proofs about ServerLife, for any number of threads and connections:     *)
(* which connections have an object, and what is closed when; and about    *)
(* Heartbeat, which runs as long as the server does: types, that a healthy *)
(* server stays in the pool, and that Stop returns in bounded time.        *)
(***************************************************************************)
EXTENDS ServerLife, Heartbeat, TLAPS

USE LifeAssumption DEF LifeAssumption

(* Where the main thread is after it joined the threads.                    *)
Joining == {"heartbeat", "subscriber", "close", "ended"}

Serving == {"serving", "noaccept", "wake", "join"} \union Joining

Typed ==
  /\ main \in {"workers", "accepters", "push", "insert"} \union Serving
  /\ i \in 0 .. maxClientCount /\ (main = "insert" => i \in Conns \ {Skipped})
  /\ workThreads \in Seq(Threads) /\ at \in [Threads -> {"none", "test", "body", "exited"}]
  /\ acceptQueue \in Seq(Conns) /\ users \subseteq Conns
  /\ posted \subseteq Conns /\ connected \subseteq Conns
  /\ iocp \in Seq(Conns \union {Wakeup})

LEMMA SeqSteps ==
  ASSUME NEW S, NEW s \in Seq(S)
  PROVE  /\ s # <<>> => Head(s) \in S /\ Tail(s) \in Seq(S)
         /\ \A e \in S : Append(s, e) \in Seq(S)
  OBVIOUS

(* What ToSet says of the sequences the code builds.                        *)
LEMMA ToSetAppend ==
  ASSUME NEW S, NEW s \in Seq(S), NEW e \in S
  PROVE  ToSet(Append(s, e)) = ToSet(s) \union {e}
  BY DEF ToSet

LEMMA ToSetTail ==
  ASSUME NEW S, NEW s \in Seq(S), s # <<>>
  PROVE  ToSet(Tail(s)) \subseteq ToSet(s) /\ Head(s) \in ToSet(s)
<1>1. \A k \in DOMAIN Tail(s) : Tail(s)[k] = s[k + 1] /\ k + 1 \in DOMAIN s
  OBVIOUS
<1>2. Head(s) = s[1] /\ 1 \in DOMAIN s
  OBVIOUS
<1>3. QED
  BY <1>1, <1>2 DEF ToSet

LEMMA ToSetConcat ==
  ASSUME NEW S, NEW s \in Seq(S), NEW r \in Seq(S)
  PROVE  ToSet(s \o r) = ToSet(s) \union ToSet(r)
<1>1. ASSUME NEW x \in ToSet(s \o r) PROVE x \in ToSet(s) \union ToSet(r)
  <2>1. PICK k \in 1 .. Len(s) + Len(r) : x = (s \o r)[k]
    BY <1>1 DEF ToSet
  <2>2. CASE k <= Len(s)
    BY <2>1, <2>2 DEF ToSet
  <2>3. CASE k > Len(s)
    <3>1. x = r[k - Len(s)] /\ k - Len(s) \in 1 .. Len(r)
      BY <2>1, <2>3
    <3>2. QED
      BY <3>1 DEF ToSet
  <2>4. QED
    BY <2>1, <2>2, <2>3
<1>2. ASSUME NEW x \in ToSet(s) PROVE x \in ToSet(s \o r)
  <2>1. PICK k \in 1 .. Len(s) : x = s[k]
    BY <1>2 DEF ToSet
  <2>2. (s \o r)[k] = s[k] /\ k \in 1 .. Len(s \o r)
    BY <2>1
  <2>3. QED
    BY <2>1, <2>2 DEF ToSet
<1>3. ASSUME NEW x \in ToSet(r) PROVE x \in ToSet(s \o r)
  <2>1. PICK k \in 1 .. Len(r) : x = r[k]
    BY <1>3 DEF ToSet
  <2>2. (s \o r)[Len(s) + k] = r[k] /\ Len(s) + k \in 1 .. Len(s \o r)
    BY <2>1
  <2>3. QED
    BY <2>1, <2>2 DEF ToSet
<1>4. QED
  BY <1>1, <1>2, <1>3

LEMMA WakeupsTyped ==
  ASSUME workThreads \in Seq(Threads)
  PROVE  Wakeups \in Seq({Wakeup}) /\ ToSet(Wakeups) \subseteq {Wakeup}
<1>1. Len(workThreads) \in Nat
  OBVIOUS
<1>2. QED
  BY <1>1 DEF Wakeups, ToSet

----------------------------------------------------------------------------
LEMMA InitTyped == Init => Typed
  BY DEF Init, Typed, Conns

LEMMA MainTyped == Typed /\ (StartWork \/ ServerEnd) => Typed'
<1> SUFFICES ASSUME Typed, StartWork \/ ServerEnd PROVE Typed'
  OBVIOUS
<1> USE DEF Typed, Serving, Joining
<1>1. CASE CreateWorkThread
  <2>1. CASE \E t \in Workers \ Started : StartThread(t)
    <3>1. PICK t \in Workers : StartThread(t)
      BY <2>1
    <3>2. t \in Threads
      BY DEF Threads
    <3>3. workThreads' \in Seq(Threads) /\ at' \in [Threads -> {"none", "test", "body", "exited"}]
      BY <3>1, <3>2 DEF StartThread
    <3>4. QED
      BY <1>1, <3>3 DEF CreateWorkThread, connVars
  <2>2. CASE UNCHANGED <<workThreads, at>>
    BY <1>1, <2>2 DEF CreateWorkThread, connVars
  <2>3. QED
    BY <1>1, <2>1, <2>2 DEF CreateWorkThread
<1>2. CASE CreateAccepterThread
  <2>1. CASE \E t \in Accepters \ Started : StartThread(t)
    <3>1. PICK t \in Accepters : StartThread(t)
      BY <2>1
    <3>2. t \in Threads
      BY DEF Threads
    <3>3. workThreads' \in Seq(Threads) /\ at' \in [Threads -> {"none", "test", "body", "exited"}]
      BY <3>1, <3>2 DEF StartThread
    <3>4. QED
      BY <1>2, <3>3 DEF CreateAccepterThread, connVars
  <2>2. CASE UNCHANGED <<workThreads, at>>
    BY <1>2, <2>2 DEF CreateAccepterThread, connVars
  <2>3. QED
    BY <1>2, <2>1, <2>2 DEF CreateAccepterThread
<1>3. CASE PushUser
  <2>1. i \in Nat /\ (main' = "insert" => i \in Conns)
    BY <1>3 DEF PushUser, PushOrSkip, Conns
  <2>2. acceptQueue' \in Seq(Conns)
    <3>1. CASE acceptQueue' = Append(acceptQueue, i) /\ main' = "insert"
      BY <2>1, <3>1, SeqSteps
    <3>2. CASE UNCHANGED acceptQueue
      BY <3>2
    <3>3. QED
      BY <1>3, <3>1, <3>2 DEF PushUser, PushOrSkip
  <2>3. i' \in 0 .. maxClientCount /\ (main' = "insert" => i' \in Conns \ {Skipped})
    BY <1>3 DEF PushUser, PushOrSkip, Conns
  <2>4. QED
    BY <1>3, <2>2, <2>3 DEF PushUser, PushOrSkip, threadVars
<1>4. CASE InsertUser
  <2>1. i \in Conns /\ i + 1 \in 0 .. maxClientCount
    BY <1>4 DEF InsertUser, Conns
  <2>2. i' \in 0 .. maxClientCount /\ users' \subseteq Conns /\ main' = "push"
    BY <1>4, <2>1 DEF InsertUser
  <2>3. QED
    BY <1>4, <2>2 DEF InsertUser, threadVars
<1>5. CASE PostWakeups
  <2>1. Wakeups \in Seq(Conns \union {Wakeup})
    BY WakeupsTyped
  <2>2. iocp' \in Seq(Conns \union {Wakeup})
    BY <1>5, <2>1 DEF PostWakeups
  <2>3. QED
    BY <1>5, <2>2 DEF PostWakeups, threadVars
<1>6. CASE NoMoreWork \/ NoMoreAccepts \/ JoinThreads
  BY <1>6 DEF NoMoreWork, NoMoreAccepts, JoinThreads, threadVars, connVars
<1>7. CASE StopHeartbeat \/ StopSubscriber \/ Close
  BY <1>7 DEF StopHeartbeat, StopSubscriber, Close, threadVars, connVars
<1>8. QED
  BY <1>1, <1>2, <1>3, <1>4, <1>5, <1>6, <1>7 DEF StartWork, ServerEnd, EndRest

LEMMA ThreadTyped ==
  ASSUME Typed, NEW t \in Threads,
         TestRun(t) \/ AcceptOne(t) \/ Woken(t) \/ Complete(t) \/ FindsNull(t)
  PROVE  Typed'
<1> USE DEF Typed
<1>1. CASE TestRun(t)
  BY <1>1 DEF TestRun, connVars
<1>2. CASE AcceptOne(t)
  <2>1. acceptQueue # <<>> => /\ Head(acceptQueue) \in Conns
                              /\ Tail(acceptQueue) \in Seq(Conns)
                              /\ Append(Tail(acceptQueue), Head(acceptQueue)) \in Seq(Conns)
    BY SeqSteps
  <2>2. acceptQueue' \in Seq(Conns) /\ posted' \subseteq Conns
    BY <1>2, <2>1 DEF AcceptOne
  <2>3. QED
    BY <1>2, <2>2 DEF AcceptOne, BackToTest
<1>3. CASE Woken(t)
  BY <1>3 DEF Woken, BackToTest
<1>4. CASE Complete(t)
  <2>1. Head(iocp) \in Conns /\ iocp' \in Seq(Conns \union {Wakeup})
    BY <1>4, SeqSteps DEF Complete
  <2>2. Append(acceptQueue, Head(iocp)) \in Seq(Conns)
    BY <2>1, SeqSteps
  <2>3. acceptQueue' \in Seq(Conns) /\ connected' \subseteq Conns
    BY <1>4, <2>1, <2>2 DEF Complete
  <2>4. QED
    BY <1>4, <2>1, <2>3 DEF Complete, BackToTest
<1>5. CASE FindsNull(t)
  BY <1>5 DEF FindsNull, threadVars, connVars
<1>6. QED
  BY <1>1, <1>2, <1>3, <1>4, <1>5

LEMMA StepTyped == Typed /\ [Next]_vars => Typed'
<1> SUFFICES ASSUME Typed, [Next]_vars PROVE Typed'
  OBVIOUS
<1>1. CASE UNCHANGED vars
  BY <1>1 DEF vars, threadVars, connVars, Typed
<1>2. CASE Beat \/ Consume
  BY <1>2 DEF Beat, Consume, threadVars, connVars, Typed
<1>3. ASSUME NEW c \in Conns, Client(c) PROVE Typed'
  <2>1. iocp' \in Seq(Conns \union {Wakeup}) /\ posted' \subseteq Conns
    BY <1>3 DEF Client, Typed
  <2>2. QED
    BY <1>3, <2>1 DEF Client, threadVars, Typed
<1>4. QED
  BY <1>1, <1>2, <1>3, MainTyped, ThreadTyped DEF Next, WorkThread, AccepterThread, Threads

----------------------------------------------------------------------------
(* Every connection that is anywhere has its object, or StartWork is about  *)
(* to put it into the table.                                                *)
Known(c) == c \in users \/ (main = "insert" /\ i = c)

Present ==
  /\ \A c \in ToSet(acceptQueue) \union posted \union connected : Known(c)
  /\ \A c \in ToSet(iocp) \ {Wakeup} : Known(c)

(* Nothing new is known of: it is enough that no connection appears.        *)
LEMMA NothingAppears ==
  ASSUME Present, \A c \in Conns : Known(c) => Known(c)',
         ToSet(acceptQueue') \union posted' \union connected'
           \subseteq ToSet(acceptQueue) \union posted \union connected \union (ToSet(iocp) \ {Wakeup}),
         ToSet(iocp') \ {Wakeup}
           \subseteq ToSet(iocp) \union posted \union connected,
         Typed
  PROVE  Present'
<1>1. /\ ToSet(acceptQueue) \subseteq Conns /\ ToSet(iocp) \subseteq Conns \union {Wakeup}
      /\ posted \subseteq Conns /\ connected \subseteq Conns
  BY DEF Typed, ToSet
<1>2. QED
  BY <1>1 DEF Present

LEMMA StepPresent == Typed /\ Present /\ [Next]_vars => Present'
<1> SUFFICES ASSUME Typed, Present, [Next]_vars PROVE Present'
  OBVIOUS
<1>k. users \subseteq users' /\ (main # "insert" \/ UNCHANGED <<main, i>>)
        => \A c \in Conns : Known(c) => Known(c)'
  BY DEF Known
<1>1. CASE UNCHANGED connVars /\ (main # "insert" \/ UNCHANGED <<main, i>>)
  BY <1>1, <1>k, NothingAppears DEF connVars
<1>2. CASE PushUser
  <2>1. CASE main' = "insert"
    <3>1. /\ acceptQueue' = Append(acceptQueue, i) /\ UNCHANGED <<users, posted, connected, iocp, i>>
          /\ main = "push" /\ i \in Conns
      BY <1>2, <2>1 DEF PushUser, PushOrSkip, Typed, Conns
    <3>2. ToSet(acceptQueue') = ToSet(acceptQueue) \union {i}
      BY <3>1, ToSetAppend DEF Typed
    <3>3. QED
      BY <2>1, <3>1, <3>2 DEF Present, Known
  <2>2. CASE main' # "insert"
    BY <1>2, <2>2, <1>1 DEF PushUser, PushOrSkip, connVars
  <2>3. QED
    BY <2>1, <2>2
<1>3. CASE InsertUser
  BY <1>3 DEF InsertUser, Present, Known, Typed
<1>4. CASE PostWakeups
  <2>1. ToSet(iocp') \subseteq ToSet(iocp) \union {Wakeup}
    <3>1. Wakeups \in Seq(Conns \union {Wakeup}) /\ iocp \in Seq(Conns \union {Wakeup})
      BY WakeupsTyped DEF Typed
    <3>2. QED
      BY <1>4, <3>1, ToSetConcat, WakeupsTyped DEF PostWakeups, Typed
  <2>2. QED
    BY <1>4, <2>1, <1>k, NothingAppears DEF PostWakeups
<1>5. ASSUME NEW t \in Threads, AcceptOne(t) PROVE Present'
  <2>1. UNCHANGED <<users, main, i, connected, iocp>>
    BY <1>5 DEF AcceptOne
  <2>2. CASE acceptQueue # <<>>
    <3>1. Tail(acceptQueue) \in Seq(Conns) /\ Head(acceptQueue) \in Conns
      BY <2>2, SeqSteps DEF Typed
    <3>2. /\ ToSet(Tail(acceptQueue)) \subseteq ToSet(acceptQueue)
          /\ Head(acceptQueue) \in ToSet(acceptQueue)
      BY <2>2, ToSetTail DEF Typed
    <3>3. ToSet(Append(Tail(acceptQueue), Head(acceptQueue)))
            = ToSet(Tail(acceptQueue)) \union {Head(acceptQueue)}
      <4> DEFINE q == Tail(acceptQueue)
                 e == Head(acceptQueue)
      <4>1. q \in Seq(Conns) /\ e \in Conns
        BY <3>1
      <4> HIDE DEF q, e
      <4>2. ToSet(Append(q, e)) = ToSet(q) \union {e}
        BY <4>1, ToSetAppend
      <4>3. QED
        BY <4>2 DEF q, e
    <3>4. ToSet(acceptQueue') \union posted' \subseteq ToSet(acceptQueue) \union posted
      BY <1>5, <2>2, <3>2, <3>3 DEF AcceptOne
    <3>5. QED
      BY <2>1, <3>4, <1>k, NothingAppears
  <2>3. CASE acceptQueue = <<>>
    BY <1>5, <2>1, <2>3, <1>1 DEF AcceptOne, connVars
  <2>4. QED
    BY <2>2, <2>3
<1>6. ASSUME NEW t \in Threads, Woken(t) PROVE Present'
  <2>1. ToSet(iocp') \subseteq ToSet(iocp)
    BY <1>6, ToSetTail DEF Woken, Typed
  <2>2. QED
    BY <1>6, <2>1, <1>k, NothingAppears DEF Woken
<1>7. ASSUME NEW t \in Threads, Complete(t) PROVE Present'
  <2> DEFINE c == Head(iocp)
  <2>1. iocp \in Seq(Conns \union {Wakeup}) /\ iocp # <<>> /\ c \in Conns
    BY <1>7 DEF Complete, Typed
  <2>2. ToSet(iocp') \subseteq ToSet(iocp) /\ c \in ToSet(iocp) \ {Wakeup}
    BY <1>7, <2>1, ToSetTail DEF Complete
  <2>3. ToSet(acceptQueue') \subseteq ToSet(acceptQueue) \union {c}
    <3>1. CASE UNCHANGED acceptQueue
      BY <3>1
    <3>2. CASE acceptQueue' = Append(acceptQueue, c)
      BY <2>1, <3>2, ToSetAppend DEF Typed
    <3>3. QED
      BY <1>7, <3>1, <3>2 DEF Complete
  <2>4. connected' \subseteq connected \union {c}
    BY <1>7 DEF Complete
  <2>5. QED
    BY <1>7, <2>2, <2>3, <2>4, <1>k, NothingAppears DEF Complete
<1>8. ASSUME NEW c \in Conns, Client(c) PROVE Present'
  <2>1. c \in posted \union connected /\ posted' \subseteq posted
    BY <1>8 DEF Client
  <2>2. ToSet(iocp') = ToSet(iocp) \union {c}
    BY <1>8, ToSetAppend DEF Client, Typed
  <2>3. QED
    BY <1>8, <2>1, <2>2, <1>k, NothingAppears DEF Client
<1>9. CASE Beat \/ Consume \/ (\E t \in Threads : TestRun(t) \/ FindsNull(t)) \/ UNCHANGED vars
  BY <1>9, <1>1 DEF Beat, Consume, TestRun, FindsNull, vars
<1>10. CASE \/ CreateWorkThread \/ CreateAccepterThread \/ NoMoreWork \/ NoMoreAccepts
            \/ JoinThreads \/ StopHeartbeat \/ StopSubscriber \/ Close
  BY <1>10, <1>1 DEF CreateWorkThread, CreateAccepterThread, NoMoreWork, NoMoreAccepts,
     JoinThreads, StopHeartbeat, StopSubscriber, Close
<1>11. QED
  BY <1>2, <1>3, <1>4, <1>5, <1>6, <1>7, <1>8, <1>9, <1>10 DEF Next, StartWork, ServerEnd,
     EndRest, WorkThread, AccepterThread, Threads

(* No worker looks for a connection without an object, other than the one   *)
(* StartWork has queued and not yet entered in the table                    *)
(* (OutGameLobbyServer.cpp:77-84).                                          *)
THEOREM UsersAreFound == Spec => []FindsUsers
<1>1. Init => Present
  BY DEF Init, Present, ToSet
<1>2. Typed /\ Present => FindsUsers
  BY DEF Present, Known, FindsUsers
<1>3. QED
  BY <1>1, <1>2, InitTyped, StepTyped, StepPresent, PTL DEF Spec

----------------------------------------------------------------------------
(* What is over by the time the main thread has come so far.                *)
Over ==
  /\ main \in Joining => \A t \in Started : at[t] = "exited"
  /\ main \in {"subscriber", "close", "ended"} => beating = "stopped"
  /\ main \in {"close", "ended"} => listening = "stopped"
  /\ closed => main = "ended"

LEMMA StepOver == Typed /\ Over /\ [Next]_vars => Over'
<1> SUFFICES ASSUME Typed, Over, [Next]_vars PROVE Over'
  OBVIOUS
<1> USE DEF Over, Joining
<1>1. CASE CreateWorkThread \/ CreateAccepterThread \/ PushUser \/ InsertUser
  BY <1>1 DEF CreateWorkThread, CreateAccepterThread, PushUser, PushOrSkip, InsertUser, sideVars
<1>2. CASE NoMoreWork \/ NoMoreAccepts \/ PostWakeups
  BY <1>2 DEF NoMoreWork, NoMoreAccepts, PostWakeups, sideVars, threadVars
<1>3. CASE JoinThreads
  BY <1>3 DEF JoinThreads, Joined, Started, sideVars, threadVars
<1>4. CASE StopHeartbeat \/ StopSubscriber \/ Close \/ Beat \/ Consume
  BY <1>4 DEF StopHeartbeat, StopSubscriber, Close, Beat, Consume, Started, threadVars
<1>5. ASSUME NEW t \in Threads,
             TestRun(t) \/ AcceptOne(t) \/ Woken(t) \/ Complete(t) \/ FindsNull(t)
      PROVE  Over'
  <2>1. /\ UNCHANGED <<main, workThreads, beating, listening, closed>>
        /\ \A s \in Threads : at[s] = "exited" => at'[s] = "exited"
    BY <1>5 DEF TestRun, AcceptOne, Woken, Complete, FindsNull, BackToTest, threadVars, sideVars,
       Typed
  <2>2. Started \subseteq Threads /\ Started' = Started
    BY <2>1 DEF Started, ToSet, Typed
  <2>3. QED
    BY <2>1, <2>2
<1>6. CASE UNCHANGED vars \/ (\E c \in Conns : Client(c))
  BY <1>6 DEF vars, Client, threadVars, sideVars, Started
<1>7. QED
  BY <1>1, <1>2, <1>3, <1>4, <1>5, <1>6 DEF Next, StartWork, ServerEnd, EndRest, WorkThread,
     AccepterThread, Threads

(* The completion port is closed after the last thread that uses it has     *)
(* ended, however many of them StartWork started                            *)
(* (OutGameLobbyServer.cpp:98-113).                                         *)
THEOREM ClosedLast == Spec => []ClosedAfterThreads
<1>1. Init => Over
  BY DEF Init, Over, Joining
<1>2. Over => ClosedAfterThreads
  BY DEF Over, Joining, ClosedAfterThreads
<1>3. QED
  BY <1>1, <1>2, InitTyped, StepTyped, StepOver, PTL DEF Spec

----------------------------------------------------------------------------
(***************************************************************************)
(* The heartbeat, which init starts and ServerEnd stops first, for every   *)
(* period, time to live, delay and number of failures in a row.            *)
(***************************************************************************)

(* How long the loop may have been where it is, and that it only deletes    *)
(* after it was stopped.                                                    *)
Timed ==
  /\ phase = "test" => timer = 0
  /\ InCall => timer <= MaxDelay
  /\ phase = "sleep" => timer <= IntervalSec
  /\ running => phase \in {"test", "set", "sleep"}

Switches ==
  /\ running \in BOOLEAN /\ executed \in BOOLEAN
  /\ up \in BOOLEAN /\ listed \in BOOLEAN

Numbers ==
  /\ phase \in {"test", "set", "sleep", "del", "done"}
  /\ timer \in Nat /\ key \in 0 .. TtlSec /\ stopping \in Nat
  /\ fails \in 0 .. MaxFails /\ late \in 0 .. MaxLate

HBTyped == Switches /\ Numbers /\ Timed

(* The longest time between the end of two attempts to write.               *)
Period == MaxDelay + IntervalSec

(* What is left of the key's life: a full one after a SET was carried out,  *)
(* less the time of the call, of the sleep, and of a period for each        *)
(* failure since.                                                           *)
Left ==
  listed /\ running /\ up =>
    /\ phase = "test"               => key + (fails + 1) * Period >= TtlSec
    /\ phase = "set" /\ ~executed   => key + (fails + 1) * Period + timer >= TtlSec
    /\ phase = "set" /\ executed    => key + timer >= TtlSec
    /\ phase = "sleep"              => key + fails * Period + MaxDelay + timer >= TtlSec

(* Where the time since Stop went.                                          *)
Stopping ==
  /\ running => stopping = 0
  /\ phase = "set"   => stopping <= timer
  /\ phase = "sleep" => stopping <= MaxDelay + timer
  /\ phase = "test"  => stopping <= MaxDelay + IntervalSec
  /\ phase = "del"   => stopping <= MaxDelay + IntervalSec + timer
  /\ phase = "done"  => stopping <= StopTime

HIDE LifeAssumption DEF LifeAssumption
USE HeartbeatAssumption DEF HeartbeatAssumption, NewTtl, Sleeps, Aged, NextCall, After

LEMMA HBInitTyped == HBInit => HBTyped
<1>1. HBInit => Switches
  BY Zenon DEF HBInit, Switches
<1>2. HBInit => Numbers /\ Timed
  BY SMT DEF HBInit, Numbers, Timed, InCall
<1>3. QED
  BY <1>1, <1>2 DEF HBTyped

LEMMA StepSwitches == Switches /\ [HBNext]_hbVars => Switches'
<1> SUFFICES ASSUME Switches, [HBNext]_hbVars PROVE Switches'
  OBVIOUS
<1> USE DEF Switches, Enter
<1>1. CASE Loop
  BY <1>1, Zenon DEF Loop, Test, Answer, Fail, Wake
<1>2. CASE Execute
  BY <1>2, Zenon DEF Execute
<1>3. CASE ExecuteLate \/ Stop \/ Crash \/ Tick
  BY <1>3, Zenon DEF ExecuteLate, Stop, Crash, Tick
<1>4. CASE UNCHANGED hbVars
  BY <1>4, Zenon DEF hbVars
<1>5. QED
  BY <1>1, <1>2, <1>3, <1>4 DEF HBNext

LEMMA HBStepTyped == HBTyped /\ [HBNext]_hbVars => HBTyped'
<1> SUFFICES ASSUME HBTyped, [HBNext]_hbVars PROVE (Numbers /\ Timed)'
  BY StepSwitches DEF HBTyped
<1> USE DEF HBTyped, Numbers, Timed, InCall, Enter
<1>1. CASE Test
  BY <1>1, SMT DEF Test
<1>2. CASE Answer
  BY <1>2, SMT DEF Answer
<1>3. CASE Fail
  BY <1>3, SMT DEF Fail
<1>4. CASE Wake
  BY <1>4, SMT DEF Wake
<1>5. CASE Execute
  BY <1>5, SMT DEF Execute
<1>6. CASE ExecuteLate
  BY <1>6, SMT DEF ExecuteLate
<1>7. CASE Stop \/ Crash
  BY <1>7, SMT DEF Stop, Crash
<1>8. CASE Tick
  BY <1>8, SMT DEF Tick
<1>9. CASE UNCHANGED hbVars
  BY <1>9, SMT DEF hbVars
<1>10. QED
  BY <1>1, <1>2, <1>3, <1>4, <1>5, <1>6, <1>7, <1>8, <1>9 DEF HBNext, Loop

(* The state of the heartbeat keeps its types: the key lives TtlSec at the  *)
(* most, a command takes MaxDelay and a sleep IntervalSec at the most, and  *)
(* a loop that was not stopped never deletes the key                        *)
(* (LobbyHeartbeat.cpp:21-54).                                              *)
THEOREM HBTypeCorrect == HBSpec => []HBTypeOK
<1>1. HBSpec => []HBTyped
  BY HBInitTyped, HBStepTyped, PTL DEF HBSpec
<1>2. HBTyped => HBTypeOK
  BY DEF HBTyped, Switches, Numbers, Timed, HBTypeOK
<1>3. QED
  BY <1>1, <1>2, PTL

(* Writes come so often that the key does not run out in between            *)
(* (LobbyHeartbeat.cpp:28-44).                                              *)
LEMMA InitLeft == HBInit => Left
  BY SMT DEF HBInit, Left

LEMMA StepLeft == HBTyped /\ Left /\ [HBNext]_hbVars => Left'
<1> SUFFICES ASSUME HBTyped, Left, [HBNext]_hbVars, listed', running', up' PROVE Left'
  BY DEF Left
<1> USE DEF Left, HBTyped, Numbers, Timed, InCall, Enter
<1> DEFINE B == Period
<1>b. B \in Nat /\ B = MaxDelay + IntervalSec
  BY SMT DEF Period
<1>m. \A n \in Nat : /\ n * B \in Nat
                     /\ (n + 1) * B = n * B + B
  BY <1>b, SMT
<1>1. CASE Test
  BY <1>1, <1>b, <1>m, SMT DEF Test
<1>2. CASE Answer
  BY <1>2, <1>b, <1>m, SMT DEF Answer
<1>3. CASE Fail
  BY <1>3, <1>b, <1>m, SMT DEF Fail
<1>4. CASE Wake
  BY <1>4, <1>b, <1>m, SMT DEF Wake
<1>5. CASE Execute
  BY <1>5, <1>b, <1>m, SMT DEF Execute
<1>6. CASE ExecuteLate
  BY <1>6, <1>b, <1>m, SMT DEF ExecuteLate
<1>7. CASE Stop \/ Crash
  BY <1>7, SMT DEF Stop, Crash
<1>8. CASE Tick
  BY <1>8, <1>b, <1>m, SMT DEF Tick
<1>9. CASE UNCHANGED hbVars
  BY <1>9, SMT DEF hbVars
<1>10. QED
  BY <1>1, <1>2, <1>3, <1>4, <1>5, <1>6, <1>7, <1>8, <1>9 DEF HBNext, Loop

LEMMA LeftSuffices == HBTyped /\ Left => StaysListed
<1> SUFFICES ASSUME HBTyped, Left, Healthy, listed, running, up PROVE key > 0
  BY DEF StaysListed
<1> USE DEF HBTyped, Numbers, Timed, InCall
<1>1. Period \in Nat /\ Period = MaxDelay + IntervalSec
  BY SMT DEF Period
<1>2. (MaxFails + 1) * Period + MaxDelay < TtlSec
  BY <1>1, SMT DEF Healthy
<1>3. /\ fails * Period \in Nat
      /\ (fails + 1) * Period = fails * Period + Period
      /\ fails * Period + Period <= (MaxFails + 1) * Period
  BY <1>1, SMT
<1>4. CASE phase = "test"
  BY <1>1, <1>2, <1>3, <1>4, SMT DEF Left
<1>5. CASE phase = "set"
  <2>1. CASE executed
    BY <1>1, <1>2, <1>3, <1>5, <2>1, SMT DEF Left
  <2>2. CASE ~executed
    BY <1>1, <1>2, <1>3, <1>5, <2>2, SMT DEF Left
  <2>3. QED
    BY <2>1, <2>2
<1>6. CASE phase = "sleep"
  BY <1>1, <1>2, <1>3, <1>6, SMT DEF Left
<1>7. QED
  BY <1>4, <1>5, <1>6

(* Whatever the period, the time to live, the delays and the failures in a  *)
(* row: a server for which a write comes before the key runs out stays in   *)
(* the pool while it runs (LobbyHeartbeat.cpp:28-44).                       *)
THEOREM HealthyStaysListed == HBSpec => []StaysListed
<1>1. HBSpec => [](HBTyped /\ Left)
  BY HBInitTyped, HBStepTyped, InitLeft, StepLeft, PTL DEF HBSpec
<1>2. QED
  BY <1>1, LeftSuffices, PTL

LEMMA InitStopping == HBInit => Stopping
  BY SMT DEF HBInit, Stopping

LEMMA StepStopping == HBTyped /\ Stopping /\ [HBNext]_hbVars => Stopping'
<1> SUFFICES ASSUME HBTyped, Stopping, [HBNext]_hbVars PROVE Stopping'
  OBVIOUS
<1> USE DEF Stopping, HBTyped, Numbers, Timed, InCall, Enter, StopTime
<1>1. CASE Test
  BY <1>1, SMT DEF Test
<1>2. CASE Answer
  BY <1>2, SMT DEF Answer
<1>3. CASE Fail
  BY <1>3, SMT DEF Fail
<1>4. CASE Wake
  BY <1>4, SMT DEF Wake
<1>5. CASE Execute \/ ExecuteLate
  BY <1>5, SMT DEF Execute, ExecuteLate
<1>6. CASE Stop
  BY <1>6, SMT DEF Stop
<1>7. CASE Crash
  BY <1>7, SMT DEF Crash
<1>8. CASE Tick
  BY <1>8, SMT DEF Tick
<1>9. CASE UNCHANGED hbVars
  BY <1>9, SMT DEF hbVars
<1>10. QED
  BY <1>1, <1>2, <1>3, <1>4, <1>5, <1>6, <1>7, <1>8, <1>9 DEF HBNext, Loop

(* A loop that was asked to stop has ended after one period and the time    *)
(* two commands may take (LobbyHeartbeat.cpp:12-16).                        *)
THEOREM StopBounded == HBSpec => []StopIsBounded
<1>1. HBSpec => [](HBTyped /\ Stopping)
  BY HBInitTyped, HBStepTyped, InitStopping, StepStopping, PTL DEF HBSpec
<1>2. HBTyped /\ Stopping => StopIsBounded
  BY SMT DEF HBTyped, Numbers, Timed, InCall, Stopping, StopIsBounded, StopTime
<1>3. QED
  BY <1>1, <1>2, PTL
============================================================================
