----------------------------- MODULE ServerLife ----------------------------
(***************************************************************************)
(* Start and end of the lobby server (OutGameLobbyServer.cpp): StartWork   *)
(* starts the worker and accepter threads before it fills AcceptQueue and  *)
(* the table of users, and ServerEnd wakes, joins and closes them while    *)
(* completions still arrive.                                               *)
(*                                                                         *)
(* What a worker does with one completion is in ConnLifecycle; here a      *)
(* completion finds its ConnUser (or kills the process) and the connection *)
(* either stays up or goes back to AcceptQueue.  The main thread is the    *)
(* only caller of init, StartWork and ServerEnd, in this order.            *)
(***************************************************************************)
EXTENDS Naturals, Sequences, FiniteSets, SequencesExt

CONSTANTS
  Workers, Accepters,   (* the threads CreateWorkThread and                *)
                        (* CreateAccepterThread start                      *)
  maxClientCount,
  Skipped,              (* the connection number StartWork leaves out (11) *)
  Wakeup,               (* what ServerEnd posts to the completion port     *)
  MaxCompletions        (* length of the completion queue (bound)          *)

Conns   == 0 .. maxClientCount - 1
Threads == Workers \union Accepters

ASSUME LifeAssumption ==
  /\ Workers \intersect Accepters = {} /\ IsFiniteSet(Threads)
  /\ maxClientCount \in Nat \ {0} /\ Wakeup \notin Conns
  /\ MaxCompletions \in Nat

VARIABLES
  main,         (* where the main thread is                                *)
  i,            (* the loop variable of StartWork                          *)
  WorkRun, AccepterRun,
  workThreads,  (* the threads started, in order                           *)
  at,           (* where each thread is                                    *)
  acceptQueue,  (* AcceptQueue                                             *)
  users,        (* connections ConnUsersManager has an object for          *)
  posted,       (* connections with AcceptEx pending                       *)
  connected,    (* connections with a client                               *)
  iocp,         (* completions queued at sIOCPHandle: a connection number, *)
                (* or Wakeup                                               *)
  beating,      (* LobbyHeartbeat: "running", "stopping" or "stopped"      *)
  listening,    (* LobbyRedisSubscriber, likewise                          *)
  closed,       (* sIOCPHandle and serverSkt are closed                    *)
  alive

threadVars == <<WorkRun, AccepterRun, workThreads, at>>
connVars   == <<acceptQueue, users, posted, connected, iocp>>
sideVars   == <<beating, listening, closed>>
vars == <<main, i, threadVars, connVars, sideVars, alive>>

(* init is over, which ends with heartbeat_.Start and subscriber_.Start, and *)
(* CreateWorkThread has set WorkRun.                                        *)
Init ==
  /\ main = "workers" /\ i = 0
  /\ WorkRun = TRUE /\ AccepterRun = FALSE
  /\ workThreads = <<>> /\ at = [t \in Threads |-> "none"]
  /\ acceptQueue = <<>> /\ users = {} /\ posted = {} /\ connected = {} /\ iocp = <<>>
  /\ beating = "running" /\ listening = "running"
  /\ closed = FALSE /\ alive = TRUE

----------------------------------------------------------------------------
(* StartWork. *)

Started == ToSet(workThreads)

StartThread(t) ==
  /\ workThreads' = Append(workThreads, t)
  /\ at' = [at EXCEPT ![t] = "test"]

(* Creating a thread may fail, which ends StartWork with false.  Both kinds *)
(* of threads are kept in workThreads.                                      *)
CreateWorkThread ==
  /\ main = "workers"
  /\ \/ /\ \E t \in Workers \ Started : StartThread(t)
        /\ UNCHANGED <<main, AccepterRun>>
     \/ /\ Workers \subseteq Started
        /\ main' = "accepters" /\ AccepterRun' = TRUE
        /\ UNCHANGED <<workThreads, at>>
     \/ /\ ~(Workers \subseteq Started)
        /\ main' = "serving"
        /\ UNCHANGED <<workThreads, at, AccepterRun>>
  /\ UNCHANGED <<i, WorkRun, connVars, sideVars, alive>>

CreateAccepterThread ==
  /\ main = "accepters"
  /\ \/ /\ \E t \in Accepters \ Started : StartThread(t)
        /\ UNCHANGED main
     \/ /\ Accepters \subseteq Started
        /\ main' = "push"
        /\ UNCHANGED <<workThreads, at>>
     \/ /\ ~(Accepters \subseteq Started)
        /\ main' = "serving"
        /\ UNCHANGED <<workThreads, at>>
  /\ UNCHANGED <<i, WorkRun, AccepterRun, connVars, sideVars, alive>>

(* What the loop does with connection number c: it leaves out Skipped, and  *)
(* puts the object of any other into the queue before the table.            *)
SkipTooLate(c) ==                                               (* mutant *)
  /\ acceptQueue' = Append(acceptQueue, c)
  /\ IF c = Skipped THEN i' = i + 1 /\ UNCHANGED main
                    ELSE main' = "insert" /\ UNCHANGED i
PushOrSkip(c) ==
  \/ c = Skipped /\ i' = i + 1 /\ UNCHANGED <<main, acceptQueue>>
  \/ c # Skipped /\ main' = "insert" /\ acceptQueue' = Append(acceptQueue, c) /\ UNCHANGED i

PushUser ==
  /\ main = "push"
  /\ \/ i = maxClientCount /\ main' = "serving" /\ UNCHANGED <<i, acceptQueue>>
     \/ i < maxClientCount /\ PushOrSkip(i)
  /\ UNCHANGED <<threadVars, users, posted, connected, iocp, sideVars, alive>>

InsertUser ==
  /\ main = "insert"
  /\ users' = users \union {i}
  /\ i' = i + 1
  /\ main' = "push"
  /\ UNCHANGED <<threadVars, acceptQueue, posted, connected, iocp, sideVars, alive>>

StartWork == CreateWorkThread \/ CreateAccepterThread \/ PushUser \/ InsertUser

----------------------------------------------------------------------------
(* ServerEnd. *)

NoMoreWork ==
  /\ main = "serving"
  /\ WorkRun' = FALSE
  /\ main' = "noaccept"
  /\ UNCHANGED <<i, AccepterRun, workThreads, at, connVars, sideVars, alive>>

NoMoreAccepts ==
  /\ main = "noaccept"
  /\ AccepterRun' = FALSE
  /\ main' = "wake"
  /\ UNCHANGED <<i, WorkRun, workThreads, at, connVars, sideVars, alive>>

OneWakeup == <<Wakeup>>                                         (* mutant *)
Wakeups == [k \in 1 .. Len(workThreads) |-> Wakeup]

PostWakeups ==
  /\ main = "wake"
  /\ iocp' = iocp \o Wakeups
  /\ main' = "join"
  /\ UNCHANGED <<i, threadVars, acceptQueue, users, posted, connected, sideVars, alive>>

AcceptersOnly == Accepters                                      (* mutant *)
Joined == Started

JoinThreads ==
  /\ main = "join"
  /\ \A t \in Joined \intersect Started : at[t] = "exited"
  /\ main' = "heartbeat"
  /\ UNCHANGED <<i, threadVars, connVars, sideVars, alive>>

StopHeartbeat ==
  /\ main = "heartbeat"
  /\ \/ beating = "running" /\ beating' = "stopping" /\ UNCHANGED main
     \/ beating = "stopped" /\ main' = "subscriber" /\ UNCHANGED beating
  /\ UNCHANGED <<i, threadVars, connVars, listening, closed, alive>>

StopSubscriber ==
  /\ main = "subscriber"
  /\ \/ listening = "running" /\ listening' = "stopping" /\ UNCHANGED main
     \/ listening = "stopped" /\ main' = "close" /\ UNCHANGED listening
  /\ UNCHANGED <<i, threadVars, connVars, beating, closed, alive>>

Close ==
  /\ main = "close"
  /\ closed' = TRUE
  /\ main' = "ended"
  /\ UNCHANGED <<i, threadVars, connVars, beating, listening, alive>>

EndRest ==
  \/ NoMoreAccepts \/ PostWakeups \/ JoinThreads
  \/ StopHeartbeat \/ StopSubscriber \/ Close

ServerEnd == NoMoreWork \/ EndRest

----------------------------------------------------------------------------
(* The threads. *)

TestRun(t) ==
  /\ at[t] = "test"
  /\ LET go == IF t \in Workers THEN WorkRun ELSE AccepterRun
     IN  at' = [at EXCEPT ![t] = IF go THEN "body" ELSE "exited"]
  /\ UNCHANGED <<main, i, WorkRun, AccepterRun, workThreads, connVars, sideVars, alive>>

BackToTest(t) == at' = [at EXCEPT ![t] = "test"]

(* AcceptEx may be refused, which puts the connection back.                 *)
AcceptOne(t) ==
  /\ t \in Accepters /\ at[t] = "body"
  /\ \/ acceptQueue = <<>> /\ UNCHANGED <<acceptQueue, posted>>
     \/ /\ acceptQueue # <<>>
        /\ LET c == Head(acceptQueue)
           IN  \/ /\ acceptQueue' = Tail(acceptQueue)
                  /\ posted' = posted \union {c}
               \/ /\ acceptQueue' = Append(Tail(acceptQueue), c)
                  /\ UNCHANGED posted
  /\ BackToTest(t)
  /\ UNCHANGED <<main, i, WorkRun, AccepterRun, workThreads, users, connected, iocp, sideVars, alive>>

Woken(t) ==
  /\ t \in Workers /\ at[t] = "body" /\ iocp # <<>> /\ Head(iocp) = Wakeup
  /\ iocp' = Tail(iocp)
  /\ WorkRun' = FALSE
  /\ BackToTest(t)
  /\ UNCHANGED <<main, i, AccepterRun, workThreads, acceptQueue, users, posted, connected, sideVars, alive>>

(* FindUser and the handler: a new client stays or is refused, bytes that   *)
(* came or went leave the client connected, and a client that is gone gives *)
(* its connection back.                                                     *)
Complete(t) ==
  /\ t \in Workers /\ at[t] = "body" /\ iocp # <<>> /\ Head(iocp) \in users
  /\ LET c == Head(iocp)
     IN  \/ /\ c \notin connected
            /\ connected' = connected \union {c}
            /\ UNCHANGED acceptQueue
         \/ c \in connected /\ UNCHANGED <<connected, acceptQueue>>
         \/ /\ connected' = connected \ {c}
            /\ acceptQueue' = Append(acceptQueue, c)
  /\ iocp' = Tail(iocp)
  /\ BackToTest(t)
  /\ UNCHANGED <<main, i, WorkRun, AccepterRun, workThreads, users, posted, sideVars, alive>>

(* FindUser returns a null pointer, and the handler goes through it.        *)
FindsNull(t) ==
  /\ t \in Workers /\ at[t] = "body" /\ iocp # <<>>
  /\ Head(iocp) \in Conns \ users
  /\ alive' = FALSE
  /\ UNCHANGED <<main, i, threadVars, connVars, sideVars>>

WorkThread(t)     == TestRun(t) \/ Woken(t) \/ Complete(t) \/ FindsNull(t)
AccepterThread(t) == TestRun(t) \/ AcceptOne(t)

(* A client connects, or one that is connected sends, gets what was sent to *)
(* him or leaves; one completion of a connected client at a time is enough  *)
(* here.                                                                    *)
Client(c) ==
  /\ ~closed /\ Len(iocp) < MaxCompletions
  /\ \/ c \in posted /\ posted' = posted \ {c}
     \/ c \in connected /\ ~Contains(iocp, c) /\ UNCHANGED posted
  /\ iocp' = Append(iocp, c)
  /\ UNCHANGED <<main, i, threadVars, acceptQueue, users, connected, sideVars, alive>>

(* HeartbeatLoop ends after Stop, as module Heartbeat shows.                *)
Beat ==
  /\ beating = "stopping" /\ beating' = "stopped"
  /\ UNCHANGED <<main, i, threadVars, connVars, listening, closed, alive>>

(* SubscribeLoop: consume comes back with a message, a timeout or an error. *)
Consume ==
  /\ listening = "stopping" /\ listening' = "stopped"
  /\ UNCHANGED <<main, i, threadVars, connVars, beating, closed, alive>>

Next ==
  /\ alive
  /\ \/ StartWork \/ ServerEnd \/ Beat \/ Consume
     \/ \E t \in Workers : WorkThread(t)
     \/ \E t \in Accepters : AccepterThread(t)
     \/ \E c \in Conns : Client(c)

Spec == Init /\ [][Next]_vars

(* Threads that can run do; nobody has to end the server, or to connect.    *)
FairSpec ==
  /\ Spec
  /\ WF_vars(alive /\ (StartWork \/ EndRest))
  /\ WF_vars(alive /\ Beat) /\ WF_vars(alive /\ Consume)
  /\ \A t \in Workers : WF_vars(alive /\ WorkThread(t))
  /\ \A t \in Accepters : WF_vars(alive /\ AccepterThread(t))

----------------------------------------------------------------------------
(* Workers look for a connection that has no object only while StartWork    *)
(* stands between lines 82 and 83 with it (OutGameLobbyServer.cpp:78-83).   *)
FindsUsers ==
  \A c \in ToSet(acceptQueue) \union posted \union (ToSet(iocp) \ {Wakeup}) :
    c \in users \/ (main = "insert" /\ i = c)

(* The completion port and the listening socket are closed when no thread   *)
(* is left that uses them (OutGameLobbyServer.cpp:98-113).                  *)
ClosedAfterThreads ==
  closed => /\ \A t \in Started : at[t] = "exited"
            /\ beating = "stopped" /\ listening = "stopped"

(* ServerEnd returns: no worker sleeps in GetQueuedCompletionStatus for     *)
(* good, and no join waits for ever (OutGameLobbyServer.cpp:94-107).        *)
ServerEndReturns == main = "noaccept" ~> (main = "ended" \/ ~alive)
=============================================================================
