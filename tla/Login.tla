------------------------------- MODULE Login -------------------------------
(***************************************************************************)
(* Login and logout on one lobby server (RedisManager.cpp: UserConnect     *)
(* with VerifyUserToken and NotifyFriendOnline; UserDisConnect with        *)
(* NotifyFriendOffline).  Redis, MySQL, the login server that issues       *)
(* tokens and the clients are external.  A handler takes one step for each *)
(* command to Redis or MySQL and for each write to shared state, and       *)
(* clients come and go between any two of them.  Two exceptions: a notice  *)
(* with all its lookups and messages is one step, and the empty pipeline of*)
(* UserDisConnect, without effect, is one with the write that follows it.  *)
(*                                                                         *)
(* A user, his id and his pk are one value.  Who hears a notice is the     *)
(* business of module Notify; here told[u] is what was published last.     *)
(* UserDisConnect and SetPkToObjNum have no caller at this commit: a worker*)
(* may call UserDisConnect any time after a client left, and a connection  *)
(* that logged in may be registered at any time.                           *)
(***************************************************************************)
EXTENDS Naturals, Sequences, FiniteSets

CONSTANTS
  Users, Conns, Tokens,
  Owner,         (* the user each token is issued to                      *)
  Garbage,       (* what userPk may hold before the first login           *)
  RedisThreads,  (* threads in UserConnect                                *)
  Workers,       (* threads in UserDisConnect                             *)
  MaxWaiting,    (* login packets queued at the same time (bound)         *)
  MaxOwed,       (* clients that left and are not seen to yet (bound)     *)
  MaxFaults,     (* commands to Redis or MySQL that fail (bound)          *)
  None

Threads == RedisThreads \union Workers

ASSUME LoginAssumption ==
  /\ Owner \in [Tokens -> Users]
  /\ RedisThreads \intersect Workers = {}
  /\ None \notin Users \union Conns \union Tokens
  /\ Garbage \subseteq Users \union {None}
  /\ MaxFaults \in Nat /\ MaxWaiting \in Nat /\ IsFiniteSet(RedisThreads)

VARIABLES
  token,      (* field t of jwtcheck:{Owner[t]}                           *)
  uses,       (* history: how often VerifyUserToken accepted each token   *)
  waiting,    (* login packets on their way to a redis thread             *)
  call,       (* the handler each thread is in                            *)
  peer,       (* the client connected on each connection                  *)
  welcomed,   (* the connections whose client got a response of success   *)
  userPk,     (* ConnUser::userPk, which Reset leaves alone               *)
  friendPks,  (* ConnUser::friendPks_, by the user whose friends it holds *)
  directory,  (* pkToObjNum                                               *)
  presence,   (* key user:pk: "absent", or "bare" or "timed" by whether   *)
              (* it has a time to live                                    *)
  told,       (* the status of each user that was published last          *)
  owed,       (* <<c, u>>: u left connection c, UserDisConnect not called *)
  alive,      (* FALSE after an exception nobody catches                  *)
  faults,
  crossed,    (* history: connections whose client left under a request   *)
  disturbed   (* history: users with a fault, a stale pk or calls that    *)
              (* overlapped                                               *)

redisVars   == <<token, uses, presence, told>>
clientVars  == <<waiting, peer, owed>>
historyVars == <<crossed, disturbed>>
vars == <<redisVars, clientVars, historyVars, call, welcomed, userPk, friendPks, directory,
          alive, faults>>

Steps == {"idle", "verify", "delete", "friends", "again", "online", "ids", "store",
          "arm", "answer", "offline", "forget", "erase"}

(* The client of a call is who asked, or who left; its user is who the      *)
(* server takes him for.                                                    *)
Idle == [step |-> "idle", conn |-> None, client |-> None, user |-> None, token |-> None]

Init ==
  /\ token = [t \in Tokens |-> "unissued"]
  /\ uses = [t \in Tokens |-> 0]
  /\ waiting = <<>>
  /\ call = [t \in Threads |-> Idle]
  /\ peer = [c \in Conns |-> None]
  /\ welcomed = {}
  /\ userPk \in [Conns -> Garbage]
  /\ friendPks = [c \in Conns |-> None]
  /\ directory = [u \in Users |-> None]
  /\ presence = [u \in Users |-> "absent"]
  /\ told = [u \in Users |-> "nothing"]
  /\ owed = {} /\ alive = TRUE /\ faults = 0
  /\ crossed = {} /\ disturbed = {}

----------------------------------------------------------------------------
InHand(c)   == {t \in RedisThreads : call[t].conn = c}
Waiting(c)  == {i \in DOMAIN waiting : waiting[i].conn = c}
About(u)    == {t \in Threads : call[t].user = u}
Sessions(u) == {c \in welcomed : peer[c] = u}
Quiet(u)    == /\ About(u) = {}
               /\ \A i \in DOMAIN waiting : Owner[waiting[i].token] # u
               /\ \A c \in Conns : <<c, u>> \notin owed

Goto(t, step) == call' = [call EXCEPT ![t].step = step]
Return(t)     == call' = [call EXCEPT ![t] = Idle]

(* A command to Redis or MySQL works, or fails. *)
Works == UNCHANGED faults
Fails == faults < MaxFaults /\ faults' = faults + 1

(* The exception leaves the thread function: std::terminate. *)
Die == alive' = FALSE /\ UNCHANGED call
Lives == UNCHANGED alive

(* A refusal is sent and changes nothing; a welcome goes to whoever is      *)
(* connected by now.                                                        *)
Refuse(t) == Return(t) /\ UNCHANGED welcomed

Welcome(t) ==
  /\ welcomed' = welcomed \union ({call[t].conn} \intersect {c \in Conns : peer[c] # None})
  /\ Return(t)

----------------------------------------------------------------------------
(* The login server and the clients. *)
Issue(t) ==
  /\ token[t] = "unissued"
  /\ token' = [token EXCEPT ![t] = "valid"]
  /\ UNCHANGED <<uses, presence, told, clientVars, historyVars, call, welcomed, userPk, friendPks,
                 directory, alive, faults>>

Connect(c, u) ==
  /\ peer[c] = None
  /\ peer' = [peer EXCEPT ![c] = u]
  /\ UNCHANGED <<redisVars, waiting, owed, historyVars, call, welcomed, userPk,
                 friendPks, directory, alive, faults>>

Request(c, t) ==
  /\ token[t] # "unissued" /\ peer[c] = Owner[t]
  /\ Len(waiting) < MaxWaiting
  /\ waiting' = Append(waiting, [conn |-> c, token |-> t])
  /\ UNCHANGED <<redisVars, peer, owed, historyVars, call, welcomed, userPk, friendPks,
                 directory, alive, faults>>

(* WorkThread resets the ConnUser; what Reset leaves as it was stays. *)
Disconnect(c) ==
  /\ peer[c] # None /\ Cardinality(owed) < MaxOwed
  /\ peer' = [peer EXCEPT ![c] = None]
  /\ welcomed' = welcomed \ {c}
  /\ owed' = owed \union {<<c, peer[c]>>}
  /\ IF InHand(c) = {} /\ Waiting(c) = {}
     THEN UNCHANGED historyVars
     ELSE /\ crossed' = crossed \union {c}
          /\ disturbed' = disturbed \union {peer[c]}
  /\ UNCHANGED <<redisVars, waiting, call, userPk, friendPks, directory, alive, faults>>

(* SetPkToObjNum. *)
Register(c) ==
  /\ c \in welcomed /\ userPk[c] # None
  /\ directory' = [directory EXCEPT ![userPk[c]] = c]
  /\ UNCHANGED <<redisVars, clientVars, historyVars, call, welcomed, userPk, friendPks,
                 alive, faults>>

(* Redis removes a key whose time has come. *)
Fade(u) ==
  /\ presence[u] = "timed"
  /\ presence' = [presence EXCEPT ![u] = "absent"]
  /\ UNCHANGED <<token, uses, told, clientVars, historyVars, call, welcomed, userPk, friendPks,
                 directory, alive, faults>>

----------------------------------------------------------------------------
(* RedisThread: UserConnect. *)
Enter(t) ==
  /\ call[t].step = "idle" /\ waiting # <<>>
  /\ LET c == Head(waiting).conn
         u == Owner[Head(waiting).token]
     IN  /\ call' = [call EXCEPT ![t] = [step |-> "verify", conn |-> c, client |-> u,
                                         user |-> u, token |-> Head(waiting).token]]
         /\ disturbed' = IF About(u) = {} /\ Sessions(u) \subseteq {c}
                            /\ \A d \in Conns : <<d, u>> \notin owed
                         THEN disturbed ELSE disturbed \union {u}
  /\ waiting' = Tail(waiting)
  /\ UNCHANGED <<redisVars, peer, owed, crossed, welcomed, userPk, friendPks,
                 directory, alive, faults>>

(* hget; an error counts as a wrong token. *)
Verify(t) ==
  /\ call[t].step = "verify"
  /\ \/ Works /\ token[call[t].token] = "valid" /\ Goto(t, "delete") /\ UNCHANGED welcomed
     \/ Works /\ token[call[t].token] # "valid" /\ Refuse(t)
     \/ Fails /\ Refuse(t)
  /\ UNCHANGED <<redisVars, clientVars, historyVars, userPk, friendPks, directory, alive>>

(* del of the key, which holds all tokens of the user. *)
KeptToken(u) == token                                           (* mutant *)
Deleted(u) == [t \in Tokens |-> IF Owner[t] = u /\ token[t] = "valid" THEN "gone" ELSE token[t]]

(* A del that fails may have been carried out, its answer lost. *)
Delete(t) ==
  /\ call[t].step = "delete"
  /\ \/ /\ Works
        /\ token' = Deleted(call[t].user)
        /\ uses' = [uses EXCEPT ![call[t].token] = @ + 1]
        /\ Goto(t, "friends")
        /\ UNCHANGED welcomed
     \/ /\ Fails
        /\ token' \in {token, Deleted(call[t].user)}
        /\ UNCHANGED uses
        /\ Refuse(t)
  /\ UNCHANGED <<presence, told, clientVars, historyVars, userPk, friendPks, directory, alive>>

(* GetUserFriendsPks, twice; the second result is used unchecked, and      *)
(* SetFriendPks keeps it.                                                  *)
Friends(t) ==
  /\ call[t].step = "friends"
  /\ \/ Works /\ Goto(t, "again") /\ UNCHANGED welcomed
     \/ Fails /\ Refuse(t)
  /\ UNCHANGED <<redisVars, clientVars, historyVars, userPk, friendPks, directory, alive>>

FriendsAgain(t) ==
  /\ call[t].step = "again"
  /\ \/ /\ Works /\ Goto(t, "online") /\ Lives
        /\ friendPks' = [friendPks EXCEPT ![call[t].conn] = call[t].user]
     \/ Fails /\ Die /\ UNCHANGED friendPks
  /\ UNCHANGED <<redisVars, clientVars, historyVars, welcomed, userPk, directory>>

WrongStatus(u, s) == [told EXCEPT ![u] = "lobby"]                (* mutant *)
Unpublished(u, s) == told                                       (* mutant *)
Published(u, s) == IF u = None THEN told ELSE [told EXCEPT ![u] = s]

(* NotifyFriendOnline: PublishToUsers catches every error. *)
TellOnline(t) ==
  /\ call[t].step = "online"
  /\ \/ Works /\ told' = Published(call[t].user, "online") /\ UNCHANGED disturbed
     \/ Fails /\ UNCHANGED told /\ disturbed' = disturbed \union {call[t].user}
  /\ Goto(t, "ids")
  /\ UNCHANGED <<token, uses, presence, clientVars, crossed, welcomed, userPk,
                 friendPks, directory, alive>>

(* SetPk and SetId. *)
KeptPk(t) == userPk                                             (* mutant *)
PkSet(t) == [userPk EXCEPT ![call[t].conn] = call[t].user]

SetIds(t) ==
  /\ call[t].step = "ids"
  /\ userPk' = PkSet(t)
  /\ Goto(t, "store")
  /\ UNCHANGED <<redisVars, clientVars, historyVars, welcomed, friendPks, directory,
                 alive, faults>>

(* hset leaves a time to live as it is. *)
Stored(u) == [presence EXCEPT ![u] = IF @ = "timed" THEN "timed" ELSE "bare"]

Store(t) ==
  /\ call[t].step = "store"
  /\ \/ Works /\ presence' = Stored(call[t].user) /\ Goto(t, "arm") /\ Lives
     \/ Fails /\ presence' \in {presence, Stored(call[t].user)} /\ Die
  /\ UNCHANGED <<token, uses, told, clientVars, historyVars, welcomed, userPk,
                 friendPks, directory>>

(* expire does nothing for a key that is not there. *)
NotArmed(u) == presence                                         (* mutant *)
Armed(u) == [presence EXCEPT ![u] = IF @ = "absent" THEN "absent" ELSE "timed"]

Arm(t) ==
  /\ call[t].step = "arm"
  /\ \/ Works /\ presence' = Armed(call[t].user) /\ Goto(t, "answer") /\ Lives
     \/ Fails /\ presence' \in {presence, Armed(call[t].user)} /\ Die
  /\ UNCHANGED <<token, uses, told, clientVars, historyVars, welcomed, userPk,
                 friendPks, directory>>

Answer(t) ==
  /\ call[t].step = "answer"
  /\ Welcome(t)
  /\ UNCHANGED <<redisVars, clientVars, historyVars, userPk, friendPks, directory, alive, faults>>

UserConnect(t) ==
  Enter(t) \/ Verify(t) \/ Delete(t) \/ Friends(t) \/ FriendsAgain(t) \/ TellOnline(t)
    \/ SetIds(t) \/ Store(t) \/ Arm(t) \/ Answer(t)

----------------------------------------------------------------------------
(* UserDisConnect, for a connection whose client left. *)
Leave(t) ==
  /\ call[t].step = "idle"
  /\ \E left \in owed :
       LET u == userPk[left[1]] IN
       /\ owed' = owed \ {left}
       /\ call' = [call EXCEPT ![t] = [step |-> "offline", conn |-> left[1],
                                       client |-> left[2], user |-> u, token |-> None]]
       /\ disturbed' = disturbed \union
            (IF u = left[2] /\ About(u) = {} /\ Sessions(u) = {} THEN {} ELSE {u} \intersect Users)
            \union (IF u # left[2] /\ told[left[2]] = "online" THEN {left[2]} ELSE {})
  /\ UNCHANGED <<redisVars, waiting, peer, crossed, welcomed, userPk, friendPks,
                 directory, alive, faults>>

(* NotifyFriendOffline reads the friends and publishes; either may fail. *)
TellOffline(t) ==
  /\ call[t].step = "offline"
  /\ \/ Works /\ told' = Published(call[t].user, "offline") /\ UNCHANGED disturbed
     \/ Fails /\ UNCHANGED told /\ disturbed' = disturbed \union ({call[t].user} \intersect Users)
  /\ Goto(t, "forget")
  /\ UNCHANGED <<token, uses, presence, clientVars, crossed, welcomed, userPk,
                 friendPks, directory, alive>>

(* The empty pipeline, which changes nothing but may fail, and DelFriendPks. *)
Forget(t) ==
  /\ call[t].step = "forget"
  /\ \/ /\ Works /\ Lives /\ Goto(t, "erase")
        /\ friendPks' = [friendPks EXCEPT ![call[t].conn] = None]
     \/ Fails /\ Die /\ UNCHANGED friendPks
  /\ UNCHANGED <<redisVars, clientVars, historyVars, welcomed, userPk, directory>>

AllErased(u) == [v \in Users |-> None]                          (* mutant *)
Erased(u) == IF u = None THEN directory ELSE [directory EXCEPT ![u] = None]

(* DelPkToObjNum. *)
Erase(t) ==
  /\ call[t].step = "erase"
  /\ directory' = Erased(call[t].user)
  /\ Return(t)
  /\ UNCHANGED <<redisVars, clientVars, historyVars, welcomed, userPk, friendPks, alive, faults>>

UserDisConnect(t) == Leave(t) \/ TellOffline(t) \/ Forget(t) \/ Erase(t)

Environment ==
  \/ \E t \in Tokens : Issue(t)
  \/ \E c \in Conns : Disconnect(c) \/ Register(c) \/ \E u \in Users : Connect(c, u)
  \/ \E c \in Conns, t \in Tokens : Request(c, t)

Server ==
  \/ \E t \in RedisThreads : UserConnect(t)
  \/ \E t \in Workers : UserDisConnect(t)

Next == \/ alive /\ (Environment \/ Server)
        \/ \E u \in Users : Fade(u)

Spec == Init /\ [][Next]_vars

----------------------------------------------------------------------------
TypeOK ==
  /\ token \in [Tokens -> {"unissued", "valid", "gone"}]
  /\ uses \in [Tokens -> Nat]
  /\ waiting \in Seq([conn : Conns, token : Tokens]) /\ Len(waiting) <= MaxWaiting
  /\ call \in [Threads -> [step : Steps, conn : Conns \union {None},
                           client : Users \union {None}, user : Users \union {None}, token : Tokens \union {None}]]
  /\ peer \in [Conns -> Users \union {None}]
  /\ welcomed \subseteq Conns
  /\ userPk \in [Conns -> Users \union {None}]
  /\ friendPks \in [Conns -> Users \union {None}]
  /\ directory \in [Users -> Conns \union {None}]
  /\ presence \in [Users -> {"absent", "bare", "timed"}]
  /\ told \in [Users -> {"nothing", "online", "offline"}]
  /\ owed \subseteq Conns \X Users
  /\ alive \in BOOLEAN /\ faults \in 0 .. MaxFaults
  /\ crossed \subseteq Conns /\ disturbed \subseteq Users

(* A token lets one login in (RedisManager.cpp:110: it is deleted right     *)
(* after the verification) if one redis thread runs.  Of several, each may  *)
(* have verified it before the first deletes it, and no more than that.     *)
TokenSpentPerThread == \A t \in Tokens : uses[t] <= Cardinality(RedisThreads)

(* A client who was welcomed has a token of his own behind him, and the     *)
(* connection carries his pk and the pks of his friends, or of nobody's     *)
(* when the logout of the client before him came late, unless an earlier    *)
(* client left the connection while his login was still under way.          *)
WelcomedIsWho ==
  \A c \in Conns \ crossed :
    c \in welcomed =>
      /\ userPk[c] = peer[c] /\ friendPks[c] \in {peer[c], None}
      /\ \E t \in Tokens : Owner[t] = peer[c] /\ uses[t] > 0

(* A presence key without a time to live is about to get one, or the server *)
(* died between the two commands.                                           *)
BareIsTransient ==
  \A u \in Users : presence[u] = "bare" =>
    \E t \in RedisThreads :
      call[t].user = u /\ (call[t].step = "arm" \/ (~alive /\ call[t].step = "store"))

(* When no call about a user is under way and nothing disturbed them, what  *)
(* friends were told last is whether the user has a session here.           *)
ToldIsTrue ==
  \A u \in Users \ disturbed :
    alive /\ Quiet(u) /\ Sessions(u) \intersect crossed = {} => (told[u] = "online" <=> Sessions(u) # {})

(* The directory forgets a user with a session only after something that    *)
(* disturbed him: a stale pk, or calls that overlapped.                     *)
RegisteredStays ==
  [][\A u \in Users \ disturbed :
       directory[u] # None /\ directory'[u] = None => Sessions(u) \ crossed = {}]_vars
=============================================================================
