------------------------------- MODULE Notify ------------------------------
(***************************************************************************)
(* How friends hear that somebody comes online, across lobby servers       *)
(* (RedisManager.cpp: NotifyFriendOnline, NotifyFriendOffline,             *)
(* PublishToUsers, ProcessFriendAccept, SendFriendStatusToUser;            *)
(* LobbyRedisSubscriber.cpp; ConnUsersManager.cpp, the map from pk to      *)
(* connection number).  A thread looks up on which server each friend is,  *)
(* publishes one message to each of those servers, and the subscriber there*)
(* sends a packet to the connection of each target.                        *)
(*                                                                         *)
(* Redis is external: field "server" of a user's key is written by a       *)
(* service outside this repository, and pub/sub hands a message to those   *)
(* subscribed when it is published, in order.  SetPkToObjNum and           *)
(* ProcessFriendAccept have no caller at this commit and may be called at  *)
(* any time.  MySQL is used through what FriendDb shows of it.             *)
(***************************************************************************)
EXTENDS Naturals, Sequences, FiniteSets

CONSTANTS
  Users, Servers,
  Conns,       (* connection numbers of each server                       *)
  FirstConn,   (* connection number 0                                     *)
  Threads,     (* threads in the handlers                                 *)
  At,          (* the server each thread belongs to                       *)
  Speakers,    (* the users the calls are about                           *)
  Listeners,   (* the users who come and go                               *)
  MaxNotices,  (* calls of a notification (bound)                         *)
  MaxMoves,    (* steps of the users and the directory (bound)            *)
  MaxFaults,   (* commands to Redis that fail (bound)                     *)
  None

ASSUME NotifyAssumption ==
  /\ FirstConn \in Conns /\ Speakers \union Listeners \subseteq Users
  /\ At \in [Threads -> Servers]
  /\ None \notin Users \union Servers \union Conns
  /\ MaxNotices \in Nat

VARIABLES
  rows,       (* status of the friend rows of each pair with a speaker    *)
  home,       (* field "server" of user:pk; None if there is no such key  *)
  seat,       (* the user logged in on each connection of each server     *)
  directory,  (* pkToObjNum of each server                                *)
  channel,    (* the channel a server subscribes to: serverType_ is never *)
              (* initialised, and a number without a name gives None      *)
  listening,  (* "before", "subscribed" or "ended", by server             *)
  inbox,      (* messages Redis has for each subscriber                   *)
  call,       (* the handler each thread is in                            *)
  alive,      (* servers that have not died of an exception               *)
  notices,    (* history: whom each notification is about, the friends its*)
              (* sender read, on which server he found whom ("found"), and*)
              (* which server that listened then should hear of it for    *)
              (* whom ("reach")                                           *)
  sent,       (* history: the connections to which each server sent the   *)
              (* packet of a notice, for each target of its messages      *)
  moves, faults

redisVars == <<home, inbox>>
userVars  == <<seat, directory, moves>>
subVars   == <<channel, listening>>
historyVars == <<notices, sent>>
vars == <<rows, redisVars, userVars, subVars, historyVars, call, alive, faults>>

Pairs   == {{u, v} : u \in Speakers, v \in Users} \ {{u} : u \in Speakers}
FriendsOf(u) == {v \in Users \ {u} : rows[{u, v}] # "none"}
Idle == [step |-> "idle", notice |-> 0, user |-> None, batches |-> {}]

Init ==
  /\ rows \in [Pairs -> {"none", "requested", "friends"}]
  /\ home = [u \in Users |-> None]
  /\ seat = [s \in Servers |-> [c \in Conns |-> None]]
  /\ directory = [s \in Servers |-> [u \in Users |-> None]]
  /\ channel \in [Servers -> Servers \union {None}]
  /\ listening = [s \in Servers |-> "before"]
  /\ inbox = [s \in Servers |-> <<>>]
  /\ call = [t \in Threads |-> Idle]
  /\ alive = Servers
  /\ notices = <<>>
  /\ sent = [s \in Servers |-> [u \in Users |-> [n \in 1 .. MaxNotices |-> <<>>]]]
  /\ moves = 0 /\ faults = 0

----------------------------------------------------------------------------
Moves == moves < MaxMoves /\ moves' = moves + 1
Works == UNCHANGED faults
Fails == faults < MaxFaults /\ faults' = faults + 1

(* A user logs in at a server, and his place becomes known in Redis. *)
Sit(s, c, u) ==
  /\ Moves /\ seat[s][c] = None
  /\ seat' = [seat EXCEPT ![s][c] = u]
  /\ home' = [home EXCEPT ![u] = s]
  /\ UNCHANGED <<rows, inbox, directory, subVars, historyVars, call, alive, faults>>

Stand(s, c) ==
  /\ Moves /\ seat[s][c] # None
  /\ seat' = [seat EXCEPT ![s][c] = None]
  /\ UNCHANGED <<rows, redisVars, directory, subVars, historyVars, call, alive, faults>>

(* The key of the user runs out. *)
Fade(u) ==
  /\ Moves /\ home[u] # None
  /\ home' = [home EXCEPT ![u] = None]
  /\ UNCHANGED <<rows, inbox, seat, directory, subVars, historyVars, call, alive, faults>>

(* SetPkToObjNum. *)
Register(s, c) ==
  /\ Moves /\ seat[s][c] # None
  /\ directory' = [directory EXCEPT ![s][seat[s][c]] = c]
  /\ UNCHANGED <<rows, redisVars, seat, subVars, historyVars, call, alive, faults>>

(* DelPkToObjNum, from UserDisConnect. *)
Unregister(s, u) ==
  /\ Moves /\ directory[s][u] # None /\ \A c \in Conns : seat[s][c] # u
  /\ directory' = [directory EXCEPT ![s][u] = None]
  /\ UNCHANGED <<rows, redisVars, seat, subVars, historyVars, call, alive, faults>>

----------------------------------------------------------------------------
Running(t) == At[t] \in alive

(* NotifyFriendOnline and NotifyFriendOffline read the friend rows, without *)
(* a look at their status, and call PublishToUsers.                         *)
Targets(u) == FriendsOf(u)

Notice(t, u) ==
  /\ Running(t) /\ call[t].step = "idle" /\ Len(notices) < MaxNotices
  /\ notices' = Append(notices, [about |-> u, friends |-> Targets(u),
                                   found |-> {}, reach |-> {}])
  /\ call' = [call EXCEPT ![t] =
       IF Targets(u) = {} THEN Idle
       ELSE [Idle EXCEPT !.step = "locate", !.notice = Len(notices) + 1, !.user = u]]
  /\ UNCHANGED <<rows, redisVars, userVars, subVars, sent, alive, faults>>

(* The servers whose subscriber hears the channel of server s.              *)
Hearers(s) == {r \in alive : listening[r] = "subscribed" /\ channel[r] = s}

(* The pipeline of hget commands, and the grouping by server.               *)
OneGroup(found) == {[to |-> s, targets |-> {f[1] : f \in found}] : s \in {f[2] : f \in found}}
                                                                (* mutant *)
Grouped(found) == {[to |-> s, targets |-> {f[1] : f \in {g \in found : g[2] = s}}] :
                     s \in {f[2] : f \in found}}

(* History: for whom each server that listens now should hear of it.        *)
Reached(found) == UNION {{<<f[1], s>> : s \in Hearers(f[2])} : f \in found}

FoundUnchecked(vs) == {<<v, home[v]>> : v \in vs}               (* mutant *)
Found(vs) == {<<v, home[v]>> : v \in {w \in vs : home[w] # None}}

Locate(t) ==
  /\ Running(t) /\ call[t].step = "locate"
  /\ \/ LET found == Found(notices[call[t].notice].friends)
        IN  /\ Works
            /\ call' = [call EXCEPT ![t].step = "publish", ![t].batches = Grouped(found)]
            /\ notices' = [notices EXCEPT ![call[t].notice].found = found,
                                         ![call[t].notice].reach = Reached(found)]
     \/ /\ Fails /\ call' = [call EXCEPT ![t] = Idle] /\ UNCHANGED notices
  /\ UNCHANGED <<rows, redisVars, userVars, subVars, sent, alive>>

(* The loop over the servers, in any order.                                 *)
StopEarly(left) == Cardinality(left) <= 1                       (* mutant *)
Finished(left)  == left = {}

Publish(t) ==
  /\ Running(t) /\ call[t].step = "publish"
  /\ \/ /\ Finished(call[t].batches)
        /\ call' = [call EXCEPT ![t] = Idle]
        /\ UNCHANGED inbox /\ Works
     \/ \E b \in call[t].batches :
          /\ ~Finished(call[t].batches) /\ Works
          /\ inbox' = [s \in Servers |->
               IF s \in Hearers(b.to)
               THEN Append(inbox[s], [notice |-> call[t].notice, targets |-> b.targets])
               ELSE inbox[s]]
          /\ call' = [call EXCEPT ![t].batches = @ \ {b}]
     \/ /\ ~Finished(call[t].batches) /\ Fails
        /\ call' = [call EXCEPT ![t] = Idle]
        /\ UNCHANGED inbox
  /\ UNCHANGED <<rows, home, userVars, subVars, historyVars, alive>>

----------------------------------------------------------------------------
(* ProcessFriendAccept, up to AcceptFriend of MySQL.  What the user chose   *)
(* is never read: a request is accepted whatever the packet says.           *)
Accept(t, u, v) ==
  /\ Running(t) /\ call[t].step = "idle" /\ u # v /\ rows[{u, v}] = "requested"
  /\ rows' = [rows EXCEPT ![{u, v}] = "friends"]
  /\ call' = [call EXCEPT ![t] = [Idle EXCEPT !.step = "look", !.user = v]]
  /\ UNCHANGED <<redisVars, userVars, subVars, historyVars, alive, faults>>

(* hget of the other user's state.  For one who is online a message is put  *)
(* together and dropped; an error is caught by nobody.                      *)
Look(t) ==
  /\ Running(t) /\ call[t].step = "look"
  /\ \/ /\ Works
        /\ call' = [call EXCEPT ![t].step = "answer"]
        /\ UNCHANGED alive
     \/ Fails /\ alive' = alive \ {At[t]} /\ UNCHANGED call
  /\ UNCHANGED <<rows, redisVars, userVars, subVars, historyVars>>

(* The response goes to the user himself. *)
AnswerFriend(t) ==
  /\ Running(t) /\ call[t].step = "answer"
  /\ call' = [call EXCEPT ![t] = Idle]
  /\ UNCHANGED <<rows, redisVars, userVars, subVars, historyVars, alive, faults>>

Handler(t) == Locate(t) \/ Publish(t) \/ Look(t) \/ AnswerFriend(t)

----------------------------------------------------------------------------
(* SubscribeLoop. *)
Subscribe(s) ==
  /\ s \in alive /\ listening[s] = "before"
  /\ \/ Works /\ listening' = [listening EXCEPT ![s] = "subscribed"]
     \/ Fails /\ listening' = [listening EXCEPT ![s] = "ended"]
  /\ UNCHANGED <<rows, redisVars, userVars, channel, historyVars, call, alive>>

(* consume fails with anything but a timeout: the loop ends for good.       *)
Ends(s) ==
  /\ s \in alive /\ listening[s] = "subscribed" /\ Fails
  /\ listening' = [listening EXCEPT ![s] = "ended"]
  /\ inbox' = [inbox EXCEPT ![s] = <<>>]
  /\ UNCHANGED <<rows, home, userVars, channel, historyVars, call, alive>>

(* GetObjNumByPk inserts connection 0 for a pk it does not know.            *)
Looked(s, v) == IF directory[s][v] = None THEN FirstConn ELSE directory[s][v]

(* SendFriendStatusToUser: the packet goes to the connection looked up for  *)
(* the target, whoever is there, and does not name the target.              *)
SentTo(s, c, v, n) == [sent EXCEPT ![s][v][n] = Append(@, c)]

(* HandleFriendOnline and HandleFriendOffline, one target at a time.        *)
Hear(s) ==
  /\ s \in alive /\ listening[s] = "subscribed" /\ inbox[s] # <<>>
  /\ LET m == Head(inbox[s]) IN
     \E v \in m.targets :
       /\ inbox' = [inbox EXCEPT ![s] =
            (IF m.targets = {v} THEN <<>> ELSE <<[m EXCEPT !.targets = @ \ {v}]>>) \o Tail(@)]
       /\ directory' = [directory EXCEPT ![s][v] = Looked(s, v)]
       /\ sent' = SentTo(s, Looked(s, v), v, m.notice)
  /\ UNCHANGED <<rows, home, seat, moves, subVars, notices, call, alive, faults>>

UserSteps ==
  \/ \E s \in Servers, c \in Conns : Stand(s, c) \/ Register(s, c)
  \/ \E u \in Listeners :
       Fade(u) \/ \E s \in Servers : Unregister(s, u) \/ \E c \in Conns : Sit(s, c, u)

Next ==
  \/ UserSteps
  \/ \E t \in Threads :
       \/ Handler(t)
       \/ \E u \in Speakers : Notice(t, u) \/ \E v \in Users : Accept(t, u, v)
  \/ \E s \in Servers : Subscribe(s) \/ Ends(s) \/ Hear(s)

Spec == Init /\ [][Next]_vars

FairSpec ==
  /\ Spec
  /\ \A t \in Threads : WF_vars(Handler(t))
  /\ \A s \in Servers : WF_vars(Subscribe(s)) /\ WF_vars(Hear(s))

----------------------------------------------------------------------------
Message == [notice : 1 .. MaxNotices, targets : SUBSET Users]

TypeOK ==
  /\ rows \in [Pairs -> {"none", "requested", "friends"}]
  /\ home \in [Users -> Servers \union {None}]
  /\ seat \in [Servers -> [Conns -> Users \union {None}]]
  /\ directory \in [Servers -> [Users -> Conns \union {None}]]
  /\ channel \in [Servers -> Servers \union {None}]
  /\ listening \in [Servers -> {"before", "subscribed", "ended"}]
  /\ inbox \in [Servers -> Seq(Message)]
  /\ call \in [Threads -> [step : {"idle", "locate", "publish", "look", "answer"},
                           notice : 0 .. MaxNotices, user : Users \union {None},
                           batches : SUBSET [to : Servers, targets : SUBSET Users]]]
  /\ alive \subseteq Servers
  /\ sent \in [Servers -> [Users -> [1 .. MaxNotices -> Seq(Conns)]]]

(* A server sends at most one packet of a notice for each target, and sends *)
(* it only for targets whom the sender of the notice found on the channel   *)
(* it listens to: the grouping by server puts nobody in two messages and    *)
(* nobody in a message to another server, though he may move, servers may   *)
(* come and go, and messages with several targets are taken one by one.     *)
(* Which connection gets the packet is another matter: see Looked.          *)
OnceWhereFound ==
  \A s \in Servers, u \in Users, n \in 1 .. MaxNotices :
    /\ Len(sent[s][u][n]) <= 1
    /\ sent[s][u][n] # <<>> => <<u, channel[s]>> \in notices[n].found

(* The thread that tells of a notice is done, and every server that should  *)
(* hear of it has sent the packets.                                         *)
Served(n) ==
  /\ n \in DOMAIN notices
  /\ \A t \in Threads : call[t].notice = n => call[t].step = "idle"
  /\ \A p \in notices[n].reach : sent[p[2]][p[1]][n] # <<>>

(* Every notice is told, and each server that listened to the channel of a  *)
(* friend when he was looked up sends a packet for him, unless a command to *)
(* Redis failed: no target is left out by the loop over the servers, by the *)
(* subscriber, or because the friend has moved or left.                     *)
FoundAreServed ==
  \A n \in 1 .. MaxNotices : n \in DOMAIN notices ~> Served(n) \/ faults > 0
=============================================================================
