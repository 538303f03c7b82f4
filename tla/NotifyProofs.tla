---------------------------- MODULE NotifyProofs ----------------------------
(***************************************************************************)
(* Proofs about Notify, for any number of users, servers, connections and  *)
(* threads: types, and that a server sends one packet for each target, and *)
(* only for those found on its channel.                                    *)
(***************************************************************************)
EXTENDS Notify, SequenceTheorems, TLAPS

USE NotifyAssumption DEF NotifyAssumption

Steps   == {"idle", "locate", "publish", "look", "answer"}
Batch   == [to : Servers, targets : SUBSET Users]
Calls   == [step : Steps, notice : 0 .. MaxNotices, user : Users \union {None},
            batches : SUBSET Batch]
Notices == [about : Users, friends : SUBSET Users, 
            found : SUBSET (Users \X Servers), reach : SUBSET (Users \X Servers)]

(* The parts of TypeOK, with the history it leaves out.                     *)
Typed ==
  /\ rows \in [Pairs -> {"none", "requested", "friends"}]
  /\ home \in [Users -> Servers \union {None}]
  /\ seat \in [Servers -> [Conns -> Users \union {None}]]
  /\ directory \in [Servers -> [Users -> Conns \union {None}]]
  /\ channel \in [Servers -> Servers \union {None}]
  /\ listening \in [Servers -> {"before", "subscribed", "ended"}]
  /\ inbox \in [Servers -> Seq(Message)]
  /\ call \in [Threads -> Calls]
  /\ alive \subseteq Servers
  /\ sent \in [Servers -> [Users -> [1 .. MaxNotices -> Seq(Conns)]]]
  /\ notices \in Seq(Notices) /\ Len(notices) <= MaxNotices

(* A thread that tells friends of a notice, and the notices there are.      *)
Telling(t) == call[t].step \in {"locate", "publish"}

Numbered ==
  /\ \A t \in Threads : Telling(t) => call[t].notice \in 1 .. Len(notices)
  /\ \A t, r \in Threads : Telling(t) /\ Telling(r) /\ call[t].notice = call[r].notice => t = r
  /\ \A s \in Servers : \A i \in DOMAIN inbox[s] : inbox[s][i].notice <= Len(notices)
  /\ \A s \in Servers, u \in Users, n \in 1 .. MaxNotices : n > Len(notices) => sent[s][u][n] = <<>>

(* Where a notice for a user can be on its way to a server: in a message of *)
(* its inbox, or in a group still to be published.                          *)
Holds(s, i, n, u) == i \in DOMAIN inbox[s] /\ inbox[s][i].notice = n /\ u \in inbox[s][i].targets
Boxed(s, n, u) == \E i \in DOMAIN inbox[s] : Holds(s, i, n, u)
Unheard(s, n, u) == sent[s][u][n] = <<>> /\ ~Boxed(s, n, u)
Sends(t, n) == Telling(t) /\ call[t].notice = n
Pending(t, b, n, u) == Sends(t, n) /\ call[t].step = "publish" /\ b \in call[t].batches /\ u \in b.targets
Listed(n, u, c) == <<u, c>> \in notices[n].found

OnePlace(s, n, u) ==
  /\ Len(sent[s][u][n]) <= 1
  /\ sent[s][u][n] # <<>> \/ Boxed(s, n, u) => Listed(n, u, channel[s])
  /\ Boxed(s, n, u) => sent[s][u][n] = <<>>
  /\ \A i, j \in DOMAIN inbox[s] : Holds(s, i, n, u) /\ Holds(s, j, n, u) => i = j
  /\ \A t \in Threads : \A b, d \in call[t].batches :
       /\ Pending(t, b, n, u) => Unheard(s, n, u) /\ Listed(n, u, b.to)
       /\ Pending(t, b, n, u) /\ Pending(t, d, n, u) => b = d
  /\ \A t \in Threads : Sends(t, n) /\ call[t].step = "locate" => Unheard(s, n, u)

Places == \A s \in Servers, u \in Users, n \in 1 .. MaxNotices : OnePlace(s, n, u)

IInv == Numbered /\ Places

LEMMA InitTyped == Init => Typed
<1> SUFFICES ASSUME Init PROVE Typed
  OBVIOUS
<1>1. Idle \in Calls
  BY DEF Idle, Calls, Steps, Batch
<1>2. notices \in Seq(Notices) /\ Len(notices) <= MaxNotices
  BY DEF Init
<1>3. call \in [Threads -> Calls] /\ inbox \in [Servers -> Seq(Message)]
  BY <1>1 DEF Init
<1>4. sent \in [Servers -> [Users -> [1 .. MaxNotices -> Seq(Conns)]]]
  <2>1. <<>> \in Seq(Conns)
    OBVIOUS
  <2>2. QED
    BY <2>1 DEF Init
<1>5. QED
  BY <1>2, <1>3, <1>4 DEF Init, Typed

LEMMA UserStepsTyped == Typed /\ UserSteps => Typed'
<1> SUFFICES ASSUME Typed, UserSteps PROVE Typed'
  OBVIOUS
<1>1. ASSUME NEW s \in Servers, NEW c \in Conns, Stand(s, c) \/ Register(s, c) PROVE Typed'
  <2>1. seat[s][c] \in Users \union {None}
    BY DEF Typed
  <2>2. CASE Stand(s, c)
    BY <2>2 DEF Stand, redisVars, subVars, historyVars, Typed
  <2>3. CASE Register(s, c)
    <3>1. seat[s][c] \in Users
      BY <2>1, <2>3 DEF Register
    <3>2. directory' = [directory EXCEPT ![s][seat[s][c]] = c]
      BY <2>3 DEF Register
    <3>3. directory' \in [Servers -> [Users -> Conns \union {None}]]
      BY <3>1, <3>2 DEF Typed
    <3>4. QED
      BY <2>3, <3>3 DEF Register, redisVars, subVars, historyVars, Typed
  <2>4. QED
    BY <1>1, <2>2, <2>3
<1>2. ASSUME NEW u \in Listeners, NEW s \in Servers, NEW c \in Conns,
             Fade(u) \/ Unregister(s, u) \/ Sit(s, c, u)
      PROVE  Typed'
  <2>1. u \in Users
    OBVIOUS
  <2>2. CASE Fade(u)
    BY <2>1, <2>2 DEF Fade, subVars, historyVars, Typed
  <2>3. CASE Unregister(s, u)
    BY <2>1, <2>3 DEF Unregister, redisVars, subVars, historyVars, Typed
  <2>4. CASE Sit(s, c, u)
    BY <2>1, <2>4 DEF Sit, subVars, historyVars, Typed
  <2>5. QED
    BY <1>2, <2>2, <2>3, <2>4
<1>3. ASSUME NEW u \in Listeners, Fade(u) PROVE Typed'
  BY <1>3 DEF Fade, subVars, historyVars, Typed
<1>4. ASSUME NEW u \in Listeners, NEW s \in Servers, Unregister(s, u) PROVE Typed'
  BY <1>4 DEF Unregister, redisVars, subVars, historyVars, Typed
<1>5. QED
  BY <1>1, <1>2, <1>3, <1>4 DEF UserSteps

(* What a thread's call becomes.                                            *)
LEMMA CallType ==
  ASSUME Typed, NEW t \in Threads, NEW x \in Calls, call' = [call EXCEPT ![t] = x]
  PROVE  call' \in [Threads -> Calls]
BY DEF Typed

LEMMA IdleType == Idle \in Calls
BY DEF Idle, Calls, Steps, Batch

LEMMA EnteredType ==
  ASSUME NEW x \in Calls, NEW step \in Steps, NEW u \in Users
  PROVE  /\ [x EXCEPT !.step = step, !.user = u] \in Calls
         /\ \A n \in 0 .. MaxNotices :
              [x EXCEPT !.step = step, !.notice = n, !.user = u] \in Calls
BY DEF Calls

(* The fields of a call that begins.                                        *)
LEMMA EnteredFields ==
  ASSUME NEW x \in Calls, NEW step, NEW n, NEW u
  PROVE  /\ [x EXCEPT !.step = step, !.notice = n, !.user = u].step = step
         /\ [x EXCEPT !.step = step, !.notice = n, !.user = u].notice = n
BY DEF Calls

LEMMA NoticeTyped ==
  ASSUME Typed, NEW t \in Threads, NEW u \in Speakers, Notice(t, u)
  PROVE  Typed'
<1>1. notices' = Append(notices, [about |-> u, friends |-> Targets(u),
                               found |-> {}, reach |-> {}])
  BY DEF Notice
<1>2. [about |-> u, friends |-> Targets(u),
                               found |-> {}, reach |-> {}] \in Notices
  BY DEF Notices, Targets, FriendsOf
<1>3. notices \in Seq(Notices) /\ Len(notices) \in Nat /\ Len(notices) < MaxNotices
  BY DEF Typed, Notice
<1>4. notices' \in Seq(Notices) /\ Len(notices') = Len(notices) + 1
  BY <1>1, <1>2, <1>3
<1>5. call' \in [Threads -> Calls]
  <2>1. Idle \in Calls /\ [Idle EXCEPT !.step = "locate", !.notice = Len(notices) + 1, !.user = u] \in Calls
    <3>1. Len(notices) + 1 \in 0 .. MaxNotices /\ u \in Users /\ "locate" \in Steps
      BY <1>3 DEF Steps
    <3>2. QED
      BY <3>1, IdleType, EnteredType
  <2>2. call' = [call EXCEPT ![t] = Idle]
        \/ call' = [call EXCEPT ![t] = [Idle EXCEPT !.step = "locate", !.notice = Len(notices) + 1, !.user = u]]
    BY DEF Notice
  <2>3. QED
    BY <2>1, <2>2 DEF Typed
<1>6. QED
  BY <1>3, <1>4, <1>5 DEF Notice, redisVars, userVars, subVars, Typed

LEMMA GroupedType ==
  ASSUME Typed, NEW vs \in SUBSET Users
  PROVE  Grouped(Found(vs)) \in SUBSET Batch
<1>1. \A f \in Found(vs) : f[1] \in Users /\ f[2] \in Servers
  BY DEF Found, Typed
<1>2. QED
  BY <1>1 DEF Grouped, Batch

LEMMA LocateTyped ==
  ASSUME Typed, Numbered, NEW t \in Threads, Locate(t)
  PROVE  Typed'
<1> DEFINE n == call[t].notice
           found == Found(notices[n].friends)
           reach == Reached(found)
<1>1. n \in 1 .. Len(notices) /\ notices \in Seq(Notices) /\ call[t] \in Calls
  BY DEF Locate, Numbered, Telling, Typed
<1>2. notices[n] \in Notices
  BY <1>1
<1>3. Grouped(found) \in SUBSET Batch /\ found \in SUBSET (Users \X Servers)
      /\ reach \in SUBSET (Users \X Servers)
  <2>1. notices[n].friends \in SUBSET Users
    BY <1>2 DEF Notices
  <2>2. found \in SUBSET (Users \X Servers)
    BY <2>1 DEF Found, Typed
  <2>3. \A s : Hearers(s) \subseteq Servers
    BY DEF Hearers, Typed
  <2>4. reach \in SUBSET (Users \X Servers)
    <3> HIDE DEF found
    <3>1. \A f \in found : f[1] \in Users
      BY <2>2
    <3>2. QED
      BY <2>3, <3>1 DEF Reached
  <2>5. QED
    BY <2>1, <2>2, <2>4, GroupedType
<1>4. \/ call' = [call EXCEPT ![t] = Idle] /\ UNCHANGED notices
      \/ /\ call' = [call EXCEPT ![t].step = "publish", ![t].batches = Grouped(found)]
         /\ notices' = [notices EXCEPT ![n].found = found, ![n].reach = reach]
  BY DEF Locate
<1> HIDE DEF found, reach, n
<1>5. call' \in [Threads -> Calls]
  <2>1. ASSUME call' = [call EXCEPT ![t].step = "publish", ![t].batches = Grouped(found)]
        PROVE  call' \in [Threads -> Calls]
    <3>1. [[call[t] EXCEPT !.step = "publish"] EXCEPT !.batches = Grouped(found)] \in Calls
      BY <1>1, <1>3 DEF Calls, Steps
    <3>2. call' = [call EXCEPT ![t] = [[call[t] EXCEPT !.step = "publish"] EXCEPT !.batches = Grouped(found)]]
      BY <2>1 DEF Typed
    <3>3. QED
      BY <3>1, <3>2, CallType
  <2>2. QED
    BY <1>4, <2>1, IdleType, CallType
<1>6. notices' \in Seq(Notices) /\ Len(notices') <= MaxNotices
  <2>1. ASSUME notices' = [notices EXCEPT ![n].found = found, ![n].reach = reach]
        PROVE  notices' \in Seq(Notices) /\ Len(notices') = Len(notices)
    <3>1. [notices[n] EXCEPT !.found = found, !.reach = reach] \in Notices
      BY <1>2, <1>3 DEF Notices
    <3>2. notices' = [notices EXCEPT ![n] = [notices[n] EXCEPT !.found = found, !.reach = reach]]
      BY <1>1, <2>1
    <3>3. QED
      BY <1>1, <3>1, <3>2
  <2>2. QED
    BY <1>4, <2>1 DEF Typed
<1>7. QED
  BY <1>5, <1>6 DEF Locate, redisVars, userVars, subVars, Typed

LEMMA PublishTyped ==
  ASSUME Typed, Numbered, NEW t \in Threads, Publish(t)
  PROVE  Typed'
<1>1. call[t] \in Calls /\ call[t].notice \in 1 .. MaxNotices
  BY DEF Publish, Numbered, Telling, Typed
<1>2. ASSUME NEW b \in call[t].batches,
             inbox' = [s \in Servers |->
               IF s \in Hearers(b.to)
               THEN Append(inbox[s], [notice |-> call[t].notice, targets |-> b.targets])
               ELSE inbox[s]],
             call' = [call EXCEPT ![t].batches = @ \ {b}]
      PROVE  inbox' \in [Servers -> Seq(Message)] /\ call' \in [Threads -> Calls]
  <2>1. [notice |-> call[t].notice, targets |-> b.targets] \in Message
    BY <1>1 DEF Calls, Batch, Message
  <2>2. \A s \in Servers : inbox[s] \in Seq(Message)
    BY DEF Typed
  <2>3. inbox' \in [Servers -> Seq(Message)]
    BY <1>2, <2>1, <2>2
  <2>4. [call[t] EXCEPT !.batches = @ \ {b}] \in Calls
    BY <1>1 DEF Calls
  <2>5. call' = [call EXCEPT ![t] = [call[t] EXCEPT !.batches = @ \ {b}]]
    BY <1>2 DEF Typed
  <2>6. QED
    BY <2>3, <2>4, <2>5, CallType
<1>3. \/ inbox' \in [Servers -> Seq(Message)] /\ call' \in [Threads -> Calls]
      \/ inbox' = inbox /\ call' = [call EXCEPT ![t] = Idle]
  BY <1>2 DEF Publish
<1>4. inbox' \in [Servers -> Seq(Message)] /\ call' \in [Threads -> Calls]
  BY <1>3, IdleType, CallType DEF Typed
<1>5. QED
  BY <1>4 DEF Publish, userVars, subVars, historyVars, Typed

LEMMA FriendAcceptTyped ==
  ASSUME Typed, NEW t \in Threads,
         Look(t) \/ AnswerFriend(t) \/ \E u \in Speakers, v \in Users : Accept(t, u, v)
  PROVE  Typed'
<1>1. call[t] \in Calls
  BY DEF Typed
<1>2. CASE Look(t)
  <2>1. [call[t] EXCEPT !.step = "answer"] \in Calls
    BY <1>1 DEF Calls, Steps
  <2>2. call' = call \/ call' = [call EXCEPT ![t] = [call[t] EXCEPT !.step = "answer"]]
    BY <1>2 DEF Look, Typed
  <2>3. call' \in [Threads -> Calls]
    BY <2>1, <2>2 DEF Typed
  <2>4. QED
    BY <1>2, <2>3 DEF Look, redisVars, userVars, subVars, historyVars, Typed
<1>3. CASE AnswerFriend(t)
  <2>1. call' \in [Threads -> Calls]
    BY <1>3, IdleType, CallType DEF AnswerFriend
  <2>2. QED
    BY <1>3, <2>1 DEF AnswerFriend, redisVars, userVars, subVars, historyVars, Typed
<1>4. ASSUME NEW u \in Speakers, NEW v \in Users, Accept(t, u, v) PROVE Typed'
  <2>1. [Idle EXCEPT !.step = "look", !.user = v] \in Calls
    BY IdleType, EnteredType DEF Steps
  <2>2. call' \in [Threads -> Calls]
    BY <1>4, <2>1, CallType DEF Accept
  <2>3. rows' \in [Pairs -> {"none", "requested", "friends"}]
    BY <1>4 DEF Accept, Typed
  <2>4. QED
    BY <1>4, <2>2, <2>3 DEF Accept, redisVars, userVars, subVars, historyVars, Typed
<1>5. QED
  BY <1>2, <1>3, <1>4

(* A message from which a target is taken, and which goes with the last.    *)
Took(q, v) == IF q[1].targets = {v} THEN Tail(q)
              ELSE [q EXCEPT ![1] = [q[1] EXCEPT !.targets = @ \ {v}]]

LEMMA HearOutcome ==
  ASSUME Typed, NEW s \in Servers, Hear(s)
  PROVE  /\ inbox[s] \in Seq(Message) /\ 1 \in DOMAIN inbox[s] /\ inbox[s][1] \in Message
         /\ \E v \in inbox[s][1].targets :
              /\ inbox' = [inbox EXCEPT ![s] = Took(inbox[s], v)]
              /\ directory' = [directory EXCEPT ![s][v] = Looked(s, v)]
              /\ sent' = SentTo(s, Looked(s, v), v, inbox[s][1].notice)
<1>1. inbox[s] \in Seq(Message) /\ inbox[s] # <<>>
  BY DEF Typed, Hear
<1>2. 1 \in DOMAIN inbox[s] /\ inbox[s][1] \in Message /\ Head(inbox[s]) = inbox[s][1]
  BY <1>1
<1>3. ASSUME NEW x \in Message PROVE <<x>> \o Tail(inbox[s]) = [inbox[s] EXCEPT ![1] = x]
  <2> DEFINE q == inbox[s]
  <2> HIDE DEF q
  <2>1. q \in Seq(Message) /\ q # <<>>
    BY <1>1 DEF q
  <2>2. <<x>> \o Tail(q) = [q EXCEPT ![1] = x]
    BY <2>1, SMTT(30)
  <2>3. QED
    BY <2>2 DEF q
<1>4. <<>> \o Tail(inbox[s]) = Tail(inbox[s])
  <2>1. Tail(inbox[s]) \in Seq(Message)
    BY <1>1
  <2>2. QED
    BY <2>1
<1>5. \A v : [inbox[s][1] EXCEPT !.targets = @ \ {v}] \in Message
  BY <1>2 DEF Message
<1>6. PICK v \in inbox[s][1].targets :
        /\ inbox' = [inbox EXCEPT ![s] =
             (IF inbox[s][1].targets = {v} THEN <<>>
              ELSE <<[inbox[s][1] EXCEPT !.targets = @ \ {v}]>>) \o Tail(@)]
        /\ directory' = [directory EXCEPT ![s][v] = Looked(s, v)]
        /\ sent' = SentTo(s, Looked(s, v), v, inbox[s][1].notice)
  BY <1>2 DEF Hear
<1>7. inbox' = [inbox EXCEPT ![s] = Took(inbox[s], v)]
  <2>1. CASE inbox[s][1].targets = {v}
    BY <1>4, <1>6, <2>1 DEF Took
  <2>2. CASE inbox[s][1].targets # {v}
    BY <1>3, <1>5, <1>6, <2>2 DEF Took
  <2>3. QED
    BY <2>1, <2>2
<1>8. QED
  BY <1>1, <1>2, <1>6, <1>7

(* What sending one packet does to the history.                             *)
LEMMA SentOutcome ==
  ASSUME Typed, NEW s \in Servers, NEW c \in Conns, NEW v \in Users, NEW m \in 1 .. MaxNotices,
         sent' = SentTo(s, c, v, m)
  PROVE  /\ sent' \in [Servers -> [Users -> [1 .. MaxNotices -> Seq(Conns)]]]
         /\ \A r \in Servers, u \in Users, n \in 1 .. MaxNotices :
              sent'[r][u][n] = IF r = s /\ u = v /\ n = m THEN Append(sent[r][u][n], c)
                               ELSE sent[r][u][n]
<1> DEFINE T == [1 .. MaxNotices -> Seq(Conns)]
<1>1. sent \in [Servers -> [Users -> T]]
  BY DEF Typed
<1>2. sent[s] \in [Users -> T]
  BY <1>1
<1>3. sent[s][v] \in T
  BY <1>2
<1>4. Append(sent[s][v][m], c) \in Seq(Conns)
  BY <1>3
<1>5. [sent[s][v] EXCEPT ![m] = Append(@, c)] \in T
  BY <1>3, <1>4
<1>6. sent' = [sent EXCEPT ![s] = [sent[s] EXCEPT ![v] = [sent[s][v] EXCEPT ![m] = Append(@, c)]]]
  BY <1>1, <1>2, <1>3 DEF SentTo
<1>7. sent'[s] = [sent[s] EXCEPT ![v] = [sent[s][v] EXCEPT ![m] = Append(@, c)]]
      /\ \A r \in Servers : r # s => sent'[r] = sent[r]
  BY <1>1, <1>6
<1>8. sent'[s][v] = [sent[s][v] EXCEPT ![m] = Append(@, c)]
      /\ \A u \in Users : u # v => sent'[s][u] = sent[s][u]
  BY <1>2, <1>7
<1>9. sent'[s][v][m] = Append(sent[s][v][m], c)
      /\ \A n \in 1 .. MaxNotices : n # m => sent'[s][v][n] = sent[s][v][n]
  BY <1>3, <1>8
<1> HIDE DEF T
<1>10. sent'[s] \in [Users -> T]
  BY <1>2, <1>5, <1>7
<1>11. sent' \in [Servers -> [Users -> T]]
  BY <1>1, <1>5, <1>2, <1>6
<1>12. QED
  BY <1>7, <1>8, <1>9, <1>11 DEF T

LEMMA HearTyped ==
  ASSUME Typed, NEW s \in Servers, Hear(s)
  PROVE  Typed'
<1>1. inbox[s] \in Seq(Message) /\ 1 \in DOMAIN inbox[s] /\ inbox[s][1] \in Message
  BY HearOutcome
<1>2. PICK v \in inbox[s][1].targets :
        /\ inbox' = [inbox EXCEPT ![s] = Took(inbox[s], v)]
        /\ directory' = [directory EXCEPT ![s][v] = Looked(s, v)]
        /\ sent' = SentTo(s, Looked(s, v), v, inbox[s][1].notice)
  BY HearOutcome
<1>3. inbox[s][1].notice \in 1 .. MaxNotices /\ inbox[s][1].targets \in SUBSET Users /\ v \in Users
  BY <1>1, <1>2 DEF Message
<1>4. Took(inbox[s], v) \in Seq(Message)
  <2>1. [inbox[s][1] EXCEPT !.targets = @ \ {v}] \in Message
    BY <1>1 DEF Message
  <2>2. [inbox[s] EXCEPT ![1] = [inbox[s][1] EXCEPT !.targets = @ \ {v}]] \in Seq(Message)
    BY <1>1, <2>1
  <2>3. Tail(inbox[s]) \in Seq(Message)
    BY <1>1
  <2>4. QED
    BY <2>2, <2>3 DEF Took
<1>5. inbox' \in [Servers -> Seq(Message)]
  BY <1>2, <1>4 DEF Typed
<1>6. Looked(s, v) \in Conns
  BY <1>3 DEF Looked, Typed
<1>7. directory' \in [Servers -> [Users -> Conns \union {None}]]
  BY <1>2, <1>3, <1>6 DEF Typed
<1>8. sent' \in [Servers -> [Users -> [1 .. MaxNotices -> Seq(Conns)]]]
  BY <1>2, <1>3, <1>6, SentOutcome
<1>9. QED
  BY <1>5, <1>7, <1>8 DEF Hear, subVars, Typed

LEMMA SubscriberTyped ==
  ASSUME Typed, NEW s \in Servers, Subscribe(s) \/ Ends(s)
  PROVE  Typed'
<1>1. CASE Subscribe(s)
  BY <1>1 DEF Subscribe, redisVars, userVars, historyVars, Typed
<1>2. CASE Ends(s)
  <2>1. <<>> \in Seq(Message)
    OBVIOUS
  <2>2. inbox' \in [Servers -> Seq(Message)]
    BY <1>2, <2>1 DEF Ends, Typed
  <2>3. QED
    BY <1>2, <2>2 DEF Ends, userVars, historyVars, Typed
<1>3. QED
  BY <1>1, <1>2

LEMMA StepTyped == Typed /\ Numbered /\ [Next]_vars => Typed'
<1> SUFFICES ASSUME Typed, Numbered, [Next]_vars PROVE Typed'
  OBVIOUS
<1>1. CASE UNCHANGED vars
  BY <1>1 DEF vars, redisVars, userVars, subVars, historyVars, Typed
<1>2. QED
  BY <1>1, UserStepsTyped, NoticeTyped, LocateTyped, PublishTyped, FriendAcceptTyped, HearTyped,
     SubscriberTyped DEF Next, Handler

-----------------------------------------------------------------------------
LEMMA InitInv == Init => IInv
<1> SUFFICES ASSUME Init PROVE IInv
  OBVIOUS
<1>1. \A t \in Threads : call[t] = Idle
  BY DEF Init
<1>2. \A t \in Threads : call[t].step = "idle" /\ call[t].batches = {}
  BY <1>1 DEF Idle
<1>3. \A s \in Servers : inbox[s] = <<>> /\ DOMAIN inbox[s] = {}
  BY DEF Init
<1>4. \A s \in Servers, u \in Users, n \in 1 .. MaxNotices : sent[s][u][n] = <<>>
  BY DEF Init
<1>5. Numbered
  BY <1>2, <1>3, <1>4 DEF Numbered, Telling
<1>6. ASSUME NEW s \in Servers, NEW u \in Users, NEW n \in 1 .. MaxNotices
      PROVE  OnePlace(s, n, u)
  <2>1. ~Boxed(s, n, u) /\ \A i : ~Holds(s, i, n, u)
    BY <1>3 DEF Boxed, Holds
  <2>2. \A t \in Threads : ~Sends(t, n) /\ \A b : ~Pending(t, b, n, u)
    BY <1>2 DEF Pending, Sends, Telling
  <2>3. sent[s][u][n] = <<>> /\ Len(sent[s][u][n]) <= 1
    BY <1>4
  <2>4. QED
    BY <2>1, <2>2, <2>3 DEF OnePlace
<1>7. QED
  BY <1>5, <1>6 DEF IInv, Places

(* A step that sends nothing: calls may end and inboxes may be lost.        *)
Calm ==
  /\ notices' = notices /\ sent' = sent /\ channel' = channel
  /\ \A t \in Threads : call'[t] = call[t] \/ call'[t].step \notin {"locate", "publish"}
  /\ \A s \in Servers : inbox'[s] = inbox[s] \/ inbox'[s] = <<>>

LEMMA CalmNumbered == Numbered /\ Calm => Numbered'
<1> SUFFICES ASSUME Numbered, Calm PROVE Numbered'
  OBVIOUS
<1>1. \A t \in Threads : Telling(t)' => Telling(t) /\ call'[t] = call[t]
  BY DEF Calm, Telling
<1>2. \A s \in Servers : \A i \in DOMAIN inbox'[s] :
        i \in DOMAIN inbox[s] /\ inbox'[s] = inbox[s]
  BY DEF Calm
<1>3. notices' = notices /\ sent' = sent
  BY DEF Calm
<1>4. QED
  BY <1>1, <1>2, <1>3 DEF Numbered

LEMMA CalmPlaces == Places /\ Calm => Places'
<1> SUFFICES ASSUME Places, Calm, NEW s \in Servers, NEW u \in Users, NEW n \in 1 .. MaxNotices
             PROVE  OnePlace(s, n, u)'
  BY DEF Places
<1>1. OnePlace(s, n, u) /\ sent' = sent /\ channel' = channel
  BY DEF Places, Calm
<1>2. \A c : Listed(n, u, c)' <=> Listed(n, u, c)
  BY DEF Calm, Listed
<1>3. \A i : Holds(s, i, n, u)' => Holds(s, i, n, u)
  BY DEF Calm, Holds
<1>4. Boxed(s, n, u)' => Boxed(s, n, u)
  BY <1>3 DEF Boxed, Holds
<1>5. \A t \in Threads : Sends(t, n)' => Sends(t, n) /\ call'[t] = call[t]
  BY DEF Calm, Sends, Telling
<1>6. \A t \in Threads : \A b : Pending(t, b, n, u)' => Pending(t, b, n, u)
  BY <1>5 DEF Pending
<1>7. \A i : Holds(s, i, n, u)' => i \in DOMAIN inbox[s] /\ i \in DOMAIN inbox'[s]
  BY <1>3 DEF Holds
<1>8. \A t \in Threads : \A b : Pending(t, b, n, u) => b \in call[t].batches
  BY DEF Pending
<1>9. Unheard(s, n, u) => Unheard(s, n, u)'
  BY <1>1, <1>4 DEF Unheard
<1>10. /\ Len(sent'[s][u][n]) <= 1
       /\ sent'[s][u][n] # <<>> \/ Boxed(s, n, u)' => Listed(n, u, channel[s])
       /\ Boxed(s, n, u)' => sent'[s][u][n] = <<>>
  BY <1>1, <1>4 DEF OnePlace
<1>11. \A i, j : Holds(s, i, n, u)' /\ Holds(s, j, n, u)' => i = j
  BY <1>1, <1>3, <1>7 DEF OnePlace
<1>12. \A t \in Threads : \A b, d :
         /\ Pending(t, b, n, u)' => Unheard(s, n, u)' /\ Listed(n, u, b.to)
         /\ Pending(t, b, n, u)' /\ Pending(t, d, n, u)' => b = d
  BY <1>1, <1>6, <1>8, <1>9 DEF OnePlace
<1>13. \A t \in Threads : Sends(t, n)' /\ call'[t].step = "locate" => Unheard(s, n, u)'
  BY <1>1, <1>5, <1>9 DEF OnePlace
<1>14. QED
  BY <1>1, <1>2, <1>10, <1>11, <1>12, <1>13 DEF OnePlace

(* The steps that are calm.                                                 *)
LEMMA IdleIsCalm ==
  ASSUME Typed, NEW t \in Threads, NEW x, x.step \notin {"locate", "publish"},
         call' = [call EXCEPT ![t] = x], inbox' = inbox, sent' = sent, notices' = notices,
         channel' = channel
  PROVE  Calm
BY DEF Calm, Typed

LEMMA CalmSteps ==
  ASSUME Typed,
         \/ UNCHANGED vars \/ UserSteps
         \/ \E t \in Threads : Look(t) \/ AnswerFriend(t) \/ \E u \in Speakers, v \in Users : Accept(t, u, v)
         \/ \E s \in Servers : Subscribe(s) \/ Ends(s)
  PROVE  Calm
<1>1. CASE UNCHANGED vars \/ UserSteps
  <2>1. UNCHANGED <<call, inbox, historyVars, channel>>
    BY <1>1 DEF vars, redisVars, subVars, UserSteps, Stand, Register, Fade, Unregister, Sit
  <2>2. QED
    BY <2>1 DEF Calm, historyVars
<1>2. ASSUME NEW t \in Threads, Look(t) \/ AnswerFriend(t) \/ \E u \in Speakers, v \in Users : Accept(t, u, v)
      PROVE  Calm
  <2>1. inbox' = inbox /\ sent' = sent /\ notices' = notices /\ channel' = channel
    BY <1>2 DEF Look, AnswerFriend, Accept, redisVars, subVars, historyVars
  <2>2. \/ call' = call \/ call' = [call EXCEPT ![t].step = "answer"] \/ call' = [call EXCEPT ![t] = Idle]
        \/ \E v \in Users : call' = [call EXCEPT ![t] = [Idle EXCEPT !.step = "look", !.user = v]]
    BY <1>2 DEF Look, AnswerFriend, Accept
  <2>3. CASE call' = call
    BY <2>1, <2>3 DEF Calm
  <2>4. CASE call' = [call EXCEPT ![t].step = "answer"]
    <3>1. call' = [call EXCEPT ![t] = [call[t] EXCEPT !.step = "answer"]] /\ call[t] \in Calls
      BY <2>4 DEF Typed
    <3>2. [call[t] EXCEPT !.step = "answer"].step = "answer"
      BY <3>1 DEF Calls
    <3>3. QED
      BY <2>1, <3>1, <3>2, IdleIsCalm
  <2>5. CASE call' = [call EXCEPT ![t] = Idle]
    BY <2>1, <2>5, IdleIsCalm DEF Idle
  <2>6. ASSUME NEW v \in Users, call' = [call EXCEPT ![t] = [Idle EXCEPT !.step = "look", !.user = v]]
        PROVE  Calm
    <3>1. [Idle EXCEPT !.step = "look", !.user = v].step = "look"
      BY DEF Idle
    <3>2. QED
      BY <2>1, <2>6, <3>1, IdleIsCalm
  <2>7. QED
    BY <2>2, <2>3, <2>4, <2>5, <2>6
<1>3. ASSUME NEW s \in Servers, Subscribe(s) \/ Ends(s) PROVE Calm
  <2>1. call' = call /\ sent' = sent /\ notices' = notices /\ channel' = channel
    BY <1>3 DEF Subscribe, Ends, redisVars, historyVars
  <2>2. inbox' = inbox \/ inbox' = [inbox EXCEPT ![s] = <<>>]
    BY <1>3 DEF Subscribe, Ends, redisVars
  <2>3. QED
    BY <2>1, <2>2 DEF Calm, Typed
<1>4. QED
  BY <1>1, <1>2, <1>3

(* A new notice has a number no message and no call has yet.                *)
LEMMA NoticeInv ==
  ASSUME Typed, Numbered, NEW t \in Threads, NEW w \in Speakers, Notice(t, w)
  PROVE  Numbered' /\ (Places => Places')
<1> DEFINE k == Len(notices)
           x == [about |-> w, friends |-> Targets(w), found |-> {}, reach |-> {}]
<1>1. k \in Nat /\ k < MaxNotices /\ Len(notices') = k + 1
      /\ \A n \in 1 .. k : notices'[n] = notices[n]
  <2>1. notices \in Seq(Notices) /\ k < MaxNotices /\ notices' = Append(notices, x)
    BY DEF Typed, Notice
  <2> HIDE DEF x
  <2>2. QED
    BY <2>1
<1>2. inbox' = inbox /\ sent' = sent /\ channel' = channel
  BY DEF Notice, redisVars, subVars
<1>3. \A r \in Threads : r # t => call'[r] = call[r]
  BY DEF Notice, Typed
<1>4. Telling(t)' => call'[t].step = "locate" /\ call'[t].notice = k + 1
  <2>1. \/ call'[t] = Idle
        \/ call'[t] = [Idle EXCEPT !.step = "locate", !.notice = k + 1, !.user = w]
    BY DEF Notice, Typed
  <2>2. CASE call'[t] = Idle
    BY <2>2 DEF Idle, Telling
  <2>3. CASE call'[t] = [Idle EXCEPT !.step = "locate", !.notice = k + 1, !.user = w]
    <3>1. /\ [Idle EXCEPT !.step = "locate", !.notice = k + 1, !.user = w].step = "locate"
          /\ [Idle EXCEPT !.step = "locate", !.notice = k + 1, !.user = w].notice = k + 1
      BY IdleType, EnteredFields
    <3>2. QED
      BY <2>3, <3>1
  <2>4. QED
    BY <2>1, <2>2, <2>3
<1>5. \A r \in Threads : r # t /\ Telling(r)' => Telling(r) /\ call[r].notice \in 1 .. k
  BY <1>3 DEF Telling, Numbered
<1>6. \A s \in Servers : \A i \in DOMAIN inbox[s] : inbox[s][i].notice \in Nat /\ inbox[s][i].notice <= k
  <2>1. ASSUME NEW s \in Servers, NEW i \in DOMAIN inbox[s] PROVE inbox[s][i].notice \in Nat
    <3>1. inbox[s] \in Seq(Message)
      BY DEF Typed
    <3>2. inbox[s][i] \in Message
      BY <3>1
    <3>3. QED
      BY <3>2 DEF Message
  <2>2. QED
    BY <2>1 DEF Numbered
<1>7. \A s \in Servers, u \in Users, n \in 1 .. MaxNotices : n > k => sent[s][u][n] = <<>>
  BY DEF Numbered
<1> HIDE DEF k
<1>8. Numbered'
  <2>1. \A r \in Threads : Telling(r)' => call'[r].notice \in 1 .. k + 1
    BY <1>1, <1>3, <1>4, <1>5
  <2>2. \A r, q \in Threads : Telling(r)' /\ Telling(q)' /\ call'[r].notice = call'[q].notice => r = q
    <3>1. ASSUME NEW r \in Threads, NEW q \in Threads, r # t, q # t, Telling(r)', Telling(q)',
                 call'[r].notice = call'[q].notice
          PROVE  r = q
      BY <1>3, <1>5, <3>1 DEF Numbered
    <3>2. \A r \in Threads : r # t /\ Telling(r)' => call'[r].notice # k + 1
      BY <1>1, <1>3, <1>5
    <3>3. QED
      BY <1>4, <3>1, <3>2
  <2>3. \A s \in Servers : \A i \in DOMAIN inbox[s] : inbox[s][i].notice <= k + 1
    BY <1>1, <1>6
  <2>4. \A s \in Servers, u \in Users, n \in 1 .. MaxNotices : n > k + 1 => sent[s][u][n] = <<>>
    BY <1>1, <1>7
  <2>5. QED
    BY <1>1, <1>2, <2>1, <2>2, <2>3, <2>4 DEF Numbered
<1>9. ASSUME Places, NEW s \in Servers, NEW u \in Users, NEW n \in 1 .. MaxNotices
      PROVE  OnePlace(s, n, u)'
  <2>1. OnePlace(s, n, u)
    BY <1>9 DEF Places
  <2>2. \A i : Holds(s, i, n, u)' <=> Holds(s, i, n, u)
    BY <1>2 DEF Holds
  <2>3. Boxed(s, n, u)' <=> Boxed(s, n, u)
    BY <1>2 DEF Boxed, Holds
  <2>4. Unheard(s, n, u)' <=> Unheard(s, n, u)
    BY <1>2, <2>3 DEF Unheard
  <2>5. n > k => Unheard(s, n, u)
    BY <1>1, <1>6, <1>7 DEF Boxed, Holds, Unheard
  <2>6. n <= k => \A c : Listed(n, u, c)' <=> Listed(n, u, c)
    BY <1>1 DEF Listed
  <2>7. Sends(t, n)' => call'[t].step = "locate" /\ n > k
    BY <1>1, <1>4 DEF Sends
  <2>8. \A r \in Threads : r # t /\ Sends(r, n)' => Sends(r, n) /\ call'[r] = call[r] /\ n <= k
    BY <1>1, <1>3, <1>5 DEF Sends, Telling
  <2>9. \A r \in Threads : \A b : Pending(r, b, n, u)' =>
          Pending(r, b, n, u) /\ b \in call[r].batches /\ n <= k
    BY <2>7, <2>8 DEF Pending
  <2>10. \A r \in Threads : Sends(r, n)' /\ call'[r].step = "locate" => Unheard(s, n, u)'
    BY <2>1, <2>4, <2>5, <2>7, <2>8 DEF OnePlace
  <2>11. sent'[s][u][n] # <<>> \/ Boxed(s, n, u)' => Listed(n, u, channel[s])'
    <3>1. sent[s][u][n] # <<>> \/ Boxed(s, n, u) => n <= k /\ Listed(n, u, channel[s])
      BY <1>1, <2>1, <2>5 DEF OnePlace, Unheard
    <3>2. QED
      BY <1>2, <2>3, <2>6, <3>1 DEF Listed
  <2>12. \A r \in Threads : \A b, d :
           /\ Pending(r, b, n, u)' => Unheard(s, n, u)' /\ Listed(n, u, b.to)'
           /\ Pending(r, b, n, u)' /\ Pending(r, d, n, u)' => b = d
    BY <2>1, <2>4, <2>6, <2>9 DEF OnePlace
  <2>13. /\ Len(sent'[s][u][n]) <= 1
         /\ Boxed(s, n, u)' => sent'[s][u][n] = <<>>
         /\ \A i, j \in DOMAIN inbox'[s] : Holds(s, i, n, u)' /\ Holds(s, j, n, u)' => i = j
    BY <1>2, <2>1, <2>2, <2>3 DEF OnePlace
  <2>14. QED
    BY <1>2, <2>10, <2>11, <2>12, <2>13 DEF OnePlace
<1>10. QED
  BY <1>8, <1>9 DEF Places

(* A friend is at one server, so that he is in one group, which goes to     *)
(* that server.                                                             *)
LEMMA OneGroupEach ==
  ASSUME NEW vs, NEW b \in Grouped(Found(vs)), NEW u \in b.targets
  PROVE  /\ <<u, b.to>> \in Found(vs)
         /\ \A d \in Grouped(Found(vs)) : u \in d.targets => b = d
<1>1. \A f \in Found(vs) : f = <<f[1], f[2]>> /\ f[2] = home[f[1]]
  BY DEF Found
<1>2. PICK s : b = [to |-> s, targets |-> {f[1] : f \in {g \in Found(vs) : g[2] = s}}]
  BY DEF Grouped
<1>3. s = home[u] /\ <<u, s>> \in Found(vs)
  <2>1. PICK f \in Found(vs) : f[2] = s /\ f[1] = u
    BY <1>2
  <2>2. QED
    BY <1>1, <2>1
<1>4. ASSUME NEW d \in Grouped(Found(vs)), u \in d.targets PROVE b = d
  <2>1. PICK r : d = [to |-> r, targets |-> {f[1] : f \in {g \in Found(vs) : g[2] = r}}]
    BY DEF Grouped
  <2>2. r = home[u]
    BY <1>1, <1>4, <2>1
  <2>3. QED
    BY <1>2, <1>3, <2>1, <2>2
<1>5. QED
  BY <1>2, <1>3, <1>4

LEMMA LocateInv ==
  ASSUME Typed, Numbered, NEW t \in Threads, Locate(t)
  PROVE  Calm \/ (Numbered' /\ (Places => Places'))
<1> DEFINE m == call[t].notice
           found == Found(notices[m].friends)
           reach == Reached(found)
<1>1. inbox' = inbox /\ sent' = sent /\ channel' = channel /\ call[t].step = "locate" /\ call[t] \in Calls
  BY DEF Locate, redisVars, subVars, Typed
<1>2. CASE call' = [call EXCEPT ![t] = Idle] /\ UNCHANGED notices
  BY <1>1, <1>2 DEF Calm, Idle, Typed
<1>3. ASSUME call' = [call EXCEPT ![t].step = "publish", ![t].batches = Grouped(found)],
             notices' = [notices EXCEPT ![m].found = found, ![m].reach = reach]
      PROVE  Numbered' /\ (Places => Places')
  <2>1. /\ call'[t].step = "publish" /\ call'[t].notice = m /\ call'[t].batches = Grouped(found)
        /\ \A r \in Threads : r # t => call'[r] = call[r]
    BY <1>1, <1>3 DEF Typed, Calls
  <2>2. m \in 1 .. Len(notices) /\ notices \in Seq(Notices)
    BY <1>1 DEF Numbered, Telling, Typed
  <2>3. Len(notices') = Len(notices) /\ notices'[m].found = found
        /\ \A n : n # m => notices'[n] = notices[n]
    <3> HIDE DEF m, found, reach
    <3>1. notices[m] \in Notices
      BY <2>2
    <3>2. notices' = [notices EXCEPT ![m] = [notices[m] EXCEPT !.found = found, !.reach = reach]]
      BY <1>3, <2>2
    <3>3. [notices[m] EXCEPT !.found = found, !.reach = reach].found = found
      BY <3>1 DEF Notices
    <3>4. QED
      BY <2>2, <3>2, <3>3
  <2>4. \A r \in Threads : Telling(r)' => Telling(r) /\ call'[r].notice = call[r].notice
    BY <1>1, <2>1 DEF Telling
  <2>5. Numbered'
    BY <1>1, <2>3, <2>4 DEF Numbered
  <2> HIDE DEF found, reach
  <2>6. ASSUME Places, NEW s \in Servers, NEW u \in Users, NEW n \in 1 .. MaxNotices
        PROVE  OnePlace(s, n, u)'
    <3>1. OnePlace(s, n, u)
      BY <2>6 DEF Places
    <3>2. \A i : Holds(s, i, n, u)' <=> Holds(s, i, n, u)
      BY <1>1 DEF Holds
    <3>3. (Boxed(s, n, u)' <=> Boxed(s, n, u)) /\ (Unheard(s, n, u)' <=> Unheard(s, n, u))
      BY <1>1 DEF Boxed, Holds, Unheard
    <3>4. \A r \in Threads : r # t => /\ call'[r] = call[r] /\ (Sends(r, n)' <=> Sends(r, n))
                                      /\ \A b : Pending(r, b, n, u)' <=> Pending(r, b, n, u)
      BY <2>1 DEF Sends, Telling, Pending
    <3>5. n = m => Sends(t, n) /\ Unheard(s, n, u)
      <4>1. n = m => Sends(t, n)
        BY <1>1 DEF Sends, Telling
      <4>2. QED
        BY <1>1, <3>1, <4>1 DEF OnePlace
    <3>6. n # m => \A c : Listed(n, u, c)' <=> Listed(n, u, c)
      BY <2>3 DEF Listed
    <3>7. \A r \in Threads : r # t /\ Sends(r, n) => n # m
      BY <1>1 DEF Numbered, Sends, Telling
    <3>8. \A b : Pending(t, b, n, u)' => n = m /\ b \in Grouped(found) /\ u \in b.targets
      BY <2>1 DEF Pending, Sends
    <3>9. \A b, d :
            /\ Pending(t, b, n, u)' => Unheard(s, n, u) /\ Listed(n, u, b.to)'
            /\ Pending(t, b, n, u)' /\ Pending(t, d, n, u)' => b = d
      <4>1. \A b \in Grouped(found) : u \in b.targets =>
              <<u, b.to>> \in found /\ \A d \in Grouped(found) : u \in d.targets => b = d
        BY OneGroupEach DEF found
      <4>2. QED
        BY <2>3, <3>5, <3>8, <4>1 DEF Listed
    <3>10. \A r \in Threads : r # t => \A b, d :
             /\ Pending(r, b, n, u)' => Unheard(s, n, u) /\ Listed(n, u, b.to)'
             /\ Pending(r, b, n, u)' /\ Pending(r, d, n, u)' => b = d
      <4>1. \A r \in Threads : \A b : Pending(r, b, n, u) => b \in call[r].batches /\ Sends(r, n)
        BY DEF Pending
      <4>2. QED
        BY <3>1, <3>4, <3>6, <3>7, <4>1 DEF OnePlace
    <3>11. \A r \in Threads : Sends(r, n)' /\ call'[r].step = "locate" => Unheard(s, n, u)'
      BY <2>1, <3>1, <3>3, <3>4 DEF OnePlace
    <3>12. sent'[s][u][n] # <<>> \/ Boxed(s, n, u)' => Listed(n, u, channel[s])'
      BY <1>1, <3>1, <3>3, <3>5, <3>6 DEF OnePlace, Unheard, Listed
    <3>13. /\ Len(sent'[s][u][n]) <= 1
           /\ Boxed(s, n, u)' => sent'[s][u][n] = <<>>
           /\ \A i, j \in DOMAIN inbox'[s] : Holds(s, i, n, u)' /\ Holds(s, j, n, u)' => i = j
      BY <1>1, <3>1, <3>2, <3>3 DEF OnePlace
    <3>14. QED
      BY <3>3, <3>9, <3>10, <3>11, <3>12, <3>13 DEF OnePlace
  <2>7. QED
    BY <2>5, <2>6 DEF Places
<1>4. QED
  BY <1>2, <1>3 DEF Locate

(* A group goes from the sender to the inboxes of those who listen to the   *)
(* channel of the server where its targets were found.                      *)
LEMMA PublishInv ==
  ASSUME Typed, Numbered, NEW t \in Threads, Publish(t)
  PROVE  Calm \/ (Numbered' /\ (Places => Places'))
<1> DEFINE m == call[t].notice
           Gets(s, b) == s \in Hearers(b.to)
           mail(b) == [notice |-> m, targets |-> b.targets]
<1>1. sent' = sent /\ notices' = notices /\ channel' = channel
      /\ call[t].step = "publish" /\ call[t] \in Calls
  BY DEF Publish, historyVars, subVars, Typed
<1>2. CASE call' = [call EXCEPT ![t] = Idle] /\ inbox' = inbox
  BY <1>1, <1>2 DEF Calm, Idle, Typed
<1>3. ASSUME NEW b \in call[t].batches,
             inbox' = [s \in Servers |-> IF Gets(s, b) THEN Append(inbox[s], mail(b)) ELSE inbox[s]],
             call' = [call EXCEPT ![t].batches = @ \ {b}]
      PROVE  Numbered' /\ (Places => Places')
  <2>1. /\ call'[t].step = "publish" /\ call'[t].notice = m /\ call'[t].batches = call[t].batches \ {b}
        /\ \A r \in Threads : r # t => call'[r] = call[r]
    BY <1>1, <1>3 DEF Typed, Calls
  <2>2. m \in 1 .. Len(notices)
    BY <1>1 DEF Numbered, Telling
  <2>3. \A r \in Threads : Telling(r)' => Telling(r) /\ call'[r].notice = call[r].notice
    BY <1>1, <2>1 DEF Telling
  <2>4. ASSUME NEW s \in Servers
        PROVE  /\ ~Gets(s, b) => inbox'[s] = inbox[s]
               /\ Gets(s, b) =>
                    /\ DOMAIN inbox'[s] = DOMAIN inbox[s] \union {Len(inbox[s]) + 1}
                    /\ \A i \in DOMAIN inbox[s] : i # Len(inbox[s]) + 1 /\ inbox'[s][i] = inbox[s][i]
                    /\ inbox'[s][Len(inbox[s]) + 1] = mail(b)
    <3> DEFINE q == inbox[s]
               x == mail(b)
    <3>1. q \in Seq(Message)
      BY DEF Typed
    <3>2. inbox'[s] = IF Gets(s, b) THEN Append(q, x) ELSE q
      BY <1>3
    <3> HIDE DEF q, x, Gets
    <3>3. /\ DOMAIN Append(q, x) = DOMAIN q \union {Len(q) + 1}
          /\ \A i \in DOMAIN q : i # Len(q) + 1 /\ Append(q, x)[i] = q[i]
          /\ Append(q, x)[Len(q) + 1] = x
      BY <3>1, SMTT(30)
    <3>4. QED
      BY <3>2, <3>3 DEF q, x
  <2>5. mail(b).notice = m /\ mail(b).targets = b.targets
    OBVIOUS
  <2>6. \A s \in Servers : Gets(s, b) => channel[s] = b.to
    BY DEF Hearers
  <2> HIDE DEF Gets, mail
  <2>7. \A s \in Servers : \A i : i \in DOMAIN inbox'[s] =>
          \/ i \in DOMAIN inbox[s] /\ inbox'[s][i] = inbox[s][i]
          \/ Gets(s, b) /\ i = Len(inbox[s]) + 1 /\ inbox'[s][i] = mail(b)
    BY <2>4
  <2>8. Numbered'
    <3>1. \A s \in Servers : \A i \in DOMAIN inbox'[s] : inbox'[s][i].notice <= Len(notices)
      BY <2>2, <2>5, <2>7 DEF Numbered
    <3>2. QED
      BY <1>1, <2>3, <3>1 DEF Numbered
  <2>9. ASSUME Places, NEW s \in Servers, NEW u \in Users, NEW n \in 1 .. MaxNotices
        PROVE  OnePlace(s, n, u)'
    <3>1. OnePlace(s, n, u)
      BY <2>9 DEF Places
    <3>2. \A c : Listed(n, u, c)' <=> Listed(n, u, c)
      BY <1>1 DEF Listed
    <3>3. \A i : Holds(s, i, n, u)' =>
            \/ Holds(s, i, n, u)
            \/ channel[s] = b.to /\ i = Len(inbox[s]) + 1 /\ Pending(t, b, n, u)
      BY <1>1, <2>5, <2>6, <2>7 DEF Holds, Pending, Sends, Telling
    <3>4. Boxed(s, n, u)' => Boxed(s, n, u) \/ (Pending(t, b, n, u) /\ channel[s] = b.to)
      BY <3>3 DEF Boxed, Holds
    <3>5. \A i : Holds(s, i, n, u) => i \in DOMAIN inbox[s] /\ Boxed(s, n, u)
      BY DEF Holds, Boxed
    <3>6. Pending(t, b, n, u) => sent[s][u][n] = <<>> /\ ~Boxed(s, n, u) /\ Listed(n, u, b.to)
      BY <3>1 DEF OnePlace, Unheard
    <3>7. \A r \in Threads : \A d : Pending(r, d, n, u)' =>
            Pending(r, d, n, u) /\ d \in call[r].batches /\ (r # t \/ d # b)
      BY <1>1, <2>1, <2>3 DEF Pending, Sends, Telling
    <3>8. \A r \in Threads : Sends(r, n) /\ Pending(t, b, n, u) => r = t
      BY DEF Pending, Sends, Numbered
    <3>9. \A r \in Threads : \A d : Pending(r, d, n, u)' => ~Pending(t, b, n, u)
      <4>1. ASSUME NEW r \in Threads, NEW d, Pending(r, d, n, u)', Pending(t, b, n, u) PROVE FALSE
        <5>1. Pending(r, d, n, u) /\ d \in call[r].batches /\ (r # t \/ d # b)
          BY <3>7, <4>1
        <5>2. r = t
          BY <3>8, <4>1, <5>1 DEF Pending
        <5>3. d = b
          BY <3>1, <4>1, <5>1, <5>2 DEF OnePlace
        <5>4. QED
          BY <5>1, <5>2, <5>3
      <4>2. QED
        BY <4>1
    <3>10. \A r \in Threads : Sends(r, n)' /\ call'[r].step = "locate" =>
             Sends(r, n) /\ call[r].step = "locate" /\ ~Pending(t, b, n, u)
      <4>1. \A r \in Threads : Sends(r, n)' /\ call'[r].step = "locate" =>
              r # t /\ Sends(r, n) /\ call[r].step = "locate"
        BY <1>1, <2>1, <2>3 DEF Sends
      <4>2. QED
        BY <3>8, <4>1
    <3>11. Unheard(s, n, u) /\ ~Pending(t, b, n, u) => Unheard(s, n, u)'
      BY <1>1, <3>4 DEF Unheard
    <3>12. /\ Len(sent'[s][u][n]) <= 1
           /\ sent'[s][u][n] # <<>> \/ Boxed(s, n, u)' => Listed(n, u, channel'[s])
           /\ Boxed(s, n, u)' => sent'[s][u][n] = <<>>
      BY <1>1, <3>1, <3>4, <3>6 DEF OnePlace
    <3>13. \A i, j : Holds(s, i, n, u)' /\ Holds(s, j, n, u)' => i = j
      <4>1. \A i, j : Holds(s, i, n, u) /\ Holds(s, j, n, u) => i = j
        BY <3>1, <3>5 DEF OnePlace
      <4>2. QED
        BY <3>3, <3>5, <3>6, <4>1
    <3>14. \A r \in Threads : \A d, e :
             /\ Pending(r, d, n, u)' => Unheard(s, n, u)' /\ Listed(n, u, d.to)
             /\ Pending(r, d, n, u)' /\ Pending(r, e, n, u)' => d = e
      BY <3>1, <3>7, <3>9, <3>11 DEF OnePlace
    <3>15. \A r \in Threads : Sends(r, n)' /\ call'[r].step = "locate" => Unheard(s, n, u)'
      BY <3>1, <3>10, <3>11 DEF OnePlace
    <3>16. QED
      BY <3>2, <3>12, <3>13, <3>14, <3>15 DEF OnePlace
  <2>10. QED
    BY <2>8, <2>9 DEF Places
<1>4. QED
  BY <1>2, <1>3 DEF Publish

(* Where the messages of an inbox were, before a target was taken.          *)
Shift(q, v) == IF q[1].targets = {v} THEN 1 ELSE 0

LEMMA TookOutcome ==
  ASSUME NEW q \in Seq(Message), 1 \in DOMAIN q, NEW v \in q[1].targets
  PROVE  \A i \in DOMAIN Took(q, v) :
           /\ i \in Nat \ {0} /\ i + Shift(q, v) \in DOMAIN q
           /\ Took(q, v)[i].notice = q[i + Shift(q, v)].notice
           /\ Took(q, v)[i].targets \subseteq q[i + Shift(q, v)].targets
           /\ i + Shift(q, v) = 1 => v \notin Took(q, v)[i].targets
<1>1. q[1] \in Message
  OBVIOUS
<1>2. CASE q[1].targets = {v}
  <2>1. \A i \in DOMAIN Tail(q) : i \in Nat \ {0} /\ i + 1 \in DOMAIN q /\ Tail(q)[i] = q[i + 1]
    BY SMTT(30)
  <2>2. \A i \in Nat \ {0} : i + 1 # 1
    OBVIOUS
  <2>3. Took(q, v) = Tail(q) /\ Shift(q, v) = 1
    BY <1>2 DEF Took, Shift
  <2>4. QED
    BY <2>1, <2>2, <2>3
<1>3. CASE q[1].targets # {v}
  <2> DEFINE x == [q[1] EXCEPT !.targets = @ \ {v}]
  <2>1. x.notice = q[1].notice /\ x.targets = q[1].targets \ {v}
    BY <1>1 DEF Message
  <2>2. Took(q, v) = [q EXCEPT ![1] = x] /\ Shift(q, v) = 0
    BY <1>3 DEF Took, Shift
  <2> HIDE DEF x
  <2>3. DOMAIN [q EXCEPT ![1] = x] = DOMAIN q /\ \A i \in DOMAIN q : i \in Nat \ {0} /\ i + 0 = i
    OBVIOUS
  <2>4. \A i \in DOMAIN q : [q EXCEPT ![1] = x][i] = IF i = 1 THEN x ELSE q[i]
    OBVIOUS
  <2>5. QED
    BY <2>1, <2>2, <2>3, <2>4
<1>4. QED
  BY <1>2, <1>3

(* What is sent of a message is no longer in it.                            *)
LEMMA HearInv ==
  ASSUME Typed, Numbered, NEW s \in Servers, Hear(s)
  PROVE  Numbered' /\ (Places => Places')
<1>1. inbox[s] \in Seq(Message) /\ 1 \in DOMAIN inbox[s] /\ inbox[s][1] \in Message
  BY HearOutcome
<1>2. call' = call /\ notices' = notices /\ channel' = channel
  BY DEF Hear, subVars
<1>3. PICK v \in inbox[s][1].targets :
        /\ inbox' = [inbox EXCEPT ![s] = Took(inbox[s], v)]
        /\ directory' = [directory EXCEPT ![s][v] = Looked(s, v)]
        /\ sent' = SentTo(s, Looked(s, v), v, inbox[s][1].notice)
  BY HearOutcome
<1> DEFINE m == inbox[s][1].notice
           c == Looked(s, v)
           h == Shift(inbox[s], v)
<1>4. v \in Users /\ m \in 1 .. MaxNotices /\ m <= Len(notices)
  BY <1>1 DEF Message, Numbered
<1>5. c \in Conns
  BY <1>4 DEF Looked, Typed
<1>6. \A r \in Servers, u \in Users, n \in 1 .. MaxNotices :
        sent'[r][u][n] = IF r = s /\ u = v /\ n = m THEN Append(sent[r][u][n], c) ELSE sent[r][u][n]
  <2>1. sent' = SentTo(s, c, v, m)
    BY <1>3
  <2> HIDE DEF c, m
  <2>2. QED
    BY <1>4, <1>5, <2>1, SentOutcome
<1>7. inbox'[s] = Took(inbox[s], v) /\ \A r \in Servers : r # s => inbox'[r] = inbox[r]
  BY <1>3 DEF Typed
<1>8. \A i \in DOMAIN inbox'[s] :
        /\ i \in Nat \ {0} /\ i + h \in DOMAIN inbox[s]
        /\ inbox'[s][i].notice = inbox[s][i + h].notice
        /\ inbox'[s][i].targets \subseteq inbox[s][i + h].targets
        /\ i + h = 1 => v \notin inbox'[s][i].targets
  BY <1>1, <1>7, TookOutcome
<1>9. h \in Nat
  BY DEF Shift
<1> HIDE DEF m, c, h
<1>10. Numbered'
  <2>1. \A r \in Servers : \A i \in DOMAIN inbox'[r] : inbox'[r][i].notice <= Len(notices)
    BY <1>7, <1>8 DEF Numbered
  <2>2. Len(notices) \in Nat
    BY DEF Typed
  <2>3. \A r \in Servers, u \in Users, n \in 1 .. MaxNotices : n > Len(notices) => sent'[r][u][n] = <<>>
    BY <1>4, <1>6, <2>2 DEF Numbered
  <2>4. QED
    BY <1>2, <2>1, <2>3 DEF Numbered, Telling
<1>11. ASSUME Places, NEW r \in Servers, NEW u \in Users, NEW n \in 1 .. MaxNotices
       PROVE  OnePlace(r, n, u)'
  <2>1. OnePlace(r, n, u)
    BY <1>11 DEF Places
  <2>2. \A i : Holds(r, i, n, u) => i \in DOMAIN inbox[r] /\ Boxed(r, n, u)
    BY DEF Holds, Boxed
  <2>3. \A t \in Threads : (Sends(t, n)' <=> Sends(t, n)) /\ \A b : Pending(t, b, n, u)' <=> Pending(t, b, n, u)
    BY <1>2 DEF Pending, Sends, Telling
  <2>4. \A d : Listed(n, u, d)' <=> Listed(n, u, d)
    BY <1>2 DEF Listed
  <2>5. \A i, j : Holds(r, i, n, u) /\ Holds(r, j, n, u) => i = j
    BY <2>1, <2>2 DEF OnePlace
  <2>6. \A i, j : Holds(r, i, n, u)' /\ Holds(r, j, n, u)' => i = j
    <3>1. CASE r # s
      BY <1>7, <2>5, <3>1 DEF Holds
    <3>2. CASE r = s
      <4>1. \A i : Holds(s, i, n, u)' => i \in Nat /\ Holds(s, i + h, n, u)
        BY <1>8 DEF Holds
      <4>2. \A i, j \in Nat : i + h = j + h => i = j
        BY <1>9
      <4>3. QED
        BY <2>5, <3>2, <4>1, <4>2
    <3>3. QED
      BY <3>1, <3>2
  <2>7. Boxed(r, n, u)' => Boxed(r, n, u)
    <3>1. \A i : Holds(s, i, n, u)' => Holds(s, i + h, n, u)
      BY <1>8 DEF Holds
    <3>2. r = s => (Boxed(r, n, u)' => Boxed(r, n, u))
      BY <3>1 DEF Boxed, Holds
    <3>3. r # s => (Boxed(r, n, u)' => Boxed(r, n, u))
      BY <1>7 DEF Boxed, Holds
    <3>4. QED
      BY <3>2, <3>3
  <2>8. CASE ~(r = s /\ u = v /\ n = m)
    <3>1. sent'[r][u][n] = sent[r][u][n]
      BY <1>6, <2>8
    <3>2. Unheard(r, n, u) => Unheard(r, n, u)'
      BY <2>7, <3>1 DEF Unheard
    <3>3. /\ Len(sent'[r][u][n]) <= 1
          /\ sent'[r][u][n] # <<>> \/ Boxed(r, n, u)' => Listed(n, u, channel'[r])
          /\ Boxed(r, n, u)' => sent'[r][u][n] = <<>>
      BY <1>2, <2>1, <2>7, <3>1 DEF OnePlace
    <3>4. \A t \in Threads : \A b, d \in call[t].batches :
            /\ Pending(t, b, n, u) => Unheard(r, n, u)' /\ Listed(n, u, b.to)
            /\ Pending(t, b, n, u) /\ Pending(t, d, n, u) => b = d
      BY <2>1, <3>2 DEF OnePlace
    <3>5. \A t \in Threads : Sends(t, n) /\ call[t].step = "locate" => Unheard(r, n, u)'
      BY <2>1, <3>2 DEF OnePlace
    <3>6. QED
      BY <1>2, <2>3, <2>4, <2>6, <3>3, <3>4, <3>5 DEF OnePlace
  <2>9. CASE r = s /\ u = v /\ n = m
    <3>1. Holds(r, 1, n, u) /\ Boxed(r, n, u)
      BY <1>1, <1>3, <2>2, <2>9 DEF Holds, m
    <3>2. sent[r][u][n] = <<>> /\ Listed(n, u, channel[r])
      BY <2>1, <3>1 DEF OnePlace
    <3>3. ~Boxed(r, n, u)'
      <4>1. ASSUME NEW i, Holds(s, i, n, u)' PROVE FALSE
        <5>1. i \in DOMAIN inbox'[s] /\ Holds(s, i + h, n, u) /\ v \in inbox'[s][i].targets
          BY <1>8, <2>9, <4>1 DEF Holds
        <5>2. i + h = 1
          BY <2>5, <2>9, <3>1, <5>1
        <5>3. QED
          BY <1>8, <5>1, <5>2
      <4>2. QED
        BY <2>9, <4>1 DEF Boxed
    <3>4. Len(sent'[r][u][n]) <= 1
      <4>1. sent'[r][u][n] = Append(<<>>, c)
        BY <1>6, <2>9, <3>2
      <4>2. Len(Append(<<>>, c)) = 1
        OBVIOUS
      <4>3. QED
        BY <4>1, <4>2
    <3>5. \A t \in Threads : (\A b : ~Pending(t, b, n, u)) /\ ~(Sends(t, n) /\ call[t].step = "locate")
      <4>1. \A t \in Threads : \A b : Pending(t, b, n, u) => b \in call[t].batches
        BY DEF Pending
      <4>2. QED
        BY <2>1, <3>1, <4>1 DEF OnePlace, Unheard
    <3>6. QED
      BY <1>2, <2>3, <2>4, <2>6, <3>2, <3>3, <3>4, <3>5 DEF OnePlace
  <2>10. QED
    BY <2>8, <2>9
<1>12. QED
  BY <1>10, <1>11 DEF Places

LEMMA StepInv == Typed /\ IInv /\ [Next]_vars => IInv'
<1> SUFFICES ASSUME Typed, IInv, [Next]_vars PROVE IInv'
  OBVIOUS
<1>1. Numbered /\ Places
  BY DEF IInv
<1>2. Calm => Numbered' /\ Places'
  BY <1>1, CalmNumbered, CalmPlaces
<1>3. ASSUME \/ UNCHANGED vars \/ UserSteps
             \/ \E t \in Threads : Look(t) \/ AnswerFriend(t) \/ \E u \in Speakers, v \in Users : Accept(t, u, v)
             \/ \E s \in Servers : Subscribe(s) \/ Ends(s)
      PROVE  Numbered' /\ Places'
  BY <1>2, <1>3, CalmSteps
<1>4. ASSUME NEW t \in Threads, Locate(t) \/ Publish(t) PROVE Numbered' /\ Places'
  BY <1>1, <1>2, <1>4, LocateInv, PublishInv
<1>5. ASSUME NEW t \in Threads, NEW u \in Speakers, Notice(t, u) PROVE Numbered' /\ Places'
  BY <1>1, <1>5, NoticeInv
<1>6. ASSUME NEW s \in Servers, Hear(s) PROVE Numbered' /\ Places'
  BY <1>1, <1>6, HearInv
<1>7. QED
  BY <1>3, <1>4, <1>5, <1>6 DEF Next, Handler, IInv

(* Both invariants hold in every state that can be reached.                 *)
LEMMA SpecInv == Spec => [](Typed /\ IInv)
<1>1. Init => Typed /\ IInv
  BY InitTyped, InitInv
<1>2. Typed /\ IInv /\ [Next]_vars => (Typed /\ IInv)'
  <2>1. IInv => Numbered
    BY DEF IInv
  <2>2. QED
    BY <2>1, StepTyped, StepInv
<1>3. QED
  BY <1>1, <1>2, PTL DEF Spec

(* The maps, inboxes and counts keep their types: a call names a notice     *)
(* there is, a message has targets who are users, and GetObjNumByPk puts    *)
(* connection numbers, and nothing else, into the map from pk to connection *)
(* (ConnUsersManager.cpp).                                                  *)
THEOREM TypeCorrect == Spec => []TypeOK
<1>1. Typed => TypeOK
  BY DEF Typed, TypeOK, Calls, Batch, Steps
<1>2. QED
  BY <1>1, SpecInv, PTL

(* Whatever channels the servers listen to, a server sends one packet of a  *)
(* notice for each target and only for those found on its channel:          *)
(* PublishToUsers of RedisManager.cpp puts a friend in the group of one     *)
(* server only, and HandleFriendOnline and HandleFriendOffline of           *)
(* LobbyRedisSubscriber.cpp take each target of a message once, wherever    *)
(* the friend moves meanwhile.  It says nothing of who is on the connection *)
(* the packet goes to.                                                      *)
THEOREM EachTargetOnce == Spec => []OnceWhereFound
<1>1. IInv => OnceWhereFound
  BY DEF IInv, Places, OnePlace, OnceWhereFound, Listed
<1>2. QED
  BY <1>1, SpecInv, PTL
=============================================================================
